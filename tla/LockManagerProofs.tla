------------ MODULE LockManagerProofs ------------
(* Proofs about the lock manager, for any number of lockers and partitions. *)
(*                                                                          *)
(* LockInv is inductive by itself.  The actions fall into three groups.     *)
(* Some change one thread and its request and leave the head alone          *)
(* (QuietStep).  Some put a request on the head (NewRequest, Convert,       *)
(* MigratePartition): they add blockers, so that whoever was blocked still  *)
(* is (ConvertersKept, WaitersKept).  And some release (UnlockGranted,      *)
(* CancelWaiting, CancelConversion, Downgrade): they first make the request *)
(* of one thread weaker, which keeps all of LockInv but NoneLost, and then  *)
(* call _onLockModeChanged, which restores it (ModeChangeShared).  The      *)
(* counters are handled one request at a time (OneCounted), so that no      *)
(* induction over the lists is needed.                                      *)
(*                                                                          *)
(* The count of compatible-first requests is kept apart (PolicyInv): it is  *)
(* exact only if nobody upgrades a global lock.                             *)
EXTENDS LockManager, FiniteSetTheorems, WellFoundedInduction, TLAPS

(* No thread upgrades a lock on a global resource.  An upgrade there would  *)
(* mark the request compatible-first without counting it (lock, convert),   *)
(* and the count would be wrong.                                            *)
NoGlobalUpgrade == Global => Upgraders = {}

(* The type of the lock head; that compatibleFirst is no negative number    *)
(* needs the policy invariant below.                                        *)
HeadType ==
  [granted : [Mode -> Nat], conflict : [Mode -> Nat], conversions : Nat,
   compatibleFirst : Int, before : SUBSET (Locker \X Locker)]

(* The types of the variables.                                              *)
TypesInv ==
  /\ req \in [Locker -> LockRequest]
  /\ head \in HeadType
  /\ partitions \subseteq Partition
  /\ bucket \in Locker \cup {NoLocker, Cleaner}
  /\ notified \in [Locker -> BOOLEAN]
  /\ pc \in [Locker -> {"idle", "lock", "convert", "wait", "undo", "unlock"}]
  /\ want \in [Locker -> Mode \cup {"NONE"}]
  /\ scope \in [Locker -> Seq(Mode)]
  /\ wuow \in [Locker -> BOOLEAN]
  /\ pending \in [Locker -> Nat]

(* What a request looks like in each status: a request on a partition is    *)
(* granted in an intent mode, a converting one seeks a stronger mode, and   *)
(* so on.                                                                   *)
Shaped(q) ==
  /\ q.status = "NONE" => q = NoRequest
  /\ q.status # "NONE" => q.mode \in Mode
  /\ q.status = "NEW" => q.place = "none"
  /\ q.status \in {"WAITING", "CONVERTING"} => q.place = "head"
  /\ q.status = "GRANTED" => q.place \in {"partition", "head"}
  /\ q.place = "partition" => q.status = "GRANTED" /\ q.mode \in Intent
  /\ IF q.status = "CONVERTING"
       THEN q.convertMode \in Mode /\ q.mode # q.convertMode
            /\ IsModeCovered(q.mode, q.convertMode)
       ELSE q.convertMode = "NONE"

(* All requests are shaped so.                                              *)
RequestsShaped(r) == r \in [Locker -> LockRequest] /\ \A l \in Locker : Shaped(r[l])

(* Where a thread is, and what its request looks like then.                 *)
ThreadShaped(q, at, w, sc, pd, nt) ==
  /\ at = "idle" => q.status \in {"NONE", "GRANTED"}
  /\ at = "lock" => q.status = "NEW" /\ w = q.mode /\ ~nt
  /\ at = "convert" => /\ q.status = "GRANTED" /\ ~nt
                       /\ w \in Mode /\ w # q.mode /\ IsModeCovered(q.mode, w)
  /\ at = "wait" => /\ q.status \in {"GRANTED", "WAITING", "CONVERTING"}
                    /\ nt <=> q.status = "GRANTED"
                    /\ w = IF q.status = "CONVERTING" THEN q.convertMode ELSE q.mode
  /\ at = "undo" => q.status \in {"GRANTED", "WAITING", "CONVERTING"}
  /\ at = "unlock" => q.status \in {"GRANTED", "WAITING", "CONVERTING"} /\ q.place = "head"
  /\ q.status \in {"NONE", "NEW", "WAITING"} => sc = <<>> /\ pd = 0
  /\ q.status = "CONVERTING" \/ at = "convert" \/ (at = "idle" /\ q.status = "GRANTED")
       => Len(sc) + pd > 0
  /\ q.count = Len(sc) + pd + (IF at \in {"lock", "convert", "wait", "undo"} THEN 1 ELSE 0)
  /\ \A i \in 1..Len(sc) : IsModeCovered(sc[i], q.mode)

(* All threads are where their requests say they are.                       *)
ThreadsShaped ==
  \A l \in Locker : ThreadShaped(req[l], pc[l], want[l], scope[l], pending[l], notified[l])

(* The requests that are on the granted list in a mode, that convert to it, *)
(* and that wait for it.                                                    *)
Held(r, m)   == OfMode(OnHead(r), r, m)
Sought(r, m) == {l \in Converting(r) : r[l].convertMode = m}
Queued(r, m) == OfMode(Waiting(r), r, m)

(* The counters of the head are the sizes of those sets.                    *)
Counted(h, r) ==
  /\ \A m \in Mode : /\ h.granted[m] = Cardinality(Held(r, m)) + Cardinality(Sought(r, m))
                     /\ h.conflict[m] = Cardinality(Queued(r, m))
  /\ h.conversions = Cardinality(Converting(r))

(* No two holders have conflicting modes.                                   *)
Compatible(r) ==
  \A k, l \in Locker :
    /\ k # l
    /\ r[k].status \in {"GRANTED", "CONVERTING"} /\ r[l].status \in {"GRANTED", "CONVERTING"}
    => r[k].mode \notin LockConflictsTable[r[l].mode]

(* The conflict list is a list: before is a strict total order of those     *)
(* that wait.                                                               *)
Ordered(before, W) ==
  /\ before \subseteq W \X W
  /\ \A k \in W : <<k, k>> \notin before
  /\ \A j, k, l \in W : <<j, k>> \in before /\ <<k, l>> \in before => <<j, l>> \in before
  /\ \A k, l \in W : k = l \/ <<k, l>> \in before \/ <<l, k>> \in before

(* Requests are on partitions only that exist, and while there is one no    *)
(* request waits or is granted, or converts to, anything but an intent      *)
(* mode.                                                                    *)
Apart(parts, r) ==
  /\ \A l \in Locker : r[l].place = "partition" => PartitionOf[l] \in parts
  /\ parts # {} => \A l \in Locker :
       /\ r[l].status # "WAITING"
       /\ l \in OnHead(r) => r[l].mode \in Intent
       /\ r[l].status = "CONVERTING" => r[l].convertMode \in Intent

(* Nobody waits whom the lock manager could have granted.                   *)
NoneLost(h, r) ==
  /\ Waiting(r) # {} => GrantedModes(h) # {}
  /\ \A l \in Waiting(r) :
       (\A k \in Waiting(r) : <<k, l>> \notin h.before)
         => \/ Conflicts(r[l].mode, GrantedModes(h))
            \/ r[l].compatibleFirst /\ Conflicts(r[l].mode, ConflictModes(h))
  /\ \A l \in Converting(r) :
       Conflicts(r[l].convertMode, GrantedWithout(h, r, l))

(* The inductive invariant of the lock manager.                             *)
LockInv ==
  /\ TypesInv
  /\ RequestsShaped(req)
  /\ ThreadsShaped
  /\ Counted(head, req)
  /\ Compatible(req)
  /\ Ordered(head.before, Waiting(req))
  /\ Apart(partitions, req)
  /\ NoneLost(head, req)

(* The policy: only upgraders convert, and the requests in modes S and X on *)
(* a global resource, and no others elsewhere, ask for compatible-first.    *)
Upgrading == \A l \in Locker : pc[l] = "convert" \/ req[l].status = "CONVERTING" => l \in Upgraders
Marked(q) == /\ ~Global => ~q.compatibleFirst
             /\ Global /\ q.mode \in {"S", "X"} => q.compatibleFirst
PriorityMarked == \A l \in Locker : Marked(req[l])
PolicyInv == Upgrading /\ PriorityMarked /\ CompatibleFirstCounted

--------------------
(* Sets of lockers are finite; how their cardinality changes.               *)

(* A set of lockers has a size, zero only if it is empty.                   *)
LEMMA LockersFinite ==
  ASSUME NEW S, S \subseteq Locker
  PROVE  /\ IsFiniteSet(S)
         /\ Cardinality(S) \in Nat
         /\ Cardinality(S) = 0 <=> S = {}
<1>1. IsFiniteSet(S)
  BY FS_Subset, LockAssumption
<1> QED BY <1>1, FS_CardinalityType, FS_EmptySet

(* One more locker.                                                         *)
LEMMA LockerAdded ==
  ASSUME NEW S, S \subseteq Locker, NEW l \in Locker, l \notin S
  PROVE  Cardinality(S \cup {l}) = Cardinality(S) + 1
  BY LockersFinite, FS_AddElement

(* One locker less.                                                         *)
LEMMA LockerRemoved ==
  ASSUME NEW S, S \subseteq Locker, NEW l \in S
  PROVE  Cardinality(S \ {l}) = Cardinality(S) - 1
  BY LockersFinite, FS_RemoveElement

(* Two disjoint sets of lockers.                                            *)
LEMMA LockersJoined ==
  ASSUME NEW S, NEW T, S \subseteq Locker, T \subseteq Locker, S \cap T = {}
  PROVE  Cardinality(S \cup T) = Cardinality(S) + Cardinality(T)
<1>1. /\ IsFiniteSet(S) /\ IsFiniteSet(T)
      /\ Cardinality(S) \in Nat /\ Cardinality(T) \in Nat
  BY LockersFinite
<1>2. Cardinality(S \cup T) = Cardinality(S) + Cardinality(T) - Cardinality(S \cap T)
  BY <1>1, FS_Union
<1>3. Cardinality(S \cap T) = 0
  BY FS_EmptySet
<1> QED BY <1>1, <1>2, <1>3

(* A set of lockers without some of its members.                            *)
LEMMA LockersTaken ==
  ASSUME NEW S, NEW T, S \subseteq Locker, T \subseteq S
  PROVE  /\ Cardinality(S \ T) = Cardinality(S) - Cardinality(T)
         /\ Cardinality(T) <= Cardinality(S)
<1>1. IsFiniteSet(S) /\ S \cap T = T
  BY LockersFinite
<1>2. Cardinality(S \ T) = Cardinality(S) - Cardinality(S \cap T)
  BY <1>1, FS_Difference
<1>3. Cardinality(T) <= Cardinality(S)
  BY <1>1, FS_Subset
<1> QED BY <1>1, <1>2, <1>3

--------------------
(* The conflict table.                                                      *)

(* The conflict table, mode by mode.                                        *)
LEMMA Table ==
  /\ LockConflictsTable["IS"] = {"X"}
  /\ LockConflictsTable["IX"] = {"S", "X"}
  /\ LockConflictsTable["S"] = {"IX", "X"}
  /\ LockConflictsTable["X"] = {"IS", "IX", "S", "X"}
<1>1. /\ LockConflictsTable["IS"] = CASE "IS" = "IS" -> {"X"} [] "IS" = "IX" -> {"S", "X"}
                                     [] "IS" = "S" -> {"IX", "X"} [] "IS" = "X" -> Mode
      /\ LockConflictsTable["IX"] = CASE "IX" = "IS" -> {"X"} [] "IX" = "IX" -> {"S", "X"}
                                     [] "IX" = "S" -> {"IX", "X"} [] "IX" = "X" -> Mode
      /\ LockConflictsTable["S"] = CASE "S" = "IS" -> {"X"} [] "S" = "IX" -> {"S", "X"}
                                     [] "S" = "S" -> {"IX", "X"} [] "S" = "X" -> Mode
      /\ LockConflictsTable["X"] = CASE "X" = "IS" -> {"X"} [] "X" = "IX" -> {"S", "X"}
                                     [] "X" = "S" -> {"IX", "X"} [] "X" = "X" -> Mode
  BY DEF LockConflictsTable, Mode
<1> QED BY <1>1 DEF Mode

(* Two modes conflict.                                                      *)
Clash(a, b) == b \in LockConflictsTable[a]

(* What the proofs need of the table: it is symmetric, X conflicts with     *)
(* all, intent modes do not conflict, and covering is a partial order.      *)
LEMMA Clashes ==
  ASSUME NEW a \in Mode, NEW b \in Mode
  PROVE  /\ Clash(a, b) <=> Clash(b, a)
         /\ Clash(a, "X")
         /\ a \in Intent /\ b \in Intent => ~Clash(a, b)
         /\ IsModeCovered(a, a)
         /\ IsModeCovered(a, b) /\ b \in Intent => a \in Intent
         /\ IsModeCovered(a, b) /\ IsModeCovered(b, a) => a = b
         /\ IsModeCovered(a, b) /\ a \in {"S", "X"} => b \in {"S", "X"}
  BY Table DEF Clash, Mode, Intent, IsModeCovered

(* What covers a mode conflicts with all that the mode does.                *)
LEMMA CoveredClash ==
  ASSUME NEW a, NEW b, IsModeCovered(a, b), NEW c, Clash(a, c)
  PROVE  Clash(b, c)
  BY DEF Clash, IsModeCovered

(* Covering is transitive.                                                  *)
LEMMA CoveredTrans ==
  ASSUME NEW a, NEW b, NEW c, IsModeCovered(a, b), IsModeCovered(b, c)
  PROVE  IsModeCovered(a, c)
  BY DEF IsModeCovered

(* The test against a mask of modes.                                        *)
LEMMA ConflictsClash ==
  ASSUME NEW a, NEW M
  PROVE  Conflicts(a, M) <=> \E b \in M : Clash(a, b)
  BY DEF Conflicts, Clash

--------------------
(* What the counters say when they match the lists.                         *)

(* The request is on the granted list and counted for the mode.             *)
HasMode(r, l, m) == l \in OnHead(r) /\ (r[l].mode = m \/ r[l].convertMode = m)

(* MODE_NONE is no mode to ask for.                                         *)
LEMMA ModeNotNone == "NONE" \notin Mode
  BY DEF Mode

(* The lists hold lockers.                                                  *)
LEMMA SubsetsOfLockers ==
  ASSUME NEW r, NEW m
  PROVE  /\ Held(r, m) \subseteq Locker /\ Sought(r, m) \subseteq Locker
         /\ Queued(r, m) \subseteq Locker /\ Converting(r) \subseteq Locker
         /\ Waiting(r) \subseteq Locker /\ OnHead(r) \subseteq Locker
  BY DEF Held, Sought, Queued, OfMode, OnHead, Converting, Waiting

(* A mode is in the granted mask when a request is counted for it.          *)
LEMMA GrantedIff ==
  ASSUME NEW h, NEW r, RequestsShaped(r), Counted(h, r), NEW m \in Mode
  PROVE  m \in GrantedModes(h) <=> \E l \in Locker : HasMode(r, l, m)
<1>1. h.granted[m] = Cardinality(Held(r, m)) + Cardinality(Sought(r, m))
  BY DEF Counted
<1>2. /\ Cardinality(Held(r, m)) \in Nat /\ (Cardinality(Held(r, m)) = 0 <=> Held(r, m) = {})
      /\ Cardinality(Sought(r, m)) \in Nat /\ (Cardinality(Sought(r, m)) = 0 <=> Sought(r, m) = {})
  BY LockersFinite, SubsetsOfLockers
<1>3. h.granted[m] > 0 <=> Held(r, m) \cup Sought(r, m) # {}
  BY <1>1, <1>2
<1>4. \A l \in Locker : l \in Held(r, m) \cup Sought(r, m) <=> HasMode(r, l, m)
  BY ModeNotNone DEF Held, Sought, OfMode, HasMode, OnHead, Converting, RequestsShaped, Shaped
<1>5. Held(r, m) \cup Sought(r, m) \subseteq Locker
  BY SubsetsOfLockers
<1> QED BY <1>3, <1>4, <1>5 DEF GrantedModes

(* A mode is in the conflict mask when a request waits for it.              *)
LEMMA ConflictIff ==
  ASSUME NEW h, NEW r, Counted(h, r), NEW m \in Mode
  PROVE  m \in ConflictModes(h) <=> \E l \in Waiting(r) : r[l].mode = m
<1>1. h.conflict[m] = Cardinality(Queued(r, m))
  BY DEF Counted
<1>2. Cardinality(Queued(r, m)) \in Nat /\ (Cardinality(Queued(r, m)) = 0 <=> Queued(r, m) = {})
  BY LockersFinite, SubsetsOfLockers
<1>3. h.conflict[m] > 0 <=> Queued(r, m) # {}
  BY <1>1, <1>2
<1> QED BY <1>3 DEF ConflictModes, Queued, OfMode

(* The mask that _onLockModeChanged tests a conversion against: the modes   *)
(* the others are counted for.                                              *)
LEMMA WithoutIff ==
  ASSUME NEW h, NEW r, RequestsShaped(r), Counted(h, r), NEW m \in Mode,
         NEW l \in OnHead(r)
  PROVE  m \in GrantedWithout(h, r, l) <=> \E k \in Locker \ {l} : HasMode(r, k, m)
<1> DEFINE A == Held(r, m)
           B == Sought(r, m)
           own == {x \in {"mode", "convertMode"} : r[l][x] = m}
<1>0. l \in Locker /\ A \subseteq Locker /\ B \subseteq Locker
  BY SubsetsOfLockers
<1>1. h.granted[m] = Cardinality(A) + Cardinality(B)
  BY DEF Counted
<1>2. l \in A <=> r[l].mode = m
  BY DEF Held, OfMode
<1>3. l \in B <=> r[l].convertMode = m
  BY <1>0, ModeNotNone DEF Sought, Converting, RequestsShaped, Shaped
<1>4. ~(l \in A /\ l \in B)
  BY <1>0, <1>2, <1>3, ModeNotNone DEF RequestsShaped, Shaped
<1>5. own = (IF l \in A THEN {"mode"} ELSE {}) \cup (IF l \in B THEN {"convertMode"} ELSE {})
  <2>1. r[l]["mode"] = r[l].mode /\ r[l]["convertMode"] = r[l].convertMode
    OBVIOUS
  <2> QED BY <1>2, <1>3, <2>1
<1>6. Cardinality(own) = IF l \in A \cup B THEN 1 ELSE 0
  <2>1. CASE l \in A
    <3>1. own = {"mode"}
      BY <2>1, <1>4, <1>5
    <3> QED BY <2>1, <3>1, FS_Singleton
  <2>2. CASE l \in B
    <3>1. own = {"convertMode"}
      BY <2>2, <1>4, <1>5
    <3> QED BY <2>2, <3>1, FS_Singleton
  <2>3. CASE l \notin A /\ l \notin B
    <3>1. own = {}
      BY <2>3, <1>5
    <3> QED BY <2>3, <3>1, FS_EmptySet
  <2> QED BY <2>1, <2>2, <2>3
<1> HIDE DEF A, B, own
<1>7. /\ Cardinality(A) \in Nat /\ (Cardinality(A) = 0 <=> A = {})
      /\ Cardinality(B) \in Nat /\ (Cardinality(B) = 0 <=> B = {})
      /\ Cardinality(A \ {l}) \in Nat /\ (Cardinality(A \ {l}) = 0 <=> A \ {l} = {})
      /\ Cardinality(B \ {l}) \in Nat /\ (Cardinality(B \ {l}) = 0 <=> B \ {l} = {})
  <2>1. A \ {l} \subseteq Locker /\ B \ {l} \subseteq Locker
    BY <1>0
  <2> QED BY <1>0, <2>1, LockersFinite
<1>8. /\ l \in A => Cardinality(A \ {l}) = Cardinality(A) - 1
      /\ l \notin A => A \ {l} = A
      /\ l \in B => Cardinality(B \ {l}) = Cardinality(B) - 1
      /\ l \notin B => B \ {l} = B
  BY <1>0, LockerRemoved
<1>9. h.granted[m] > Cardinality(own) <=> A \ {l} # {} \/ B \ {l} # {}
  <2>1. CASE l \in A
    BY <2>1, <1>1, <1>4, <1>6, <1>7, <1>8
  <2>2. CASE l \in B
    BY <2>2, <1>1, <1>4, <1>6, <1>7, <1>8
  <2>3. CASE l \notin A /\ l \notin B
    BY <2>3, <1>1, <1>6, <1>7, <1>8
  <2> QED BY <2>1, <2>2, <2>3
<1>10. \A k \in Locker : k \in A \cup B <=> HasMode(r, k, m)
  BY ModeNotNone DEF A, B, Held, Sought, OfMode, HasMode, OnHead, Converting, RequestsShaped, Shaped
<1>11. m \in GrantedWithout(h, r, l) <=> h.granted[m] > Cardinality(own)
  BY DEF GrantedWithout, own
<1> QED BY <1>0, <1>9, <1>10, <1>11

--------------------
(* Grants: the conversions C and the waiting requests G are granted.        *)

(* The requests and the head after the grants.                              *)
Regranted(r, C, G) ==
  [l \in Locker |->
     IF l \in C THEN [r[l] EXCEPT !.status = "GRANTED", !.mode = r[l].convertMode,
                                  !.convertMode = "NONE"]
     ELSE IF l \in G THEN [r[l] EXCEPT !.status = "GRANTED"]
     ELSE r[l]]

HeadRegranted(h, r, C, G) ==
  [granted |-> [m \in Mode |-> h.granted[m] - Cardinality(OfMode(C, r, m))
                                            + Cardinality(OfMode(G, r, m))],
   conflict |-> [m \in Mode |-> h.conflict[m] - Cardinality(OfMode(G, r, m))],
   conversions |-> h.conversions - Cardinality(C),
   compatibleFirst |-> h.compatibleFirst + CompatibleFirstAdded(G, r),
   before |-> {b \in h.before : b[1] \notin G /\ b[2] \notin G}]

(* _onLockModeChanged grants the conversions that are possible and a part   *)
(* of the queue.                                                            *)
LEMMA ModeChangedBy ==
  ASSUME NEW h, NEW r, NEW b, OnLockModeChanged(h, r, b)
  PROVE  \E G \in SUBSET Waiting(r) :
           /\ IF b THEN GrantsFromQueue(h, r, ConversionsGranted(h, r), G) ELSE G = {}
           /\ head' = HeadRegranted(h, r, ConversionsGranted(h, r), G)
           /\ req' = Regranted(r, ConversionsGranted(h, r), G)
           /\ notified' = [l \in Locker |-> notified[l] \/ l \in ConversionsGranted(h, r) \cup G]
  BY DEF OnLockModeChanged, HeadRegranted, Regranted

(* The fields of a request.                                                 *)
LEMMA RequestFields ==
  ASSUME NEW r, RequestsShaped(r), NEW l \in Locker
  PROVE  /\ r[l] = [status |-> r[l].status, mode |-> r[l].mode,
                    convertMode |-> r[l].convertMode, count |-> r[l].count,
                    partitioned |-> r[l].partitioned, place |-> r[l].place,
                    compatibleFirst |-> r[l].compatibleFirst]
         /\ r[l].status \in {"NONE", "NEW", "GRANTED", "WAITING", "CONVERTING"}
         /\ r[l].mode \in Mode \cup {"NONE"} /\ r[l].convertMode \in Mode \cup {"NONE"}
         /\ r[l].count \in Nat /\ r[l].place \in {"none", "partition", "head"}
         /\ r[l].partitioned \in BOOLEAN /\ r[l].compatibleFirst \in BOOLEAN
<1>1. r[l] \in LockRequest
  BY DEF RequestsShaped
<1> QED BY <1>1 DEF LockRequest

(* The fields of a request after the grants.                                *)
LEMMA RegrantedFields ==
  ASSUME NEW r, RequestsShaped(r), NEW C, NEW G,
         C \subseteq Converting(r), G \subseteq Waiting(r), NEW l \in Locker
  PROVE  LET q == Regranted(r, C, G)[l] IN
         /\ q.status = IF l \in C \cup G THEN "GRANTED" ELSE r[l].status
         /\ q.mode = IF l \in C THEN r[l].convertMode ELSE r[l].mode
         /\ q.convertMode = IF l \in C THEN "NONE" ELSE r[l].convertMode
         /\ q.count = r[l].count /\ q.partitioned = r[l].partitioned
         /\ q.place = r[l].place /\ q.compatibleFirst = r[l].compatibleFirst
         /\ l \notin C \cup G => q = r[l]
         /\ q \in LockRequest
         /\ Shaped(q)
<1> DEFINE q == Regranted(r, C, G)[l]
<1>0. r[l] \in LockRequest /\ Shaped(r[l])
  BY DEF RequestsShaped
<1>1. CASE l \in C
  <2>1. r[l].status = "CONVERTING"
    BY <1>1 DEF Converting
  <2>2. r[l].convertMode \in Mode /\ r[l].place = "head"
    BY <2>1, <1>0 DEF Shaped
  <2>3. q = [r[l] EXCEPT !.status = "GRANTED", !.mode = r[l].convertMode,
                         !.convertMode = "NONE"]
    BY <1>1 DEF Regranted
  <2>4. /\ q.status = "GRANTED" /\ q.mode = r[l].convertMode /\ q.convertMode = "NONE"
        /\ q.count = r[l].count /\ q.partitioned = r[l].partitioned
        /\ q.place = r[l].place /\ q.compatibleFirst = r[l].compatibleFirst
        /\ q \in LockRequest
    BY <1>0, <2>2, <2>3 DEF LockRequest
  <2>5. Shaped(q)
    BY <2>2, <2>4 DEF Shaped
  <2> QED BY <1>1, <2>4, <2>5
<1>2. CASE l \notin C /\ l \in G
  <2>1. r[l].status = "WAITING"
    BY <1>2 DEF Waiting
  <2>2. r[l].mode \in Mode /\ r[l].place = "head" /\ r[l].convertMode = "NONE"
    BY <2>1, <1>0 DEF Shaped
  <2>3. q = [r[l] EXCEPT !.status = "GRANTED"]
    BY <1>2 DEF Regranted
  <2>4. /\ q.status = "GRANTED" /\ q.mode = r[l].mode /\ q.convertMode = r[l].convertMode
        /\ q.count = r[l].count /\ q.partitioned = r[l].partitioned
        /\ q.place = r[l].place /\ q.compatibleFirst = r[l].compatibleFirst
        /\ q \in LockRequest
    BY <1>0, <2>2, <2>3 DEF LockRequest
  <2>5. Shaped(q)
    BY <2>2, <2>4 DEF Shaped
  <2> QED BY <1>2, <2>4, <2>5
<1>3. CASE l \notin C \cup G
  <2>1. q = r[l]
    BY <1>3 DEF Regranted
  <2> QED BY <1>0, <1>3, <2>1
<1> QED BY <1>1, <1>2, <1>3

(* Grants keep the shape of the requests.                                   *)
LEMMA RegrantedShaped ==
  ASSUME NEW r, RequestsShaped(r), NEW C, NEW G,
         C \subseteq Converting(r), G \subseteq Waiting(r)
  PROVE  RequestsShaped(Regranted(r, C, G))
<1> DEFINE r2 == Regranted(r, C, G)
<1>1. \A l \in Locker : r2[l] \in LockRequest /\ Shaped(r2[l])
  BY RegrantedFields
<1>2. r2 = [l \in Locker |-> r2[l]]
  BY DEF Regranted
<1> HIDE DEF r2
<1>3. r2 \in [Locker -> LockRequest]
  BY <1>1, <1>2
<1>4. RequestsShaped(r2)
  BY <1>1, <1>3 DEF RequestsShaped
<1> QED BY <1>4 DEF r2

(* Grants move requests from the conflict list to the granted list.         *)
LEMMA RegrantedLists ==
  ASSUME NEW r, RequestsShaped(r), NEW C, NEW G,
         C \subseteq Converting(r), G \subseteq Waiting(r)
  PROVE  /\ Waiting(Regranted(r, C, G)) = Waiting(r) \ G
         /\ Converting(Regranted(r, C, G)) = Converting(r) \ C
         /\ OnHead(Regranted(r, C, G)) = OnHead(r) \cup G
<1> DEFINE r2 == Regranted(r, C, G)
<1>1. \A l \in Locker : /\ r2[l].status = IF l \in C \cup G THEN "GRANTED" ELSE r[l].status
                        /\ r2[l].place = r[l].place
  BY RegrantedFields
<1>2. \A l \in C : r[l].status = "CONVERTING" /\ r[l].place = "head" /\ l \in Locker
  BY DEF Converting, RequestsShaped, Shaped
<1>3. \A l \in G : r[l].status = "WAITING" /\ r[l].place = "head" /\ l \in Locker
  BY DEF Waiting, RequestsShaped, Shaped
<1> HIDE DEF r2
<1>4. Waiting(r2) = Waiting(r) \ G
  BY <1>1, <1>2, <1>3 DEF Waiting
<1>5. Converting(r2) = Converting(r) \ C
  BY <1>1, <1>2, <1>3 DEF Converting
<1>6. OnHead(r2) = OnHead(r) \cup G
  BY <1>1, <1>2, <1>3 DEF OnHead
<1> QED BY <1>4, <1>5, <1>6 DEF r2

(* Grants keep the counters exact.                                          *)
LEMMA RegrantedCounted ==
  ASSUME NEW h, NEW r, RequestsShaped(r), NEW C, NEW G, Counted(h, r),
         C \subseteq Converting(r), G \subseteq Waiting(r)
  PROVE  Counted(HeadRegranted(h, r, C, G), Regranted(r, C, G))
<1> DEFINE r2 == Regranted(r, C, G)
           h2 == HeadRegranted(h, r, C, G)
<1>0. /\ Waiting(r2) = Waiting(r) \ G /\ Converting(r2) = Converting(r) \ C
      /\ OnHead(r2) = OnHead(r) \cup G
  BY RegrantedLists
<1>1. \A l \in Locker :
        /\ r2[l].mode = IF l \in C THEN r[l].convertMode ELSE r[l].mode
        /\ r2[l].convertMode = IF l \in C THEN "NONE" ELSE r[l].convertMode
  BY RegrantedFields
<1>2. /\ \A m \in Mode : /\ h2.granted[m] = h.granted[m] - Cardinality(OfMode(C, r, m))
                                            + Cardinality(OfMode(G, r, m))
                         /\ h2.conflict[m] = h.conflict[m] - Cardinality(OfMode(G, r, m))
      /\ h2.conversions = h.conversions - Cardinality(C)
  BY DEF HeadRegranted
<1> HIDE DEF r2, h2
<1>3. /\ C \subseteq OnHead(r) /\ G \cap OnHead(r) = {} /\ C \cap Waiting(r) = {}
      /\ C \subseteq Locker /\ G \subseteq Locker
  BY DEF Converting, Waiting, OnHead, RequestsShaped, Shaped
<1>4. ASSUME NEW m \in Mode
      PROVE  /\ h2.granted[m] = Cardinality(Held(r2, m)) + Cardinality(Sought(r2, m))
             /\ h2.conflict[m] = Cardinality(Queued(r2, m))
  <2> DEFINE A == Held(r, m)
             B == Sought(r, m)
             Q == Queued(r, m)
             AC == OfMode(C, r, m)
             BC == {l \in C : r[l].convertMode = m}
             GM == OfMode(G, r, m)
  <2>1. /\ AC \subseteq A /\ BC \subseteq B /\ GM \subseteq Q
        /\ A \subseteq Locker /\ B \subseteq Locker /\ Q \subseteq Locker
        /\ (A \ AC) \cap BC = {} /\ ((A \ AC) \cup BC) \cap GM = {}
    BY <1>3, SubsetsOfLockers DEF Held, Sought, Queued, OfMode
  <2>2. Held(r2, m) = ((A \ AC) \cup BC) \cup GM
    BY <1>0, <1>1, <1>3, SubsetsOfLockers DEF Held, OfMode
  <2>3. Sought(r2, m) = B \ BC
    BY <1>0, <1>1, <1>3, SubsetsOfLockers DEF Sought
  <2>4. Queued(r2, m) = Q \ GM
    BY <1>0, <1>1, <1>3, SubsetsOfLockers DEF Queued, OfMode
  <2>5. /\ h.granted[m] = Cardinality(A) + Cardinality(B)
        /\ h.conflict[m] = Cardinality(Q)
    BY DEF Counted
  <2>6. /\ h2.granted[m] = h.granted[m] - Cardinality(AC) + Cardinality(GM)
        /\ h2.conflict[m] = h.conflict[m] - Cardinality(GM)
    BY <1>2
  <2> HIDE DEF A, B, Q, AC, BC, GM
  <2>7. /\ Cardinality(A) \in Nat /\ Cardinality(B) \in Nat /\ Cardinality(Q) \in Nat
        /\ Cardinality(AC) \in Nat /\ Cardinality(BC) \in Nat /\ Cardinality(GM) \in Nat
    <3>1. AC \subseteq Locker /\ BC \subseteq Locker /\ GM \subseteq Locker
      BY <2>1
    <3> QED BY <2>1, <3>1, LockersFinite
  <2>8. /\ Cardinality(A \ AC) = Cardinality(A) - Cardinality(AC)
        /\ Cardinality(B \ BC) = Cardinality(B) - Cardinality(BC)
        /\ Cardinality(Q \ GM) = Cardinality(Q) - Cardinality(GM)
    BY <2>1, LockersTaken
  <2>9. Cardinality((A \ AC) \cup BC) = Cardinality(A \ AC) + Cardinality(BC)
    <3>1. A \ AC \subseteq Locker /\ BC \subseteq Locker
      BY <2>1
    <3> QED BY <2>1, <3>1, LockersJoined
  <2>10. Cardinality(((A \ AC) \cup BC) \cup GM) = Cardinality((A \ AC) \cup BC) + Cardinality(GM)
    <3>1. (A \ AC) \cup BC \subseteq Locker /\ GM \subseteq Locker
      BY <2>1
    <3> QED BY <2>1, <3>1, LockersJoined
  <2>11. h2.conflict[m] = Cardinality(Queued(r2, m))
    BY <2>4, <2>5, <2>6, <2>7, <2>8
  <2>12. h2.granted[m] = Cardinality(Held(r2, m)) + Cardinality(Sought(r2, m))
    BY <2>2, <2>3, <2>5, <2>6, <2>7, <2>8, <2>9, <2>10
  <2> QED BY <2>11, <2>12
<1>5. h2.conversions = Cardinality(Converting(r2))
  <2>1. Cardinality(Converting(r) \ C) = Cardinality(Converting(r)) - Cardinality(C)
    BY LockersTaken, SubsetsOfLockers
  <2> QED BY <1>0, <1>2, <2>1 DEF Counted
<1>6. Counted(h2, r2)
  BY <1>4, <1>5 DEF Counted
<1> QED BY <1>6 DEF h2, r2

--------------------
(* Which waiting requests the loop over the conflict list grants.           *)

(* Those in front of a waiting request.                                     *)
Ahead(h, r, l) == {k \in Waiting(r) : <<k, l>> \in h.before}

(* The granted modes that the loop over the conflict list sees.             *)
LeftModes(h, r, C) == {m \in Mode : h.granted[m] > Cardinality(OfMode(C, r, m))}

(* The loop ends at this request.                                           *)
StopsAt(h, r, G, k) ==
  IF k \in G THEN r[k].mode = "X"
  ELSE /\ Ahead(h, r, k) \subseteq G
       /\ ~(h.compatibleFirst = 0 /\ \E j \in Ahead(h, r, k) \cap G : r[j].compatibleFirst)

(* The rule for a waiting request.                                          *)
LEMMA QueueRule ==
  ASSUME NEW h, NEW r, NEW C, NEW G, GrantsFromQueue(h, r, C, G), NEW l \in Waiting(r)
  PROVE  l \in G <=>
           /\ \A k \in Ahead(h, r, l) : ~StopsAt(h, r, G, k)
           /\ ~Conflicts(r[l].mode, LeftModes(h, r, C) \cup {r[k].mode : k \in Ahead(h, r, l) \cap G})
  BY DEF GrantsFromQueue, Ahead, LeftModes, StopsAt

(* The loop sees the modes of those that are not converted and the modes    *)
(* that were converted to.                                                  *)
LEMMA LeftIff ==
  ASSUME NEW h, NEW r, RequestsShaped(r), Counted(h, r), NEW C, C \subseteq Converting(r),
         NEW m \in Mode
  PROVE  m \in LeftModes(h, r, C) <=>
           \E k \in OnHead(r) : (k \notin C /\ r[k].mode = m) \/ r[k].convertMode = m
<1> DEFINE A == Held(r, m)
           B == Sought(r, m)
           AC == OfMode(C, r, m)
<1>0. A \subseteq Locker /\ B \subseteq Locker /\ AC \subseteq A
  BY SubsetsOfLockers DEF Held, OfMode, OnHead, Converting, RequestsShaped, Shaped
<1>1. h.granted[m] = Cardinality(A) + Cardinality(B)
  BY DEF Counted
<1>2. \A k \in Locker :
        k \in A \ AC \/ k \in B
          <=> k \in OnHead(r) /\ ((k \notin C /\ r[k].mode = m) \/ r[k].convertMode = m)
  BY ModeNotNone DEF Held, Sought, OfMode, OnHead, Converting, RequestsShaped, Shaped
<1>3. m \in LeftModes(h, r, C) <=> h.granted[m] > Cardinality(AC)
  BY DEF LeftModes
<1> HIDE DEF A, B, AC
<1>4. AC \subseteq Locker /\ A \ AC \subseteq Locker
  BY <1>0
<1>5. /\ Cardinality(A) \in Nat /\ Cardinality(AC) \in Nat
      /\ Cardinality(B) \in Nat /\ (Cardinality(B) = 0 <=> B = {})
      /\ Cardinality(A \ AC) \in Nat /\ (Cardinality(A \ AC) = 0 <=> A \ AC = {})
  BY <1>0, <1>4, LockersFinite
<1>6. Cardinality(A \ AC) = Cardinality(A) - Cardinality(AC)
  BY <1>0, LockersTaken
<1>7. h.granted[m] > Cardinality(AC) <=> A \ AC # {} \/ B # {}
  <2>1. h.granted[m] = Cardinality(A \ AC) + Cardinality(AC) + Cardinality(B)
    BY <1>1, <1>5, <1>6
  <2>2. h.granted[m] > Cardinality(AC) <=> ~(Cardinality(A \ AC) = 0 /\ Cardinality(B) = 0)
    BY <2>1, <1>5
  <2> QED BY <2>2, <1>5
<1>8. OnHead(r) \subseteq Locker
  BY SubsetsOfLockers
<1> QED BY <1>0, <1>2, <1>3, <1>7, <1>8

(* What is decided is what the lock manager decides.                        *)
Settled(h, r, C, G) ==
  /\ C = ConversionsGranted(h, r)
  /\ G \subseteq Waiting(r)
  /\ G = {} \/ GrantsFromQueue(h, r, C, G)

(* Who is granted was converting or waiting.                                *)
LEMMA SettledSets ==
  ASSUME NEW h, NEW r, NEW C, NEW G, Settled(h, r, C, G)
  PROVE  C \subseteq Converting(r) /\ G \subseteq Waiting(r) /\ C \subseteq Locker /\ G \subseteq Locker
  BY DEF Settled, ConversionsGranted, Converting, Waiting

(* The lists of the head are disjoint.                                      *)
LEMMA OnHeadFacts ==
  ASSUME NEW r, RequestsShaped(r), NEW l \in Locker
  PROVE  /\ l \in Converting(r) => l \in OnHead(r) /\ l \notin Waiting(r)
         /\ l \in Waiting(r) => l \notin OnHead(r)
         /\ l \in OnHead(r) \cup Waiting(r) => r[l].mode \in Mode
         /\ l \in Converting(r) => r[l].convertMode \in Mode
         /\ l \in OnHead(r) => HasMode(r, l, r[l].mode)
         /\ l \in Converting(r) => HasMode(r, l, r[l].convertMode)
         /\ l \in Converting(r) => IsModeCovered(r[l].mode, r[l].convertMode)
         /\ r[l].status \in {"GRANTED", "CONVERTING"}
              <=> l \in OnHead(r) \/ r[l].place = "partition"
<1>1. Shaped(r[l]) /\ r[l].place \in {"none", "partition", "head"}
  BY RequestFields DEF RequestsShaped
<1> QED BY <1>1 DEF OnHead, Converting, Waiting, HasMode, Shaped

(* A conversion is granted only if it conflicts with no other.              *)
LEMMA ConversionClear ==
  ASSUME NEW h, NEW r, RequestsShaped(r), Counted(h, r),
         NEW l \in ConversionsGranted(h, r), NEW k \in Locker, k # l, NEW m \in Mode,
         HasMode(r, k, m)
  PROVE  ~Clash(r[l].convertMode, m)
<1>1. l \in Locker /\ l \in Converting(r)
  BY DEF ConversionsGranted, Converting
<1>2. l \in OnHead(r)
  BY <1>1, OnHeadFacts
<1>3. m \in GrantedWithout(h, r, l)
  BY <1>2, WithoutIff
<1>4. ~Conflicts(r[l].convertMode, GrantedWithout(h, r, l))
  BY DEF ConversionsGranted
<1> QED BY <1>3, <1>4, ConflictsClash

(* A waiting request is granted only if it conflicts with nobody on the     *)
(* granted list.                                                            *)
LEMMA QueueClear ==
  ASSUME NEW h, NEW r, RequestsShaped(r), Counted(h, r), NEW C, NEW G,
         C \subseteq Converting(r), GrantsFromQueue(h, r, C, G),
         NEW l \in G, l \in Waiting(r), NEW k \in OnHead(r)
  PROVE  /\ k \notin C => ~Clash(r[l].mode, r[k].mode)
         /\ k \in C => ~Clash(r[l].mode, r[k].convertMode)
<1>0. k \in Locker
  BY SubsetsOfLockers
<1>1. ~Conflicts(r[l].mode, LeftModes(h, r, C) \cup {r[j].mode : j \in Ahead(h, r, l) \cap G})
  BY QueueRule
<1>2. k \notin C => r[k].mode \in LeftModes(h, r, C)
  BY <1>0, LeftIff, OnHeadFacts
<1>3. k \in C => r[k].convertMode \in LeftModes(h, r, C)
  BY <1>0, LeftIff, OnHeadFacts
<1> QED BY <1>1, <1>2, <1>3, ConflictsClash

(* Two waiting requests that are granted together do not conflict.          *)
LEMMA QueueCompatible ==
  ASSUME NEW h, NEW r, NEW C, NEW G, GrantsFromQueue(h, r, C, G), G \subseteq Waiting(r),
         NEW k \in G, NEW l \in G, <<k, l>> \in h.before
  PROVE  ~Clash(r[l].mode, r[k].mode)
<1>1. ~Conflicts(r[l].mode, LeftModes(h, r, C) \cup {r[j].mode : j \in Ahead(h, r, l) \cap G})
  BY QueueRule
<1>2. k \in Ahead(h, r, l) \cap G
  BY DEF Ahead
<1> QED BY <1>1, <1>2, ConflictsClash

(* Grants keep the holders compatible.                                      *)
LEMMA RegrantedCompatible ==
  ASSUME NEW h, NEW r, RequestsShaped(r), Counted(h, r), NEW C, NEW G, Settled(h, r, C, G),
         Compatible(r), Ordered(h.before, Waiting(r)), NEW parts, Apart(parts, r)
  PROVE  Compatible(Regranted(r, C, G))
<1> DEFINE r2 == Regranted(r, C, G)
<1>0. C \subseteq Converting(r) /\ G \subseteq Waiting(r) /\ C \subseteq Locker /\ G \subseteq Locker
  BY SettledSets
<1>1. \A l \in Locker :
        /\ r2[l].status = IF l \in C \cup G THEN "GRANTED" ELSE r[l].status
        /\ r2[l].mode = IF l \in C THEN r[l].convertMode ELSE r[l].mode
  BY <1>0, RegrantedFields
<1> HIDE DEF r2
<1>2. G # {} => GrantsFromQueue(h, r, C, G)
  BY DEF Settled
<1>3. C = ConversionsGranted(h, r)
  BY DEF Settled
(* Of a new holder and an old one. *)
<1>4. ASSUME NEW l \in C, NEW k \in Locker, k # l,
             r[k].status \in {"GRANTED", "CONVERTING"} \/ k \in G
      PROVE  ~Clash(r2[l].mode, r2[k].mode)
  <2>0. l \in Locker /\ l \in Converting(r) /\ r[l].convertMode \in Mode /\ r2[l].mode = r[l].convertMode
    BY <1>0, <1>1, OnHeadFacts
  <2>1. CASE k \in OnHead(r)
    <3>1. HasMode(r, k, r2[k].mode) /\ r2[k].mode \in Mode
      BY <2>1, <1>0, <1>1, OnHeadFacts
    <3> QED BY <3>1, <2>0, <1>3, <1>4, ConversionClear
  <2>2. CASE k \in G
    <3>1. k \in Waiting(r) /\ l \in OnHead(r) /\ k \notin C
      BY <2>2, <2>0, <1>0, OnHeadFacts
    <3>2. ~Clash(r[k].mode, r[l].convertMode)
      BY <3>1, <2>2, <1>0, <1>2, QueueClear
    <3>3. r2[k].mode = r[k].mode /\ r[k].mode \in Mode
      BY <3>1, <1>1, OnHeadFacts
    <3> QED BY <3>2, <3>3, <2>0, Clashes
  <2>3. CASE r[k].place = "partition"
    <3>1. r[k].mode \in Intent /\ k \notin C
      BY <2>3, <1>0 DEF RequestsShaped, Shaped, Converting
    <3>2. r[l].convertMode \in Intent
      BY <2>3, <2>0 DEF Apart, Converting
    <3>3. r2[k].mode = r[k].mode
      BY <3>1, <1>1
    <3>4. r[k].mode \in Mode
      BY <3>1 DEF Intent, Mode
    <3> QED BY <3>1, <3>2, <3>3, <3>4, <2>0, Clashes
  <2> QED BY <1>4, <2>1, <2>2, <2>3, OnHeadFacts
<1>5. ASSUME NEW l \in G, NEW k \in Locker, k # l, k \notin C,
             r[k].status \in {"GRANTED", "CONVERTING"} \/ k \in G
      PROVE  ~Clash(r2[l].mode, r2[k].mode)
  <2>0. l \in Locker /\ l \in Waiting(r) /\ l \notin C /\ r[l].mode \in Mode /\ r2[l].mode = r[l].mode
        /\ r2[k].mode = r[k].mode
    BY <1>0, <1>1, <1>5, OnHeadFacts
  <2>1. CASE k \in OnHead(r)
    BY <2>0, <2>1, <1>0, <1>2, <1>5, QueueClear
  <2>2. CASE k \in G
    <3>0. r[k].mode \in Mode
      BY <2>2, <1>0, OnHeadFacts
    <3>1. CASE <<k, l>> \in h.before
      BY <3>1, <2>0, <2>2, <1>0, <1>2, QueueCompatible
    <3>2. CASE <<l, k>> \in h.before
      <4>1. ~Clash(r[k].mode, r[l].mode)
        BY <3>2, <2>2, <1>0, <1>2, QueueCompatible
      <4> QED BY <4>1, <3>0, <2>0, Clashes
    <3>3. k \in Waiting(r) /\ l \in Waiting(r) /\ k # l
      BY <2>2, <1>0, <1>5
    <3> QED BY <3>1, <3>2, <3>3 DEF Ordered
  <2>3. CASE r[k].place = "partition"
    BY <2>3, <2>0 DEF Apart, Waiting
  <2> QED BY <1>5, <2>1, <2>2, <2>3, OnHeadFacts
<1>6. ASSUME NEW k \in Locker, NEW l \in Locker, k # l,
             r2[k].status \in {"GRANTED", "CONVERTING"}, r2[l].status \in {"GRANTED", "CONVERTING"}
      PROVE  ~Clash(r2[l].mode, r2[k].mode)
  <2>0. /\ r[k].status \in {"GRANTED", "CONVERTING"} \/ k \in G
        /\ r[l].status \in {"GRANTED", "CONVERTING"} \/ l \in G
        /\ r2[k].mode \in Mode /\ r2[l].mode \in Mode
    <3>1. /\ r[k].status \in {"GRANTED", "CONVERTING"} \/ k \in G
          /\ r[l].status \in {"GRANTED", "CONVERTING"} \/ l \in G
      BY <1>0, <1>1, <1>6 DEF Converting
    <3>2. RequestsShaped(r2)
      BY <1>0, RegrantedShaped DEF r2
    <3> QED BY <3>1, <3>2, <1>6 DEF RequestsShaped, Shaped
  <2>1. CASE l \in C
    BY <2>0, <2>1, <1>4, <1>6
  <2>2. CASE k \in C
    <3>1. ~Clash(r2[k].mode, r2[l].mode)
      BY <2>0, <2>2, <1>4, <1>6
    <3> QED BY <3>1, <2>0, Clashes
  <2>3. CASE l \notin C /\ k \notin C /\ l \in G
    BY <2>0, <2>3, <1>5, <1>6
  <2>4. CASE l \notin C /\ k \notin C /\ k \in G
    <3>1. ~Clash(r2[k].mode, r2[l].mode)
      BY <2>0, <2>4, <1>5, <1>6
    <3> QED BY <3>1, <2>0, Clashes
  <2>5. CASE l \notin C \cup G /\ k \notin C \cup G
    BY <2>5, <2>0, <1>1, <1>6 DEF Compatible, Clash
  <2> QED BY <2>1, <2>2, <2>3, <2>4, <2>5
<1>7. Compatible(r2)
  BY <1>6 DEF Compatible, Clash
<1> QED BY <1>7 DEF r2

--------------------
(* The order, the partitions and the blocked requests after grants.         *)

(* Grants keep the conflict list in order.                                  *)
LEMMA RegrantedOrdered ==
  ASSUME NEW h, NEW r, RequestsShaped(r), NEW C, NEW G,
         C \subseteq Converting(r), G \subseteq Waiting(r), Ordered(h.before, Waiting(r))
  PROVE  Ordered(HeadRegranted(h, r, C, G).before, Waiting(Regranted(r, C, G)))
<1> DEFINE W == Waiting(r)
           b2 == {b \in h.before : b[1] \notin G /\ b[2] \notin G}
<1>1. HeadRegranted(h, r, C, G).before = b2 /\ Waiting(Regranted(r, C, G)) = W \ G
  BY RegrantedLists DEF HeadRegranted
<1>2. \A k, l : <<k, l>> \in b2 <=> <<k, l>> \in h.before /\ k \notin G /\ l \notin G
  OBVIOUS
<1>3. b2 \subseteq (W \ G) \X (W \ G)
  BY DEF Ordered
<1>4. Ordered(h.before, W)
  OBVIOUS
<1> HIDE DEF W, b2
<1>5. Ordered(b2, W \ G)
  BY <1>2, <1>3, <1>4 DEF Ordered
<1> QED BY <1>1, <1>5

(* Grants keep partitions to intent modes.                                  *)
LEMMA RegrantedApart ==
  ASSUME NEW r, RequestsShaped(r), NEW C, NEW G, NEW parts,
         C \subseteq Converting(r), G \subseteq Waiting(r), Apart(parts, r)
  PROVE  Apart(parts, Regranted(r, C, G))
<1> DEFINE r2 == Regranted(r, C, G)
<1>1. ASSUME NEW l \in Locker
      PROVE  /\ r2[l].status = IF l \in C \cup G THEN "GRANTED" ELSE r[l].status
             /\ r2[l].mode = IF l \in C THEN r[l].convertMode ELSE r[l].mode
             /\ r2[l].convertMode = IF l \in C THEN "NONE" ELSE r[l].convertMode
             /\ r2[l].place = r[l].place
             /\ l \in OnHead(r2) <=> l \in OnHead(r) \/ l \in G
             /\ l \in C => r[l].status = "CONVERTING"
             /\ l \in G => r[l].status = "WAITING"
  BY RegrantedFields, RegrantedLists DEF Converting, Waiting
<1> HIDE DEF r2
<1>2. Apart(parts, r2)
  BY <1>1 DEF Apart
<1> QED BY <1>2 DEF r2

(* The part of NoneLost about waiting requests, and the one about           *)
(* conversions.                                                             *)
WaitersBlocked(h, r) ==
  /\ Waiting(r) # {} => GrantedModes(h) # {}
  /\ \A l \in Waiting(r) :
       (\A k \in Waiting(r) : <<k, l>> \notin h.before)
         => \/ Conflicts(r[l].mode, GrantedModes(h))
            \/ r[l].compatibleFirst /\ Conflicts(r[l].mode, ConflictModes(h))

ConvertersBlocked(h, r) ==
  \A l \in Converting(r) : Conflicts(r[l].convertMode, GrantedWithout(h, r, l))

(* The two parts.                                                           *)
LEMMA NoneLostParts ==
  ASSUME NEW h, NEW r
  PROVE  NoneLost(h, r) <=> WaitersBlocked(h, r) /\ ConvertersBlocked(h, r)
  BY DEF NoneLost, WaitersBlocked, ConvertersBlocked

(* A conversion that is granted keeps the clashes of the mode it had.       *)
LEMMA ClashKept ==
  ASSUME NEW r, RequestsShaped(r), NEW C, NEW G,
         C \subseteq Converting(r), G \subseteq Waiting(r),
         NEW k \in Locker, NEW a \in Mode, NEW b \in Mode, HasMode(r, k, b), Clash(a, b)
  PROVE  \E c \in Mode : HasMode(Regranted(r, C, G), k, c) /\ Clash(a, c)
<1> DEFINE r2 == Regranted(r, C, G)
<1>1. /\ r2[k].mode = IF k \in C THEN r[k].convertMode ELSE r[k].mode
      /\ r2[k].convertMode = IF k \in C THEN "NONE" ELSE r[k].convertMode
      /\ k \in OnHead(r2)
  <2>1. k \in OnHead(r)
    BY DEF HasMode
  <2> QED BY <2>1, RegrantedFields, RegrantedLists
<1> HIDE DEF r2
<1>2. CASE k \notin C
  BY <1>1, <1>2 DEF HasMode, r2
<1>3. CASE k \in C
  <2>1. /\ k \in Converting(r) /\ r[k].convertMode \in Mode
        /\ IsModeCovered(r[k].mode, r[k].convertMode)
    BY <1>3, OnHeadFacts
  <2>2. Clash(a, r[k].convertMode)
    <3>1. CASE r[k].convertMode = b
      BY <3>1
    <3>2. CASE r[k].mode = b
      <4>1. Clash(b, a)
        BY Clashes
      <4>2. Clash(r[k].convertMode, a)
        BY <4>1, <3>2, <2>1, CoveredClash
      <4> QED BY <4>2, <2>1, Clashes
    <3> QED BY <3>1, <3>2 DEF HasMode
  <2>3. HasMode(r2, k, r[k].convertMode)
    BY <1>1, <1>3 DEF HasMode
  <2> QED BY <2>1, <2>2, <2>3 DEF r2
<1> QED BY <1>2, <1>3

(* A conversion that is passed over still conflicts after the grants.       *)
LEMMA RegrantedConverters ==
  ASSUME NEW h, NEW r, RequestsShaped(r), Counted(h, r), NEW C, NEW G, Settled(h, r, C, G)
  PROVE  ConvertersBlocked(HeadRegranted(h, r, C, G), Regranted(r, C, G))
<1> DEFINE r2 == Regranted(r, C, G)
           h2 == HeadRegranted(h, r, C, G)
<1>0. C \subseteq Converting(r) /\ G \subseteq Waiting(r)
  BY SettledSets
<1>1. RequestsShaped(r2) /\ Counted(h2, r2)
  BY <1>0, RegrantedShaped, RegrantedCounted
<1>2. ASSUME NEW l \in Converting(r2)
      PROVE  Conflicts(r2[l].convertMode, GrantedWithout(h2, r2, l))
  <2>1. l \in Locker /\ l \in Converting(r) /\ l \notin C
    BY <1>0, RegrantedLists, SubsetsOfLockers
  <2>2. r2[l].convertMode = r[l].convertMode /\ r[l].convertMode \in Mode /\ l \in OnHead(r)
    BY <1>0, <2>1, RegrantedFields, OnHeadFacts
  <2>3. Conflicts(r[l].convertMode, GrantedWithout(h, r, l))
    BY <2>1 DEF Settled, ConversionsGranted
  <2>4. PICK b \in GrantedWithout(h, r, l) : Clash(r[l].convertMode, b)
    BY <2>3, ConflictsClash
  <2>5. b \in Mode
    BY DEF GrantedWithout
  <2>6. PICK k \in Locker \ {l} : HasMode(r, k, b)
    BY <2>2, <2>4, <2>5, WithoutIff
  <2>7. PICK c \in Mode : HasMode(r2, k, c) /\ Clash(r[l].convertMode, c)
    BY <1>0, <2>2, <2>4, <2>5, <2>6, ClashKept
  <2>8. l \in OnHead(r2)
    BY <1>1, <1>2, <2>1, OnHeadFacts
  <2>9. c \in GrantedWithout(h2, r2, l)
    BY <1>1, <2>7, <2>8, WithoutIff
  <2> QED BY <2>2, <2>7, <2>9, ConflictsClash
<1> QED BY <1>2 DEF ConvertersBlocked

(* After a scan of the conflict list its first request is blocked.          *)
LEMMA RegrantedWaitersScanned ==
  ASSUME NEW h, NEW r, RequestsShaped(r), Counted(h, r), NEW C, NEW G, Settled(h, r, C, G),
         GrantsFromQueue(h, r, C, G)
  PROVE  WaitersBlocked(HeadRegranted(h, r, C, G), Regranted(r, C, G))
<1> DEFINE r2 == Regranted(r, C, G)
           h2 == HeadRegranted(h, r, C, G)
<1>0. C \subseteq Converting(r) /\ G \subseteq Waiting(r) /\ G \subseteq Locker /\ C \subseteq Locker
  BY SettledSets
<1>1. RequestsShaped(r2) /\ Counted(h2, r2) /\ Waiting(r2) = Waiting(r) \ G
  BY <1>0, RegrantedShaped, RegrantedCounted, RegrantedLists
<1>2. ASSUME NEW k \in G
      PROVE  r[k].mode \in Mode /\ HasMode(r2, k, r[k].mode)
  <2>1. k \in Locker /\ k \in Waiting(r) /\ k \notin C
    BY <1>0, OnHeadFacts
  <2>2. r2[k].mode = r[k].mode /\ k \in OnHead(r2)
    BY <1>0, <2>1, RegrantedFields, RegrantedLists
  <2> QED BY <2>1, <2>2, OnHeadFacts DEF HasMode
<1>3. ASSUME NEW m \in LeftModes(h, r, C)
      PROVE  m \in Mode /\ \E k \in Locker : HasMode(r2, k, m)
  <2>0. m \in Mode
    BY DEF LeftModes
  <2>1. PICK k \in OnHead(r) : (k \notin C /\ r[k].mode = m) \/ r[k].convertMode = m
    BY <2>0, <1>0, LeftIff
  <2>2. k \in Locker
    BY SubsetsOfLockers
  <2>3. /\ r2[k].mode = IF k \in C THEN r[k].convertMode ELSE r[k].mode
        /\ r2[k].convertMode = IF k \in C THEN "NONE" ELSE r[k].convertMode
        /\ k \in OnHead(r2)
    BY <1>0, <2>2, RegrantedFields, RegrantedLists
  <2> QED BY <2>0, <2>1, <2>2, <2>3 DEF HasMode
<1> HIDE DEF r2, h2
<1>4. \A m \in Mode, k \in Locker : HasMode(r2, k, m) => m \in GrantedModes(h2)
  BY <1>1, GrantedIff
<1>5. ASSUME Waiting(r2) # {}, GrantedModes(h2) = {}
      PROVE  FALSE
  <2>1. G = {}
    BY <1>0, <1>2, <1>4, <1>5
  <2>2. LeftModes(h, r, C) = {}
    BY <1>3, <1>4, <1>5
  <2>3. \A l \in Waiting(r) : \E k \in Ahead(h, r, l) : StopsAt(h, r, G, k)
    <3> TAKE l \in Waiting(r)
    <3>1. ~Conflicts(r[l].mode, LeftModes(h, r, C) \cup {r[k].mode : k \in Ahead(h, r, l) \cap G})
      BY <2>1, <2>2, ConflictsClash
    <3> QED BY <2>1, <3>1, QueueRule
  <2>4. PICK l \in Waiting(r) : TRUE
    BY <1>1, <1>5
  <2>5. PICK k \in Ahead(h, r, l) : StopsAt(h, r, G, k)
    BY <2>3
  <2>6. Ahead(h, r, k) = {} /\ k \in Waiting(r)
    BY <2>1, <2>5 DEF StopsAt, Ahead
  <2> QED BY <2>3, <2>6
<1>6. ASSUME NEW l \in Waiting(r2), \A k \in Waiting(r2) : <<k, l>> \notin h2.before
      PROVE  Conflicts(r2[l].mode, GrantedModes(h2))
  <2>1. l \in Waiting(r) /\ l \notin G /\ l \in Locker /\ l \notin C
    BY <1>0, <1>1, OnHeadFacts, SubsetsOfLockers
  <2>2. r2[l].mode = r[l].mode /\ r[l].mode \in Mode
    BY <1>0, <2>1, RegrantedFields, OnHeadFacts DEF r2
  <2>3. Ahead(h, r, l) \subseteq G
    <3> SUFFICES ASSUME NEW k \in Waiting(r), k \notin G, <<k, l>> \in h.before
                 PROVE  FALSE
      BY DEF Ahead
    <3>1. <<k, l>> \in h2.before
      BY <2>1 DEF h2, HeadRegranted
    <3> QED BY <1>1, <1>6, <3>1
  <2>4. CASE \E k \in Ahead(h, r, l) : StopsAt(h, r, G, k)
    <3>1. PICK k \in G : r[k].mode = "X"
      BY <2>3, <2>4 DEF StopsAt
    <3>2. "X" \in GrantedModes(h2)
      BY <1>0, <1>2, <1>4, <3>1
    <3> QED BY <2>2, <3>2, Clashes, ConflictsClash
  <2>5. CASE Conflicts(r[l].mode, LeftModes(h, r, C) \cup {r[k].mode : k \in Ahead(h, r, l) \cap G})
    <3>1. PICK b \in LeftModes(h, r, C) \cup {r[k].mode : k \in Ahead(h, r, l) \cap G} :
            Clash(r[l].mode, b)
      BY <2>5, ConflictsClash
    <3>2. b \in GrantedModes(h2)
      <4>1. CASE b \in LeftModes(h, r, C)
        BY <1>3, <1>4, <4>1
      <4>2. CASE b \in {r[k].mode : k \in Ahead(h, r, l) \cap G}
        BY <1>0, <1>2, <1>4, <4>2
      <4> QED BY <4>1, <4>2
    <3> QED BY <2>2, <3>1, <3>2, ConflictsClash
  <2> QED BY <2>1, <2>4, <2>5, QueueRule
<1>7. WaitersBlocked(h2, r2)
  BY <1>5, <1>6 DEF WaitersBlocked
<1> QED BY <1>7 DEF h2, r2

(* With no scan, because the masks did not shrink, it stays blocked.        *)
LEMMA RegrantedWaitersKept ==
  ASSUME NEW h, NEW r, RequestsShaped(r), Counted(h, r), NEW C, NEW G, Settled(h, r, C, G),
         G \subseteq {}, WaitersBlocked(h, r)
  PROVE  WaitersBlocked(HeadRegranted(h, r, C, G), Regranted(r, C, G))
<1> DEFINE r2 == Regranted(r, C, G)
           h2 == HeadRegranted(h, r, C, G)
<1>0. C \subseteq Converting(r) /\ G \subseteq Waiting(r) /\ C \subseteq Locker
  BY SettledSets
<1>1. RequestsShaped(r2) /\ Counted(h2, r2) /\ Waiting(r2) = Waiting(r)
  <2>1. RequestsShaped(r2) /\ Counted(h2, r2) /\ Waiting(r2) = Waiting(r) \ G
    BY <1>0, RegrantedShaped, RegrantedCounted, RegrantedLists
  <2> QED BY <2>1
<1>2. ASSUME NEW a \in Mode, NEW b \in GrantedModes(h), Clash(a, b)
      PROVE  \E c \in GrantedModes(h2) : Clash(a, c)
  <2>1. b \in Mode
    BY DEF GrantedModes
  <2>2. PICK k \in Locker : HasMode(r, k, b)
    BY <2>1, GrantedIff
  <2>3. PICK c \in Mode : HasMode(r2, k, c) /\ Clash(a, c)
    BY <1>0, <1>2, <2>1, <2>2, ClashKept
  <2> QED BY <1>1, <2>3, GrantedIff
<1>3. \A l \in Waiting(r) : /\ r2[l].mode = r[l].mode /\ r[l].mode \in Mode
                            /\ r2[l].compatibleFirst = r[l].compatibleFirst
  <2> TAKE l \in Waiting(r)
  <2>1. l \in Locker /\ l \notin C
    BY <1>0, SubsetsOfLockers, OnHeadFacts
  <2> QED BY <1>0, <2>1, RegrantedFields, OnHeadFacts
<1>4. h2.before = h.before
  BY DEF HeadRegranted
<1> HIDE DEF r2, h2
<1>5. ASSUME NEW b \in ConflictModes(h)
      PROVE  b \in ConflictModes(h2)
  <2>1. b \in Mode
    BY DEF ConflictModes
  <2>2. PICK l \in Waiting(r) : r[l].mode = b
    BY <2>1, ConflictIff
  <2>3. r2[l].mode = b /\ l \in Waiting(r2)
    BY <1>1, <1>3, <2>2
  <2> QED BY <1>1, <2>1, <2>3, ConflictIff
<1>6. Waiting(r2) # {} => GrantedModes(h2) # {}
  <2> SUFFICES ASSUME Waiting(r2) # {}
               PROVE  GrantedModes(h2) # {}
    OBVIOUS
  <2>1. PICK b \in GrantedModes(h) : b \in Mode
    BY <1>1 DEF WaitersBlocked, GrantedModes
  <2>2. Clash("X", b)
    BY <2>1, Clashes, Table DEF Clash, Mode
  <2> QED BY <1>2, <2>2 DEF Mode
<1>7. ASSUME NEW l \in Waiting(r2), \A k \in Waiting(r2) : <<k, l>> \notin h2.before
      PROVE  \/ Conflicts(r2[l].mode, GrantedModes(h2))
             \/ r2[l].compatibleFirst /\ Conflicts(r2[l].mode, ConflictModes(h2))
  <2>1. \/ Conflicts(r[l].mode, GrantedModes(h))
        \/ r[l].compatibleFirst /\ Conflicts(r[l].mode, ConflictModes(h))
    BY <1>1, <1>4, <1>7 DEF WaitersBlocked
  <2>2. CASE Conflicts(r[l].mode, GrantedModes(h))
    BY <1>1, <1>2, <1>3, <2>2, ConflictsClash
  <2>3. CASE r[l].compatibleFirst /\ Conflicts(r[l].mode, ConflictModes(h))
    BY <1>1, <1>3, <1>5, <2>3, ConflictsClash
  <2> QED BY <2>1, <2>2, <2>3
<1>8. WaitersBlocked(h2, r2)
  BY <1>6, <1>7 DEF WaitersBlocked
<1> QED BY <1>8 DEF h2, r2

--------------------
(* _onLockModeChanged as a whole.                                           *)

(* Exact counters are natural numbers.                                      *)
LEMMA CountedTyped ==
  ASSUME NEW h, NEW r, Counted(h, r),
         h = [granted |-> h.granted, conflict |-> h.conflict, conversions |-> h.conversions,
              compatibleFirst |-> h.compatibleFirst, before |-> h.before],
         h.granted = [m \in Mode |-> h.granted[m]],
         h.conflict = [m \in Mode |-> h.conflict[m]],
         h.compatibleFirst \in Int, h.before \subseteq Locker \X Locker
  PROVE  h \in HeadType
<1>1. \A m \in Mode : h.granted[m] \in Nat /\ h.conflict[m] \in Nat
  <2> TAKE m \in Mode
  <2>1. /\ Cardinality(Held(r, m)) \in Nat /\ Cardinality(Sought(r, m)) \in Nat
        /\ Cardinality(Queued(r, m)) \in Nat
    BY SubsetsOfLockers, LockersFinite
  <2> QED BY <2>1 DEF Counted
<1>2. h.conversions \in Nat
  BY SubsetsOfLockers, LockersFinite DEF Counted
<1>3. h.granted \in [Mode -> Nat] /\ h.conflict \in [Mode -> Nat]
  BY <1>1
<1> QED BY <1>2, <1>3 DEF HeadType

(* What every release needs: from a head and requests that are consistent,  *)
(* though a grant may be due, _onLockModeChanged makes a consistent state   *)
(* in which none is.                                                        *)
LEMMA ModeChangeShared ==
  ASSUME NEW h, NEW r, RequestsShaped(r), Counted(h, r), Compatible(r),
         h.compatibleFirst \in Int, h.before \subseteq Locker \X Locker,
         Ordered(h.before, Waiting(r)), NEW parts, Apart(parts, r),
         NEW b \in BOOLEAN, b \/ WaitersBlocked(h, r), OnLockModeChanged(h, r, b)
  PROVE  /\ head' \in HeadType
         /\ RequestsShaped(req') /\ Counted(head', req') /\ Compatible(req')
         /\ Ordered(head'.before, Waiting(req')) /\ Apart(parts, req')
         /\ NoneLost(head', req')
<1> DEFINE C == ConversionsGranted(h, r)
<1>1. PICK G \in SUBSET Waiting(r) :
           /\ IF b THEN GrantsFromQueue(h, r, C, G) ELSE G = {}
           /\ head' = HeadRegranted(h, r, C, G)
           /\ req' = Regranted(r, C, G)
  BY ModeChangedBy
<1>2. Settled(h, r, C, G)
  BY <1>1 DEF Settled
<1>3. C \subseteq Converting(r) /\ G \subseteq Waiting(r) /\ G \subseteq Locker
  BY <1>2, SettledSets
<1> HIDE DEF C
<1>4. RequestsShaped(req') /\ Counted(head', req')
  BY <1>1, <1>3, RegrantedShaped, RegrantedCounted
<1>5. Compatible(req')
  BY <1>1, <1>2, RegrantedCompatible
<1>6. Ordered(head'.before, Waiting(req'))
  BY <1>1, <1>3, RegrantedOrdered
<1>7. Apart(parts, req')
  BY <1>1, <1>3, RegrantedApart
<1>8. ConvertersBlocked(head', req')
  BY <1>1, <1>2, RegrantedConverters
<1>9. WaitersBlocked(head', req')
  <2>1. CASE b
    BY <2>1, <1>1, <1>2, RegrantedWaitersScanned
  <2>2. CASE ~b
    <3>1. G \subseteq {} /\ WaitersBlocked(h, r)
      BY <2>2, <1>1
    <3> QED BY <3>1, <1>1, <1>2, RegrantedWaitersKept
  <2> QED BY <2>1, <2>2
<1>10. head' \in HeadType
  <2>3. head'.compatibleFirst \in Int
    <3>1. {l \in G : r[l].compatibleFirst} \subseteq Locker
      BY <1>3
    <3>2. Cardinality({l \in G : r[l].compatibleFirst}) \in Nat
      BY <3>1, LockersFinite
    <3> QED BY <1>1, <3>2 DEF HeadRegranted, CompatibleFirstAdded
  <2>4. head'.before \subseteq Locker \X Locker
    BY <1>1 DEF HeadRegranted
  <2>5. /\ head' = [granted |-> head'.granted, conflict |-> head'.conflict,
                    conversions |-> head'.conversions,
                    compatibleFirst |-> head'.compatibleFirst, before |-> head'.before]
        /\ head'.granted = [m \in Mode |-> head'.granted[m]]
        /\ head'.conflict = [m \in Mode |-> head'.conflict[m]]
    BY <1>1 DEF HeadRegranted
  <2> QED BY <1>4, <2>3, <2>4, <2>5, CountedTyped
<1> QED BY <1>4, <1>5, <1>6, <1>7, <1>8, <1>9, <1>10, NoneLostParts

(* What _onLockModeChanged does to one request.                             *)
LEMMA ModeChangeOne ==
  ASSUME NEW h, NEW r, RequestsShaped(r), NEW b, OnLockModeChanged(h, r, b), NEW l \in Locker,
         notified[l] \in BOOLEAN
  PROVE  /\ r[l].status \notin {"WAITING", "CONVERTING"} => req'[l] = r[l] /\ notified'[l] = notified[l]
         /\ r[l].status = "WAITING" =>
              \/ req'[l] = r[l] /\ notified'[l] = notified[l]
              \/ /\ req'[l].status = "GRANTED" /\ req'[l].mode = r[l].mode /\ notified'[l]
                 /\ req'[l].convertMode = r[l].convertMode
         /\ r[l].status = "CONVERTING" =>
              \/ req'[l] = r[l] /\ notified'[l] = notified[l]
              \/ /\ req'[l].status = "GRANTED" /\ req'[l].mode = r[l].convertMode /\ notified'[l]
         /\ req'[l].count = r[l].count /\ req'[l].place = r[l].place
         /\ req'[l].compatibleFirst = r[l].compatibleFirst
<1> DEFINE C == ConversionsGranted(h, r)
<1>1. PICK G \in SUBSET Waiting(r) :
           /\ req' = Regranted(r, C, G)
           /\ notified' = [k \in Locker |-> notified[k] \/ k \in C \cup G]
  BY ModeChangedBy
<1>2. C \subseteq Converting(r) /\ G \subseteq Waiting(r)
  BY DEF ConversionsGranted
<1>3. /\ l \in C => r[l].status = "CONVERTING"
      /\ l \in G => r[l].status = "WAITING"
  BY <1>2 DEF Converting, Waiting
<1>4. /\ req'[l].status = IF l \in C \cup G THEN "GRANTED" ELSE r[l].status
      /\ req'[l].mode = IF l \in C THEN r[l].convertMode ELSE r[l].mode
      /\ req'[l].convertMode = IF l \in C THEN "NONE" ELSE r[l].convertMode
      /\ req'[l].count = r[l].count
      /\ req'[l].place = r[l].place /\ req'[l].compatibleFirst = r[l].compatibleFirst
      /\ l \notin C \cup G => req'[l] = r[l]
  BY <1>1, <1>2, RegrantedFields
<1>5. notified'[l] = (notified[l] \/ l \in C \cup G)
  BY <1>1
<1> HIDE DEF C
<1>6. CASE l \in C
  BY <1>3, <1>4, <1>5, <1>6
<1>7. CASE l \in G
  BY <1>3, <1>4, <1>5, <1>7
<1>8. CASE l \notin C \cup G
  <2>1. notified'[l] = notified[l]
    BY <1>5, <1>8
  <2> QED BY <1>4, <1>8, <2>1
<1> QED BY <1>6, <1>7, <1>8

(* Its thread is notified if and only if it is granted.                     *)
LEMMA ModeChangeThread ==
  ASSUME NEW h, NEW r, RequestsShaped(r), NEW b, OnLockModeChanged(h, r, b), NEW l \in Locker,
         notified[l] \in BOOLEAN, NEW at, NEW w, NEW sc \in Seq(Mode), NEW pd,
         ThreadShaped(r[l], at, w, sc, pd, notified[l])
  PROVE  ThreadShaped(req'[l], at, w, sc, pd, notified'[l])
<1>0. Shaped(r[l])
  BY DEF RequestsShaped
<1>1. CASE req'[l] = r[l] /\ notified'[l] = notified[l]
  BY <1>1
<1>2. CASE /\ r[l].status = "WAITING" /\ req'[l].status = "GRANTED"
           /\ req'[l].mode = r[l].mode /\ notified'[l]
  <2>1. req'[l].count = r[l].count /\ req'[l].place = r[l].place
    BY ModeChangeOne
  <2> QED BY <1>0, <1>2, <2>1 DEF ThreadShaped
<1>3. CASE /\ r[l].status = "CONVERTING" /\ req'[l].status = "GRANTED"
           /\ req'[l].mode = r[l].convertMode /\ notified'[l]
  <2>1. req'[l].count = r[l].count /\ req'[l].place = r[l].place
    BY ModeChangeOne
  <2>2. IsModeCovered(r[l].mode, r[l].convertMode)
    BY <1>0, <1>3 DEF Shaped
  <2>3. \A i \in 1..Len(sc) : IsModeCovered(sc[i], req'[l].mode)
    BY <1>3, <2>2, CoveredTrans DEF ThreadShaped
  <2> QED BY <1>0, <1>3, <2>1, <2>3 DEF ThreadShaped
<1> QED BY <1>1, <1>2, <1>3, ModeChangeOne

--------------------
(* A step that changes the request of one locker.                           *)

(* One if l is a member.                                                    *)
In(l, S) == IF l \in S THEN 1 ELSE 0

(* Two sets that differ in one locker at most.                              *)
LEMMA OneCardinality ==
  ASSUME NEW S, NEW T, S \subseteq Locker, T \subseteq Locker, NEW l \in Locker,
         \A k \in Locker \ {l} : k \in S <=> k \in T
  PROVE  Cardinality(T) = Cardinality(S) - In(l, S) + In(l, T)
<1>1. Cardinality(S) \in Nat /\ Cardinality(T) \in Nat
  BY LockersFinite
<1>2. CASE l \in S /\ l \in T
  <2>1. S = T
    BY <1>2
  <2> QED BY <1>1, <1>2, <2>1 DEF In
<1>3. CASE l \in S /\ l \notin T
  <2>1. T = S \ {l}
    BY <1>3
  <2> QED BY <1>1, <1>3, <2>1, LockerRemoved DEF In
<1>4. CASE l \notin S /\ l \in T
  <2>1. T = S \cup {l}
    BY <1>4
  <2> QED BY <1>1, <1>4, <2>1, LockerAdded DEF In
<1>5. CASE l \notin S /\ l \notin T
  <2>1. S = T
    BY <1>5
  <2> QED BY <1>1, <1>5, <2>1 DEF In
<1> QED BY <1>2, <1>3, <1>4, <1>5

(* When one request changes, the counters are to change for its mode.       *)
LEMMA OneCounted ==
  ASSUME NEW h, NEW r, NEW h2, NEW r2, Counted(h, r), NEW l \in Locker,
         \A k \in Locker \ {l} : r2[k] = r[k],
         \A m \in Mode :
           /\ h2.granted[m] = h.granted[m] - In(l, Held(r, m)) - In(l, Sought(r, m))
                                           + In(l, Held(r2, m)) + In(l, Sought(r2, m))
           /\ h2.conflict[m] = h.conflict[m] - In(l, Queued(r, m)) + In(l, Queued(r2, m)),
         h2.conversions = h.conversions - In(l, Converting(r)) + In(l, Converting(r2))
  PROVE  Counted(h2, r2)
<1>1. ASSUME NEW m \in Mode
      PROVE  /\ h2.granted[m] = Cardinality(Held(r2, m)) + Cardinality(Sought(r2, m))
             /\ h2.conflict[m] = Cardinality(Queued(r2, m))
  <2>1. \A k \in Locker \ {l} : /\ k \in Held(r, m) <=> k \in Held(r2, m)
                                /\ k \in Sought(r, m) <=> k \in Sought(r2, m)
                                /\ k \in Queued(r, m) <=> k \in Queued(r2, m)
    BY DEF Held, Sought, Queued, OfMode, OnHead, Converting, Waiting
  <2>2. /\ Cardinality(Held(r2, m)) = Cardinality(Held(r, m)) - In(l, Held(r, m)) + In(l, Held(r2, m))
        /\ Cardinality(Sought(r2, m)) = Cardinality(Sought(r, m)) - In(l, Sought(r, m)) + In(l, Sought(r2, m))
        /\ Cardinality(Queued(r2, m)) = Cardinality(Queued(r, m)) - In(l, Queued(r, m)) + In(l, Queued(r2, m))
    BY <2>1, OneCardinality, SubsetsOfLockers
  <2>3. /\ Cardinality(Held(r, m)) \in Nat /\ Cardinality(Sought(r, m)) \in Nat
        /\ Cardinality(Queued(r, m)) \in Nat
    BY SubsetsOfLockers, LockersFinite
  <2>4. /\ h.granted[m] = Cardinality(Held(r, m)) + Cardinality(Sought(r, m))
        /\ h.conflict[m] = Cardinality(Queued(r, m))
    BY DEF Counted
  <2>5. /\ In(l, Held(r, m)) \in Int /\ In(l, Held(r2, m)) \in Int
        /\ In(l, Sought(r, m)) \in Int /\ In(l, Sought(r2, m)) \in Int
        /\ In(l, Queued(r, m)) \in Int /\ In(l, Queued(r2, m)) \in Int
    BY DEF In
  <2>6. h2.granted[m] = Cardinality(Held(r2, m)) + Cardinality(Sought(r2, m))
    BY <2>2, <2>3, <2>4, <2>5
  <2> QED BY <2>2, <2>3, <2>4, <2>6
<1>2. h2.conversions = Cardinality(Converting(r2))
  <2>1. \A k \in Locker \ {l} : k \in Converting(r) <=> k \in Converting(r2)
    BY DEF Converting
  <2>2. Cardinality(Converting(r2)) = Cardinality(Converting(r)) - In(l, Converting(r)) + In(l, Converting(r2))
    BY <2>1, OneCardinality, SubsetsOfLockers
  <2> QED BY <2>2 DEF Counted
<1> QED BY <1>1, <1>2 DEF Counted

(* A step that leaves the lists of the head alone.                          *)
SameHead(r, r2) ==
  \A l \in Locker :
    l \in OnHead(r) \cup Waiting(r) \/ l \in OnHead(r2) \cup Waiting(r2) =>
      /\ r2[l].status = r[l].status /\ r2[l].place = r[l].place
      /\ r2[l].mode = r[l].mode /\ r2[l].convertMode = r[l].convertMode
      /\ r[l].status = "WAITING" => r2[l].compatibleFirst = r[l].compatibleFirst

(* Then the lists are the same ...                                          *)
LEMMA SameHeadLists ==
  ASSUME NEW r, NEW r2, RequestsShaped(r), RequestsShaped(r2), SameHead(r, r2)
  PROVE  /\ Waiting(r2) = Waiting(r) /\ Converting(r2) = Converting(r) /\ OnHead(r2) = OnHead(r)
         /\ \A m : Held(r2, m) = Held(r, m) /\ Sought(r2, m) = Sought(r, m) /\ Queued(r2, m) = Queued(r, m)
         /\ \A m : \A l \in Locker : HasMode(r2, l, m) <=> HasMode(r, l, m)
<1>1. \A l \in Locker : Shaped(r[l]) /\ Shaped(r2[l])
  BY DEF RequestsShaped
<1>2. Waiting(r2) = Waiting(r) /\ OnHead(r2) = OnHead(r)
  BY DEF SameHead, Waiting, OnHead
<1>3. Converting(r2) = Converting(r)
  BY <1>1 DEF SameHead, Converting, OnHead, Shaped
<1>4. \A l \in Locker : l \in OnHead(r) \cup Waiting(r) =>
          r2[l].mode = r[l].mode /\ r2[l].convertMode = r[l].convertMode
  BY DEF SameHead
<1>5. ASSUME NEW m
      PROVE  /\ Held(r2, m) = Held(r, m) /\ Sought(r2, m) = Sought(r, m) /\ Queued(r2, m) = Queued(r, m)
  <2>1. Held(r2, m) = Held(r, m)
    BY <1>2, <1>4, SubsetsOfLockers DEF Held, OfMode
  <2>2. Queued(r2, m) = Queued(r, m)
    BY <1>2, <1>4, SubsetsOfLockers DEF Queued, OfMode
  <2>3. \A l \in Converting(r) : l \in OnHead(r)
    BY OnHeadFacts, SubsetsOfLockers
  <2>4. Sought(r2, m) = Sought(r, m)
    BY <1>3, <1>4, <2>3, SubsetsOfLockers DEF Sought
  <2> QED BY <2>1, <2>2, <2>4
<1>6. \A m : \A l \in Locker : HasMode(r2, l, m) <=> HasMode(r, l, m)
  BY <1>2, <1>4 DEF HasMode
<1> QED BY <1>2, <1>3, <1>5, <1>6

(* ... and what is said of them still holds.                                *)
LEMMA SameHeadInv ==
  ASSUME NEW h, NEW r, NEW r2, RequestsShaped(r), RequestsShaped(r2), SameHead(r, r2),
         Counted(h, r), Ordered(h.before, Waiting(r)), NoneLost(h, r)
  PROVE  Counted(h, r2) /\ Ordered(h.before, Waiting(r2)) /\ NoneLost(h, r2)
<1>1. /\ Waiting(r2) = Waiting(r) /\ Converting(r2) = Converting(r) /\ OnHead(r2) = OnHead(r)
      /\ \A m : Held(r2, m) = Held(r, m) /\ Sought(r2, m) = Sought(r, m) /\ Queued(r2, m) = Queued(r, m)
      /\ \A m : \A l \in Locker : HasMode(r2, l, m) <=> HasMode(r, l, m)
  BY SameHeadLists
<1>2. Counted(h, r2)
  BY <1>1 DEF Counted
<1>3. ASSUME NEW l \in Converting(r2)
      PROVE  Conflicts(r2[l].convertMode, GrantedWithout(h, r2, l))
  <2>1. l \in Locker /\ l \in Converting(r) /\ l \in OnHead(r) /\ l \in OnHead(r2)
    BY <1>1, OnHeadFacts, SubsetsOfLockers
  <2>2. r2[l].convertMode = r[l].convertMode
    BY <2>1 DEF SameHead
  <2>3. Conflicts(r[l].convertMode, GrantedWithout(h, r, l))
    BY <2>1 DEF NoneLost
  <2>4. PICK b \in GrantedWithout(h, r, l) : Clash(r[l].convertMode, b)
    BY <2>3, ConflictsClash
  <2>5. b \in Mode
    BY DEF GrantedWithout
  <2>6. PICK k \in Locker \ {l} : HasMode(r, k, b)
    BY <2>1, <2>4, <2>5, WithoutIff
  <2>7. b \in GrantedWithout(h, r2, l)
    BY <1>1, <1>2, <2>1, <2>5, <2>6, WithoutIff
  <2> QED BY <2>2, <2>4, <2>7, ConflictsClash
<1>4. \A l \in Waiting(r2) : r2[l].mode = r[l].mode /\ r2[l].compatibleFirst = r[l].compatibleFirst
  BY <1>1, SubsetsOfLockers DEF SameHead, Waiting
<1>5. WaitersBlocked(h, r2)
  BY <1>1, <1>4 DEF NoneLost, WaitersBlocked
<1> QED BY <1>1, <1>2, <1>3, <1>5, NoneLostParts DEF ConvertersBlocked

--------------------
(* The invariant in the next state, part by part.                           *)

(* The parts of the invariant give the invariant.                           *)
LEMMA NextLockInv ==
  ASSUME TypesInv', RequestsShaped(req'), ThreadsShaped', Counted(head', req'), Compatible(req'),
         Ordered(head'.before, Waiting(req')), Apart(partitions', req'), NoneLost(head', req')
  PROVE  LockInv'
  BY DEF LockInv

(* The threads other than l go on as they are.                              *)
OthersKept(l) ==
  \A k \in Locker \ {l} :
    /\ pc'[k] = pc[k] /\ want'[k] = want[k] /\ scope'[k] = scope[k]
    /\ pending'[k] = pending[k] /\ notified'[k] = notified[k]

(* A thread is where its request says.                                      *)
ThreadNow(l) == ThreadShaped(req[l], pc[l], want[l], scope[l], pending[l], notified[l])

(* The types of what belongs to threads.                                    *)
ThreadTypes ==
  /\ notified \in [Locker -> BOOLEAN]
  /\ pc \in [Locker -> {"idle", "lock", "convert", "wait", "undo", "unlock"}]
  /\ want \in [Locker -> Mode \cup {"NONE"}]
  /\ scope \in [Locker -> Seq(Mode)]
  /\ wuow \in [Locker -> BOOLEAN]
  /\ pending \in [Locker -> Nat]

(* A step of one thread that leaves the head alone.                         *)
LEMMA QuietStep ==
  ASSUME LockInv, NEW l \in Locker, ThreadTypes', RequestsShaped(req'),
         \A k \in Locker \ {l} : req'[k] = req[k],
         SameHead(req, req'), Compatible(req'), Apart(partitions', req'),
         OthersKept(l), ThreadNow(l)', head' = head, partitions' \subseteq Partition,
         bucket' \in Locker \cup {NoLocker, Cleaner}
  PROVE  LockInv'
<1>1. TypesInv'
  BY DEF LockInv, TypesInv, ThreadTypes, RequestsShaped
<1>2. Counted(head', req') /\ Ordered(head'.before, Waiting(req')) /\ NoneLost(head', req')
  BY SameHeadInv DEF LockInv
<1>3. ThreadsShaped'
  BY DEF LockInv, ThreadsShaped, OthersKept, ThreadNow
<1> QED BY <1>1, <1>2, <1>3, NextLockInv

(* What the invariant says of a thread.                                     *)
LEMMA InvThread ==
  ASSUME LockInv, NEW l \in Locker
  PROVE  /\ ThreadTypes
         /\ RequestsShaped(req)
         /\ ThreadShaped(req[l], pc[l], want[l], scope[l], pending[l], notified[l])
         /\ Shaped(req[l]) /\ req[l] \in LockRequest
         /\ pc[l] \in {"idle", "lock", "convert", "wait", "undo", "unlock"}
         /\ want[l] \in Mode \cup {"NONE"} /\ scope[l] \in Seq(Mode) /\ Len(scope[l]) \in Nat
         /\ pending[l] \in Nat /\ notified[l] \in BOOLEAN /\ wuow[l] \in BOOLEAN
  BY DEF LockInv, TypesInv, ThreadTypes, ThreadsShaped, RequestsShaped

(* Nothing changed.                                                         *)
LEMMA SameHeadRefl ==
  ASSUME NEW r
  PROVE  SameHead(r, r)
  BY DEF SameHead

(* The request and the head are left alone.                                 *)
LEMMA ThreadStep ==
  ASSUME LockInv, NEW l \in Locker, UNCHANGED <<req, head, partitions, bucket>>,
         ThreadTypes', OthersKept(l), ThreadNow(l)'
  PROVE  LockInv'
<1>1. RequestsShaped(req') /\ Compatible(req') /\ Apart(partitions', req')
  BY DEF LockInv
<1>2. SameHead(req, req')
  BY SameHeadRefl
<1>3. partitions' \subseteq Partition /\ bucket' \in Locker \cup {NoLocker, Cleaner}
  BY DEF LockInv, TypesInv
<1> QED BY <1>1, <1>2, <1>3, QuietStep

(* The end of an acquisition that was granted.                              *)
LEMMA LockOkThread ==
  ASSUME ThreadTypes, NEW l \in Locker, NEW m \in Mode, LockOk(l, m), NEW q,
         q.status = "GRANTED", IsModeCovered(m, q.mode),
         q.count = Len(scope[l]) + pending[l] + 1,
         \A i \in 1..Len(scope[l]) : IsModeCovered(scope[l][i], q.mode)
  PROVE  /\ pc' \in [Locker -> {"idle", "lock", "convert", "wait", "undo", "unlock"}]
         /\ want' \in [Locker -> Mode \cup {"NONE"}]
         /\ scope' \in [Locker -> Seq(Mode)]
         /\ \A k \in Locker \ {l} : pc'[k] = pc[k] /\ want'[k] = want[k] /\ scope'[k] = scope[k]
         /\ \A w, nt : ThreadShaped(q, pc'[l], w, scope'[l], pending[l], nt)
<1>0. /\ scope[l] \in Seq(Mode) /\ Len(scope[l]) \in Nat /\ pending[l] \in Nat
      /\ pc \in [Locker -> {"idle", "lock", "convert", "wait", "undo", "unlock"}]
      /\ want \in [Locker -> Mode \cup {"NONE"}] /\ scope \in [Locker -> Seq(Mode)]
  BY DEF ThreadTypes
<1>1. want' \in [Locker -> Mode \cup {"NONE"}] /\ \A k \in Locker \ {l} : want'[k] = want[k]
  BY <1>0 DEF LockOk
<1>2. CASE Goto(l, "idle") /\ scope' = [scope EXCEPT ![l] = Append(@, m)]
  <2> DEFINE s == Append(scope[l], m)
  <2>1. /\ pc' \in [Locker -> {"idle", "lock", "convert", "wait", "undo", "unlock"}]
        /\ scope' \in [Locker -> Seq(Mode)]
        /\ \A k \in Locker \ {l} : pc'[k] = pc[k] /\ scope'[k] = scope[k]
        /\ pc'[l] = "idle" /\ scope'[l] = s
    BY <1>0, <1>2 DEF Goto
  <2>2. Len(s) = Len(scope[l]) + 1
    BY <1>0
  <2>3. \A i \in 1..Len(s) : IsModeCovered(s[i], q.mode)
    BY <1>0, <2>2
  <2> HIDE DEF s
  <2>4. \A w, nt : ThreadShaped(q, "idle", w, s, pending[l], nt)
    BY <1>0, <2>2, <2>3 DEF ThreadShaped
  <2> QED BY <1>1, <2>1, <2>4
<1>3. CASE Goto(l, "undo") /\ UNCHANGED scope
  <2>1. /\ pc' \in [Locker -> {"idle", "lock", "convert", "wait", "undo", "unlock"}]
        /\ scope' \in [Locker -> Seq(Mode)]
        /\ \A k \in Locker \ {l} : pc'[k] = pc[k] /\ scope'[k] = scope[k]
        /\ pc'[l] = "undo" /\ scope'[l] = scope[l]
    BY <1>0, <1>3 DEF Goto
  <2>2. \A w, nt : ThreadShaped(q, "undo", w, scope[l], pending[l], nt)
    BY <1>0 DEF ThreadShaped
  <2> QED BY <1>1, <2>1, <2>2
<1> QED BY <1>2, <1>3 DEF LockOk

--------------------
(* The steps that leave the lists of the head alone.                        *)

(* A request of one locker that changes outside the head.                   *)
LEMMA OneSameHead ==
  ASSUME NEW r, NEW r2, NEW l \in Locker, RequestsShaped(r), Shaped(r2[l]),
         r2 \in [Locker -> LockRequest], \A k \in Locker \ {l} : r2[k] = r[k],
         r[l].place = "head" \/ r2[l].place = "head" =>
           /\ r2[l].status = r[l].status /\ r2[l].place = r[l].place
           /\ r2[l].mode = r[l].mode /\ r2[l].convertMode = r[l].convertMode
           /\ r[l].status = "WAITING" => r2[l].compatibleFirst = r[l].compatibleFirst
  PROVE  RequestsShaped(r2) /\ SameHead(r, r2)
<1>1. RequestsShaped(r2)
  BY DEF RequestsShaped
<1>2. Shaped(r[l]) /\ Shaped(r2[l])
  BY DEF RequestsShaped
<1>3. \A k \in Locker : k \in OnHead(r) \cup Waiting(r) => r[k].place = "head"
  BY DEF OnHead, Waiting, RequestsShaped, Shaped
<1>4. \A k \in Locker : k \in OnHead(r2) \cup Waiting(r2) => r2[k].place = "head"
  BY <1>1 DEF OnHead, Waiting, RequestsShaped, Shaped
<1>5. SameHead(r, r2)
  BY <1>3, <1>4 DEF SameHead
<1> QED BY <1>1, <1>5

(* It holds nothing that it did not hold before.                            *)
LEMMA OneNotMore ==
  ASSUME NEW r, NEW r2, NEW l \in Locker, NEW parts, \A k \in Locker \ {l} : r2[k] = r[k],
         Compatible(r), Apart(parts, r), Shaped(r2[l]), Shaped(r[l]),
         r2[l].status \in {"GRANTED", "CONVERTING"} =>
           /\ r[l].status \in {"GRANTED", "CONVERTING"} /\ r2[l].mode = r[l].mode
           /\ r2[l].place = r[l].place /\ r2[l].convertMode = r[l].convertMode
           /\ r2[l].status = r[l].status,
         r2[l].status = "WAITING" => r[l].status = "WAITING"
  PROVE  Compatible(r2) /\ Apart(parts, r2)
<1>1. Compatible(r2)
  BY DEF Compatible
<1>2. r2[l].place = "partition" => r2[l].status = "GRANTED"
  BY DEF Shaped
<1>3. Apart(parts, r2)
  <2> SUFFICES ASSUME NEW k \in Locker
               PROVE  /\ r2[k].place = "partition" => PartitionOf[k] \in parts
                      /\ parts # {} =>
                           /\ r2[k].status # "WAITING"
                           /\ k \in OnHead(r2) => r2[k].mode \in Intent
                           /\ r2[k].status = "CONVERTING" => r2[k].convertMode \in Intent
    BY DEF Apart
  <2>1. CASE k # l
    BY <2>1 DEF Apart, OnHead
  <2>2. CASE k = l
    BY <2>2, <1>2 DEF Apart, OnHead
  <2> QED BY <2>1, <2>2
<1> QED BY <1>1, <1>3

(* It is granted on a partition.                                            *)
LEMMA OnePartition ==
  ASSUME NEW r, NEW r2, NEW l \in Locker, NEW parts, NEW parts2,
         \A k \in Locker \ {l} : r2[k] = r[k],
         RequestsShaped(r), RequestsShaped(r2), Apart(parts, r), Compatible(r),
         r2[l].place = "partition", PartitionOf[l] \in parts2, parts \subseteq parts2,
         \A k \in Locker : /\ r[k].status # "WAITING"
                           /\ k \in OnHead(r) => r[k].mode \in Intent
                           /\ r[k].status = "CONVERTING" => r[k].convertMode \in Intent
  PROVE  Compatible(r2) /\ Apart(parts2, r2)
<1>1. r2[l].mode \in Intent /\ r2[l].status = "GRANTED" /\ l \notin OnHead(r2)
  BY DEF RequestsShaped, Shaped, OnHead
<1>2. \A k \in Locker : r2[k].status \in {"GRANTED", "CONVERTING"} => r2[k].mode \in Intent
  <2> SUFFICES ASSUME NEW k \in Locker, r2[k].status \in {"GRANTED", "CONVERTING"}, k # l
               PROVE  r[k].mode \in Intent
    BY <1>1
  <2>1. r[k].status \in {"GRANTED", "CONVERTING"}
    OBVIOUS
  <2>2. k \in OnHead(r) \/ r[k].place = "partition"
    BY <2>1, OnHeadFacts
  <2> QED BY <2>2 DEF RequestsShaped, Shaped
<1>3. Intent \subseteq Mode
  BY DEF Intent, Mode
<1>4. Compatible(r2)
  BY <1>2, <1>3, Clashes DEF Compatible, Clash
<1>5. Apart(parts2, r2)
  <2> SUFFICES ASSUME NEW k \in Locker
               PROVE  /\ r2[k].place = "partition" => PartitionOf[k] \in parts2
                      /\ r2[k].status # "WAITING"
                      /\ k \in OnHead(r2) => r2[k].mode \in Intent
                      /\ r2[k].status = "CONVERTING" => r2[k].convertMode \in Intent
    BY DEF Apart
  <2>1. CASE k # l
    BY <2>1 DEF Apart, OnHead
  <2>2. CASE k = l
    BY <2>2, <1>1
  <2> QED BY <2>1, <2>2
<1> QED BY <1>4, <1>5

(* What the counters of a head without conflicts say.                       *)
LEMMA OnlyIntent ==
  ASSUME NEW h, NEW r, RequestsShaped(r), Counted(h, r), GrantedModes(h) \subseteq Intent,
         ConflictModes(h) = {}, NEW k \in Locker
  PROVE  /\ r[k].status # "WAITING"
         /\ k \in OnHead(r) => r[k].mode \in Intent
         /\ r[k].status = "CONVERTING" => r[k].convertMode \in Intent
<1>1. r[k].status # "WAITING"
  <2> SUFFICES ASSUME r[k].status = "WAITING"
               PROVE  FALSE
    OBVIOUS
  <2>1. k \in Waiting(r) /\ r[k].mode \in Mode
    BY OnHeadFacts DEF Waiting
  <2> QED BY <2>1, ConflictIff
<1>2. k \in OnHead(r) => r[k].mode \in Intent
  BY OnHeadFacts, GrantedIff
<1>3. r[k].status = "CONVERTING" => r[k].convertMode \in Intent
  <2> SUFFICES ASSUME r[k].status = "CONVERTING"
               PROVE  r[k].convertMode \in Intent
    OBVIOUS
  <2>1. k \in Converting(r)
    BY DEF Converting
  <2> QED BY <2>1, OnHeadFacts, GrantedIff
<1> QED BY <1>1, <1>2, <1>3

(* UnlockRequest takes back one acquisition.  sc and pd are the scopes and  *)
(* the pending unlocks that are left.                                       *)
LEMMA UnlockRequestStep ==
  ASSUME LockInv, NEW l \in Locker, UnlockRequest(l), NEW sc \in Seq(Mode), NEW pd \in Nat,
         req[l].count = Len(sc) + pd + 1,
         req[l].status = "WAITING" => sc = <<>> /\ pd = 0,
         req[l].status = "CONVERTING" => Len(sc) + pd > 0,
         \A i \in 1..Len(sc) : IsModeCovered(sc[i], req[l].mode)
  PROVE  /\ RequestsShaped(req') /\ SameHead(req, req') /\ Compatible(req') /\ Apart(partitions, req')
         /\ \A k \in Locker \ {l} : req'[k] = req[k] /\ pc'[k] = pc[k]
         /\ pc' \in [Locker -> {"idle", "lock", "convert", "wait", "undo", "unlock"}]
         /\ \A w, nt : ThreadShaped(req'[l], pc'[l], w, sc, pd, nt)
<1> DEFINE n == req[l].count - 1
<1>0. /\ Shaped(req[l]) /\ req[l] \in LockRequest /\ RequestsShaped(req)
      /\ Compatible(req) /\ Apart(partitions, req) /\ req \in [Locker -> LockRequest]
      /\ pc \in [Locker -> {"idle", "lock", "convert", "wait", "undo", "unlock"}]
  BY InvThread DEF LockInv, ThreadTypes, RequestsShaped
<1>1. n \in Nat /\ n = Len(sc) + pd /\ Len(sc) \in Nat
  OBVIOUS
<1> HIDE DEF n
<1>2. ASSUME NEW q, q = [req[l] EXCEPT !.count = n], req' = [req EXCEPT ![l] = q]
      PROVE  /\ RequestsShaped(req') /\ SameHead(req, req') /\ Compatible(req') /\ Apart(partitions, req')
             /\ \A k \in Locker \ {l} : req'[k] = req[k]
             /\ req'[l] = q
             /\ q.status = req[l].status /\ q.mode = req[l].mode /\ q.count = n
             /\ q.place = req[l].place /\ q.convertMode = req[l].convertMode
  <2>1. /\ q.status = req[l].status /\ q.mode = req[l].mode /\ q.count = n
        /\ q.place = req[l].place /\ q.convertMode = req[l].convertMode
        /\ q.compatibleFirst = req[l].compatibleFirst /\ q \in LockRequest
    BY <1>0, <1>1, <1>2 DEF LockRequest
  <2>2. req[l].status # "NONE"
    BY <1>0 DEF Shaped, NoRequest
  <2>3. Shaped(q)
    BY <1>0, <2>1, <2>2 DEF Shaped
  <2>4. /\ req' \in [Locker -> LockRequest] /\ req'[l] = q
        /\ \A k \in Locker \ {l} : req'[k] = req[k]
    BY <1>0, <1>2, <2>1
  <2>5. RequestsShaped(req') /\ SameHead(req, req')
    BY <1>0, <2>1, <2>3, <2>4, OneSameHead
  <2>6. Compatible(req') /\ Apart(partitions, req')
    BY <1>0, <2>1, <2>3, <2>4, OneNotMore
  <2> QED BY <2>1, <2>4, <2>5, <2>6
<1>3. pc' = [pc EXCEPT ![l] = pc'[l]] /\ pc'[l] \in {"idle", "unlock"}
  BY <1>0 DEF UnlockRequest, Goto
<1>4. /\ pc' \in [Locker -> {"idle", "lock", "convert", "wait", "undo", "unlock"}]
      /\ \A k \in Locker \ {l} : pc'[k] = pc[k]
  BY <1>0, <1>3
<1>5. CASE /\ req[l].status = "GRANTED" /\ n > 0
           /\ req' = [req EXCEPT ![l].count = n] /\ Goto(l, "idle")
  <2>1. PICK q : q = [req[l] EXCEPT !.count = n]
    OBVIOUS
  <2>2. req' = [req EXCEPT ![l] = q]
    BY <1>5, <2>1
  <2>3. pc'[l] = "idle"
    BY <1>0, <1>5 DEF Goto
  <2>4. \A w, nt : ThreadShaped(q, "idle", w, sc, pd, nt)
    BY <1>1, <1>2, <1>5, <2>1, <2>2 DEF ThreadShaped
  <2>5. /\ RequestsShaped(req') /\ SameHead(req, req') /\ Compatible(req') /\ Apart(partitions, req')
        /\ req'[l] = q /\ \A k \in Locker \ {l} : req'[k] = req[k]
    BY <1>2, <2>1, <2>2
  <2> QED BY <1>4, <2>3, <2>4, <2>5
<1>6. CASE /\ req[l].place = "partition" /\ n = 0
           /\ req' = [req EXCEPT ![l] = NoRequest] /\ Goto(l, "idle")
  <2>1. NoRequest \in LockRequest /\ Shaped(NoRequest)
    BY DEF NoRequest, LockRequest, Shaped
  <2>2. /\ NoRequest.status = "NONE" /\ NoRequest.place = "none" /\ NoRequest.count = 0
    BY DEF NoRequest
  <2>3. /\ req' \in [Locker -> LockRequest] /\ req'[l] = NoRequest
        /\ \A k \in Locker \ {l} : req'[k] = req[k]
    BY <1>0, <1>6, <2>1
  <2>4. RequestsShaped(req') /\ SameHead(req, req')
    BY <1>0, <1>6, <2>1, <2>2, <2>3, OneSameHead
  <2>5. Compatible(req') /\ Apart(partitions, req')
    BY <1>0, <2>1, <2>2, <2>3, OneNotMore
  <2>6. pc'[l] = "idle"
    BY <1>0, <1>6 DEF Goto
  <2>7. pd = 0 /\ Len(sc) = 0 /\ sc = <<>>
    BY <1>1, <1>6
  <2>8. \A w, nt : ThreadShaped(NoRequest, "idle", w, sc, pd, nt)
    BY <2>2, <2>7 DEF ThreadShaped
  <2> QED BY <1>4, <2>3, <2>4, <2>5, <2>6, <2>8
<1>7. CASE /\ req[l].place = "head"
           /\ req' = [req EXCEPT ![l].count = n] /\ Goto(l, "unlock")
  <2>1. PICK q : q = [req[l] EXCEPT !.count = n]
    OBVIOUS
  <2>2. req' = [req EXCEPT ![l] = q]
    BY <1>7, <2>1
  <2>3. pc'[l] = "unlock"
    BY <1>0, <1>7 DEF Goto
  <2>4. req[l].status \in {"GRANTED", "WAITING", "CONVERTING"}
    BY <1>0, <1>7 DEF Shaped, NoRequest, LockRequest
  <2>5. \A w, nt : ThreadShaped(q, "unlock", w, sc, pd, nt)
    BY <1>1, <1>2, <1>7, <2>1, <2>2, <2>4 DEF ThreadShaped
  <2>6. /\ RequestsShaped(req') /\ SameHead(req, req') /\ Compatible(req') /\ Apart(partitions, req')
        /\ req'[l] = q /\ \A k \in Locker \ {l} : req'[k] = req[k]
    BY <1>2, <2>1, <2>2
  <2> QED BY <1>4, <2>3, <2>5, <2>6
<1> QED BY <1>5, <1>6, <1>7 DEF UnlockRequest, n

(* A thread outside the lock manager.                                       *)
LEMMA ThreadIdle ==
  ASSUME NEW q, NEW w, NEW sc, NEW pd, NEW nt, Len(sc) + pd \in Int
  PROVE  ThreadShaped(q, "idle", w, sc, pd, nt) <=>
           /\ q.status \in {"NONE", "GRANTED"}
           /\ q.status = "NONE" => sc = <<>> /\ pd = 0
           /\ q.status = "GRANTED" => Len(sc) + pd > 0
           /\ q.count = Len(sc) + pd
           /\ \A i \in 1..Len(sc) : IsModeCovered(sc[i], q.mode)
  BY DEF ThreadShaped

(* A thread that is about to take its request off the head.                 *)
LEMMA ThreadUnlock ==
  ASSUME NEW q, NEW w, NEW sc, NEW pd, NEW nt, Len(sc) + pd \in Int
  PROVE  ThreadShaped(q, "unlock", w, sc, pd, nt) <=>
           /\ q.status \in {"GRANTED", "WAITING", "CONVERTING"} /\ q.place = "head"
           /\ q.status = "WAITING" => sc = <<>> /\ pd = 0
           /\ q.status = "CONVERTING" => Len(sc) + pd > 0
           /\ q.count = Len(sc) + pd
           /\ \A i \in 1..Len(sc) : IsModeCovered(sc[i], q.mode)
  BY DEF ThreadShaped

(* The actions that change no list of the head.                             *)
LEMMA WaitReturnsInv ==
  ASSUME LockInv, NEW l \in Locker, WaitReturns(l)
  PROVE  LockInv'
<1>1. /\ pc[l] = "wait" /\ notified[l] /\ LockOk(l, want[l])
      /\ UNCHANGED <<req, head, partitions, bucket, notified, wuow, pending>>
  BY DEF WaitReturns
<1>2. /\ ThreadTypes /\ Shaped(req[l])
      /\ ThreadShaped(req[l], pc[l], want[l], scope[l], pending[l], notified[l])
  BY InvThread
<1>3. /\ req[l].status = "GRANTED" /\ want[l] = req[l].mode
      /\ req[l].count = Len(scope[l]) + pending[l] + 1
      /\ \A i \in 1..Len(scope[l]) : IsModeCovered(scope[l][i], req[l].mode)
  BY <1>1, <1>2 DEF ThreadShaped
<1>4. want[l] \in Mode /\ IsModeCovered(want[l], req[l].mode)
  BY <1>2, <1>3, Clashes DEF Shaped
<1>5. /\ pc' \in [Locker -> {"idle", "lock", "convert", "wait", "undo", "unlock"}]
      /\ want' \in [Locker -> Mode \cup {"NONE"}]
      /\ scope' \in [Locker -> Seq(Mode)]
      /\ \A k \in Locker \ {l} : pc'[k] = pc[k] /\ want'[k] = want[k] /\ scope'[k] = scope[k]
      /\ \A w, nt : ThreadShaped(req[l], pc'[l], w, scope'[l], pending[l], nt)
  BY <1>1, <1>2, <1>3, <1>4, LockOkThread
<1>6. ThreadTypes'
  BY <1>1, <1>2, <1>5 DEF ThreadTypes
<1>7. OthersKept(l) /\ ThreadNow(l)'
  BY <1>1, <1>5 DEF OthersKept, ThreadNow
<1> QED BY <1>1, <1>6, <1>7, ThreadStep

LEMMA WaitFailsInv ==
  ASSUME LockInv, NEW l \in Locker, WaitFails(l)
  PROVE  LockInv'
<1>1. /\ pc[l] = "wait"
      /\ want' = [want EXCEPT ![l] = "NONE"] /\ pc' = [pc EXCEPT ![l] = "undo"] /\ scope' = scope
      /\ UNCHANGED <<req, head, partitions, bucket, notified, wuow, pending>>
  BY DEF WaitFails, Continue, Goto
<1>2. /\ ThreadTypes
      /\ ThreadShaped(req[l], pc[l], want[l], scope[l], pending[l], notified[l])
  BY InvThread
<1>3. ThreadTypes' /\ pc'[l] = "undo"
  BY <1>1, <1>2 DEF ThreadTypes
<1>4. OthersKept(l)
  BY <1>1, <1>2 DEF OthersKept, ThreadTypes
<1>5. ThreadShaped(req[l], "undo", want'[l], scope[l], pending[l], notified[l])
  BY <1>1, <1>2 DEF ThreadShaped
<1>6. ThreadNow(l)'
  BY <1>1, <1>3, <1>5 DEF ThreadNow
<1> QED BY <1>1, <1>3, <1>4, <1>6, ThreadStep

LEMMA UnlockNestedInv ==
  ASSUME LockInv, NEW l \in Locker, UnlockNested(l)
  PROVE  LockInv'
<1>1. /\ pc[l] = "unlock" /\ req[l].status = "GRANTED" /\ req[l].count > 0
      /\ pc' = [pc EXCEPT ![l] = "idle"]
      /\ UNCHANGED <<req, head, partitions, bucket, notified, want, scope, wuow, pending>>
  BY DEF UnlockNested, Goto
<1>2. /\ ThreadTypes
      /\ ThreadShaped(req[l], pc[l], want[l], scope[l], pending[l], notified[l])
  BY InvThread
<1>3. ThreadTypes' /\ pc'[l] = "idle"
  BY <1>1, <1>2 DEF ThreadTypes
<1>4. OthersKept(l)
  BY <1>1, <1>2 DEF OthersKept, ThreadTypes
<1>5. ThreadShaped(req[l], "idle", want[l], scope[l], pending[l], notified[l])
  <2>1. Len(scope[l]) + pending[l] \in Int
    BY InvThread
  <2> QED BY <1>1, <1>2, <2>1, ThreadIdle, ThreadUnlock
<1>6. ThreadNow(l)'
  BY <1>1, <1>3, <1>5 DEF ThreadNow
<1> QED BY <1>1, <1>3, <1>4, <1>6, ThreadStep

LEMMA UnitOfWorkInv ==
  ASSUME LockInv, NEW l \in Locker, UnitOfWork(l)
  PROVE  LockInv'
<1>1. /\ UNCHANGED <<req, head, partitions, bucket, notified, pc, want, scope, pending>>
      /\ wuow' \in [Locker -> BOOLEAN]
  BY InvThread DEF UnitOfWork, BeginWriteUnitOfWork, EndWriteUnitOfWork, ThreadTypes
<1>2. ThreadTypes' /\ OthersKept(l)
  BY <1>1, InvThread DEF ThreadTypes, OthersKept
<1>3. ThreadNow(l)'
  BY <1>1, InvThread DEF ThreadNow
<1> QED BY <1>1, <1>2, <1>3, ThreadStep

LEMMA BucketInv ==
  ASSUME LockInv, UNCHANGED <<req, head, partitions, notified, threadVars>>,
         bucket' \in Locker \cup {NoLocker, Cleaner}
  PROVE  LockInv'
<1>1. UNCHANGED <<pc, want, scope, wuow, pending>>
  BY DEF threadVars
<1>2. TypesInv'
  BY <1>1 DEF LockInv, TypesInv
<1>3. ThreadsShaped'
  BY <1>1 DEF LockInv, ThreadsShaped
<1> QED BY <1>2, <1>3, NextLockInv DEF LockInv

LEMMA ReuseInv ==
  ASSUME LockInv, NEW l \in Locker, NEW m \in Mode, Reuse(l, m)
  PROVE  LockInv'
<1>1. /\ pc[l] = "idle" /\ pending[l] > 0 /\ IsModeCovered(m, req[l].mode)
      /\ pending' = [pending EXCEPT ![l] = @ - 1]
      /\ scope' = [scope EXCEPT ![l] = Append(@, m)]
      /\ UNCHANGED <<req, head, partitions, bucket, notified, pc, want, wuow>>
  BY DEF Reuse, MayBegin, CanReuse
<1>2. /\ ThreadTypes /\ scope[l] \in Seq(Mode) /\ pending[l] \in Nat /\ Len(scope[l]) \in Nat
      /\ ThreadShaped(req[l], pc[l], want[l], scope[l], pending[l], notified[l])
  BY InvThread
<1> DEFINE s == Append(scope[l], m)
           p == pending[l] - 1
<1>3. /\ s \in Seq(Mode) /\ Len(s) = Len(scope[l]) + 1
      /\ \A i \in 1..Len(scope[l]) : s[i] = scope[l][i]
      /\ s[Len(scope[l]) + 1] = m
  BY <1>2
<1>4. p \in Nat /\ p + 1 = pending[l]
  BY <1>1, <1>2
<1>5. scope'[l] = s /\ pending'[l] = p /\ ThreadTypes'
  BY <1>1, <1>2, <1>3, <1>4 DEF ThreadTypes
<1>6. OthersKept(l)
  BY <1>1, <1>2 DEF OthersKept, ThreadTypes
<1> HIDE DEF s, p
<1>7. ThreadShaped(req[l], "idle", want[l], s, p, notified[l])
  <2>1. req[l].status = "GRANTED" /\ req[l].count = Len(scope[l]) + pending[l]
    <3>1. Len(scope[l]) + pending[l] \in Int /\ pending[l] # 0
      BY <1>1, <1>2
    <3> QED BY <1>1, <1>2, <3>1, ThreadIdle
  <2>2. \A i \in 1..Len(s) : IsModeCovered(s[i], req[l].mode)
    <3> TAKE i \in 1..Len(s)
    <3>1. CASE i = Len(scope[l]) + 1
      BY <3>1, <1>1, <1>3
    <3>2. CASE i \in 1..Len(scope[l])
      BY <3>2, <1>2, <1>3 DEF ThreadShaped
    <3> QED BY <3>1, <3>2, <1>2, <1>3
  <2>3. Len(s) + p = Len(scope[l]) + pending[l] /\ Len(s) + p > 0
    <3>1. Len(scope[l]) \in Nat /\ pending[l] \in Nat
      BY <1>2
    <3>2. Len(s) = Len(scope[l]) + 1
      BY <1>3
    <3> QED BY <1>4, <3>1, <3>2
  <2>4. Len(s) + p \in Int
    BY <1>2, <2>3
  <2> QED BY <2>1, <2>2, <2>3, <2>4, ThreadIdle
<1>8. ThreadNow(l)'
  BY <1>1, <1>5, <1>7 DEF ThreadNow
<1> QED BY <1>1, <1>5, <1>6, <1>8, ThreadStep

LEMMA UndoInv ==
  ASSUME LockInv, NEW l \in Locker, Undo(l)
  PROVE  LockInv'
<1>1. /\ pc[l] = "undo" /\ UnlockRequest(l)
      /\ UNCHANGED <<head, partitions, bucket, notified, want, scope, wuow, pending>>
  BY DEF Undo
<1>2. /\ ThreadTypes /\ scope[l] \in Seq(Mode) /\ pending[l] \in Nat
      /\ ThreadShaped(req[l], pc[l], want[l], scope[l], pending[l], notified[l])
  BY InvThread
<1>3. /\ req[l].count = Len(scope[l]) + pending[l] + 1
      /\ req[l].status = "WAITING" => scope[l] = <<>> /\ pending[l] = 0
      /\ req[l].status = "CONVERTING" => Len(scope[l]) + pending[l] > 0
      /\ \A i \in 1..Len(scope[l]) : IsModeCovered(scope[l][i], req[l].mode)
  BY <1>1, <1>2 DEF ThreadShaped
<1>4. /\ RequestsShaped(req') /\ SameHead(req, req') /\ Compatible(req') /\ Apart(partitions, req')
      /\ \A k \in Locker \ {l} : req'[k] = req[k] /\ pc'[k] = pc[k]
      /\ pc' \in [Locker -> {"idle", "lock", "convert", "wait", "undo", "unlock"}]
      /\ \A w, nt : ThreadShaped(req'[l], pc'[l], w, scope[l], pending[l], nt)
  BY <1>1, <1>2, <1>3, UnlockRequestStep
<1>5. ThreadTypes' /\ OthersKept(l) /\ ThreadNow(l)'
  BY <1>1, <1>2, <1>4 DEF ThreadTypes, OthersKept, ThreadNow
<1>6. partitions' \subseteq Partition /\ bucket' \in Locker \cup {NoLocker, Cleaner}
  BY <1>1 DEF LockInv, TypesInv
<1> QED BY <1>1, <1>4, <1>5, <1>6, QuietStep

LEMMA UnlockPendingInv ==
  ASSUME LockInv, NEW l \in Locker, UnlockPending(l)
  PROVE  LockInv'
<1>1. /\ pc[l] = "idle" /\ pending[l] > 0 /\ UnlockRequest(l)
      /\ pending' = [pending EXCEPT ![l] = @ - 1]
      /\ UNCHANGED <<head, partitions, bucket, notified, want, scope, wuow>>
  BY DEF UnlockPending
<1>2. /\ ThreadTypes /\ scope[l] \in Seq(Mode) /\ pending[l] \in Nat /\ Len(scope[l]) \in Nat
      /\ ThreadShaped(req[l], pc[l], want[l], scope[l], pending[l], notified[l])
  BY InvThread
<1> DEFINE p == pending[l] - 1
<1>3. p \in Nat /\ p + 1 = pending[l]
  BY <1>1, <1>2
<1>4. pending'[l] = p /\ pending' \in [Locker -> Nat] /\ \A k \in Locker \ {l} : pending'[k] = pending[k]
  BY <1>1, <1>2, <1>3 DEF ThreadTypes
<1> HIDE DEF p
<1>5. /\ req[l].count = Len(scope[l]) + p + 1
      /\ req[l].status \in {"NONE", "GRANTED"}
      /\ \A i \in 1..Len(scope[l]) : IsModeCovered(scope[l][i], req[l].mode)
  <2>1. Len(scope[l]) + pending[l] \in Int /\ Len(scope[l]) + pending[l] = Len(scope[l]) + p + 1
    BY <1>2, <1>3
  <2> QED BY <1>1, <1>2, <2>1, ThreadIdle
<1>6. /\ RequestsShaped(req') /\ SameHead(req, req') /\ Compatible(req') /\ Apart(partitions, req')
      /\ \A k \in Locker \ {l} : req'[k] = req[k] /\ pc'[k] = pc[k]
      /\ pc' \in [Locker -> {"idle", "lock", "convert", "wait", "undo", "unlock"}]
      /\ \A w, nt : ThreadShaped(req'[l], pc'[l], w, scope[l], p, nt)
  BY <1>1, <1>2, <1>3, <1>5, UnlockRequestStep
<1>7. ThreadTypes' /\ OthersKept(l) /\ ThreadNow(l)'
  BY <1>1, <1>2, <1>4, <1>6 DEF ThreadTypes, OthersKept, ThreadNow
<1>8. partitions' \subseteq Partition /\ bucket' \in Locker \cup {NoLocker, Cleaner}
  BY <1>1 DEF LockInv, TypesInv
<1> QED BY <1>1, <1>6, <1>7, <1>8, QuietStep

LEMMA UnlockInv ==
  ASSUME LockInv, NEW l \in Locker, Unlock(l)
  PROVE  LockInv'
<1> DEFINE s == SubSeq(scope[l], 1, Len(scope[l]) - 1)
<1>1. /\ pc[l] = "idle" /\ scope[l] # <<>>
      /\ scope' = [scope EXCEPT ![l] = s]
      /\ UNCHANGED <<head, partitions, bucket, notified, want, wuow>>
      /\ \/ UnlockRequest(l) /\ UNCHANGED pending
         \/ pending' = [pending EXCEPT ![l] = @ + 1] /\ UNCHANGED <<req, pc>>
  BY DEF Unlock, MayBegin
<1>2. /\ ThreadTypes /\ scope[l] \in Seq(Mode) /\ pending[l] \in Nat /\ Len(scope[l]) \in Nat
      /\ ThreadShaped(req[l], pc[l], want[l], scope[l], pending[l], notified[l])
  BY InvThread
<1>3. Len(scope[l]) > 0
  BY <1>1, <1>2
<1>4. /\ s \in Seq(Mode) /\ Len(s) \in Nat /\ Len(s) + 1 = Len(scope[l])
      /\ \A i \in 1..Len(s) : s[i] = scope[l][i] /\ i \in 1..Len(scope[l])
  BY <1>2, <1>3
<1>5. scope'[l] = s /\ scope' \in [Locker -> Seq(Mode)] /\ \A k \in Locker \ {l} : scope'[k] = scope[k]
  BY <1>1, <1>2, <1>4 DEF ThreadTypes
<1> HIDE DEF s
<1>6. /\ req[l].status = "GRANTED" /\ req[l].count = Len(s) + pending[l] + 1
      /\ \A i \in 1..Len(s) : IsModeCovered(s[i], req[l].mode)
  <2>1. /\ Len(scope[l]) + pending[l] \in Int /\ Len(scope[l]) # 0
        /\ Len(scope[l]) + pending[l] = Len(s) + pending[l] + 1
    <3>1. Len(scope[l]) \in Nat /\ pending[l] \in Nat /\ Len(scope[l]) > 0
      BY <1>2, <1>3
    <3>2. Len(s) \in Nat /\ Len(s) + 1 = Len(scope[l])
      BY <1>4
    <3> QED BY <3>1, <3>2
  <2>2. ThreadShaped(req[l], "idle", want[l], scope[l], pending[l], notified[l])
    BY <1>1, <1>2
  <2>3. /\ req[l].status \in {"NONE", "GRANTED"} /\ (req[l].status = "NONE" => scope[l] = <<>>)
        /\ req[l].count = Len(scope[l]) + pending[l]
        /\ \A i \in 1..Len(scope[l]) : IsModeCovered(scope[l][i], req[l].mode)
    BY <2>1, <2>2, ThreadIdle
  <2>4. req[l].status = "GRANTED"
    BY <1>1, <2>3
  <2>5. req[l].count = Len(s) + pending[l] + 1
    BY <2>1, <2>3
  <2>6. \A i \in 1..Len(s) : IsModeCovered(s[i], req[l].mode)
    BY <1>4, <2>3
  <2> QED BY <2>4, <2>5, <2>6
<1>7. partitions' \subseteq Partition /\ bucket' \in Locker \cup {NoLocker, Cleaner}
  BY <1>1 DEF LockInv, TypesInv
<1>8. CASE UnlockRequest(l) /\ UNCHANGED pending
  <2>1. /\ RequestsShaped(req') /\ SameHead(req, req') /\ Compatible(req') /\ Apart(partitions, req')
        /\ \A k \in Locker \ {l} : req'[k] = req[k] /\ pc'[k] = pc[k]
        /\ pc' \in [Locker -> {"idle", "lock", "convert", "wait", "undo", "unlock"}]
        /\ \A w, nt : ThreadShaped(req'[l], pc'[l], w, s, pending[l], nt)
    BY <1>8, <1>2, <1>4, <1>6, UnlockRequestStep
  <2>2. ThreadTypes' /\ OthersKept(l) /\ ThreadNow(l)'
    BY <1>1, <1>2, <1>5, <1>8, <2>1 DEF ThreadTypes, OthersKept, ThreadNow
  <2> QED BY <1>1, <1>7, <2>1, <2>2, QuietStep
<1>9. CASE pending' = [pending EXCEPT ![l] = @ + 1] /\ UNCHANGED <<req, pc>>
  <2> DEFINE p == pending[l] + 1
  <2>1. /\ p \in Nat /\ pending'[l] = p /\ pending' \in [Locker -> Nat]
        /\ \A k \in Locker \ {l} : pending'[k] = pending[k]
    BY <1>2, <1>9 DEF ThreadTypes
  <2>2. p = pending[l] + 1
    OBVIOUS
  <2> HIDE DEF p
  <2>3. ThreadShaped(req[l], "idle", want[l], s, p, notified[l])
    <3>1. Len(s) + p \in Int /\ Len(s) + p > 0 /\ Len(s) + p = Len(s) + pending[l] + 1
      BY <1>2, <1>4, <2>1, <2>2
    <3> QED BY <1>6, <3>1, ThreadIdle
  <2>4. ThreadTypes' /\ OthersKept(l)
    BY <1>1, <1>2, <1>5, <1>9, <2>1 DEF ThreadTypes, OthersKept
  <2>5. ThreadNow(l)'
    BY <1>1, <1>5, <1>9, <2>1, <2>3 DEF ThreadNow
  <2> QED BY <1>1, <1>9, <2>4, <2>5, ThreadStep
<1> QED BY <1>1, <1>8, <1>9

LEMMA LockStepInv ==
  ASSUME LockInv, NEW l \in Locker, NEW m \in Mode, Lock(l, m)
  PROVE  LockInv'
<1> DEFINE intent == m \in Intent
           priority == IsPriority(m)
           r == [NoRequest EXCEPT !.status = "NEW", !.mode = m, !.count = 1,
                                  !.partitioned = intent,
                                  !.compatibleFirst = priority]
           g == [r EXCEPT !.status = "GRANTED", !.place = "partition"]
<1>1. /\ pc[l] = "idle" /\ req[l].status = "NONE"
      /\ notified' = [notified EXCEPT ![l] = FALSE]
      /\ UNCHANGED <<head, partitions, bucket, wuow, pending>>
  BY DEF Lock, MayBegin, ClearNotification
<1>2. /\ ThreadTypes /\ scope[l] \in Seq(Mode) /\ pending[l] \in Nat /\ RequestsShaped(req)
      /\ ThreadShaped(req[l], pc[l], want[l], scope[l], pending[l], notified[l]) /\ Shaped(req[l])
      /\ Compatible(req) /\ Apart(partitions, req) /\ Counted(head, req)
      /\ req \in [Locker -> LockRequest]
  BY InvThread DEF LockInv, RequestsShaped
<1>3. scope[l] = <<>> /\ pending[l] = 0 /\ Len(scope[l]) = 0
  BY <1>1, <1>2 DEF ThreadShaped
<1>4. notified' \in [Locker -> BOOLEAN] /\ notified'[l] = FALSE
      /\ \A k \in Locker \ {l} : notified'[k] = notified[k]
  BY <1>1, <1>2 DEF ThreadTypes
<1>5. partitions' \subseteq Partition /\ bucket' \in Locker \cup {NoLocker, Cleaner}
  BY <1>1 DEF LockInv, TypesInv
<1>6. intent \in BOOLEAN /\ priority \in BOOLEAN
  BY LockAssumption DEF IsPriority
<1>9. \/ /\ m \in Intent /\ PartitionOf[l] \in partitions
         /\ req' = [req EXCEPT ![l] = g] /\ LockOk(l, m)
      \/ req' = [req EXCEPT ![l] = r] /\ Continue(l, m, "lock")
  BY DEF Lock
<1> HIDE DEF intent, priority
<1>0. NoRequest \in LockRequest
  BY DEF NoRequest, LockRequest
<1>7. /\ r.status = "NEW" /\ r.mode = m /\ r.count = 1 /\ r.place = "none" /\ r.convertMode = "NONE"
      /\ r \in LockRequest
  <2>1. /\ r.status = "NEW" /\ r.mode = m /\ r.count = 1 /\ r.place = "none" /\ r.convertMode = "NONE"
    BY DEF NoRequest
  <2>2. r \in LockRequest
    BY <1>0, <1>6 DEF LockRequest
  <2> QED BY <2>1, <2>2
<1>8. /\ g.status = "GRANTED" /\ g.mode = m /\ g.count = 1 /\ g.place = "partition" /\ g.convertMode = "NONE"
      /\ g \in LockRequest
  <2> HIDE DEF r
  <2> QED BY <1>7 DEF LockRequest
<1> HIDE DEF r, g
<1>10. CASE /\ m \in Intent /\ PartitionOf[l] \in partitions
            /\ req' = [req EXCEPT ![l] = g] /\ LockOk(l, m)
  <2>1. Shaped(g)
    BY <1>8, <1>10 DEF Shaped
  <2>2. /\ req' \in [Locker -> LockRequest] /\ req'[l] = g
        /\ \A k \in Locker \ {l} : req'[k] = req[k]
    BY <1>2, <1>8, <1>10
  <2>3. req[l].place = "none"
    BY <1>1, <1>2 DEF Shaped, NoRequest
  <2>4. RequestsShaped(req') /\ SameHead(req, req')
    BY <1>2, <1>8, <2>1, <2>2, <2>3, OneSameHead
  <2>5. Compatible(req') /\ Apart(partitions', req')
    <3>1. \A k \in Locker : /\ req[k].status # "WAITING"
                            /\ k \in OnHead(req) => req[k].mode \in Intent
                            /\ req[k].status = "CONVERTING" => req[k].convertMode \in Intent
      BY <1>2, <1>10 DEF Apart
    <3>2. partitions' = partitions
      BY <1>1
    <3> QED BY <1>2, <1>8, <1>10, <2>2, <2>4, <3>1, <3>2, OnePartition
  <2>6. IsModeCovered(m, g.mode)
    BY <1>8, Clashes
  <2>7. /\ g.count = Len(scope[l]) + pending[l] + 1
        /\ \A i \in 1..Len(scope[l]) : IsModeCovered(scope[l][i], g.mode)
    BY <1>3, <1>8
  <2>8. /\ pc' \in [Locker -> {"idle", "lock", "convert", "wait", "undo", "unlock"}]
        /\ want' \in [Locker -> Mode \cup {"NONE"}]
        /\ scope' \in [Locker -> Seq(Mode)]
        /\ \A k \in Locker \ {l} : pc'[k] = pc[k] /\ want'[k] = want[k] /\ scope'[k] = scope[k]
        /\ \A w, nt : ThreadShaped(g, pc'[l], w, scope'[l], pending[l], nt)
    BY <1>2, <1>8, <1>10, <2>6, <2>7, LockOkThread
  <2>9. ThreadTypes' /\ OthersKept(l) /\ ThreadNow(l)'
    BY <1>1, <1>2, <1>4, <2>2, <2>8 DEF ThreadTypes, OthersKept, ThreadNow
  <2> QED BY <1>1, <1>5, <2>2, <2>4, <2>5, <2>9, QuietStep
<1>11. CASE req' = [req EXCEPT ![l] = r] /\ Continue(l, m, "lock")
  <2>1. Shaped(r)
    BY <1>7 DEF Shaped
  <2>2. /\ req' \in [Locker -> LockRequest] /\ req'[l] = r
        /\ \A k \in Locker \ {l} : req'[k] = req[k]
    BY <1>2, <1>7, <1>11
  <2>3. req[l].place = "none"
    BY <1>1, <1>2 DEF Shaped, NoRequest
  <2>4. RequestsShaped(req') /\ SameHead(req, req')
    BY <1>2, <1>7, <2>1, <2>2, <2>3, OneSameHead
  <2>5. Compatible(req') /\ Apart(partitions', req')
    <3>1. Compatible(req') /\ Apart(partitions, req')
      BY <1>2, <1>7, <2>1, <2>2, OneNotMore
    <3> QED BY <1>1, <3>1
  <2>6. /\ pc' = [pc EXCEPT ![l] = "lock"] /\ want' = [want EXCEPT ![l] = m] /\ scope' = scope
    BY <1>11 DEF Continue, Goto
  <2>7. ThreadTypes' /\ OthersKept(l)
    BY <1>1, <1>2, <1>4, <2>6 DEF ThreadTypes, OthersKept
  <2>8. pc'[l] = "lock" /\ want'[l] = m /\ scope'[l] = <<>> /\ pending'[l] = 0
    BY <1>1, <1>2, <1>3, <2>6 DEF ThreadTypes
  <2>9. ThreadShaped(r, "lock", m, <<>>, 0, FALSE)
    BY <1>7 DEF ThreadShaped
  <2>10. ThreadNow(l)'
    BY <1>4, <2>2, <2>8, <2>9 DEF ThreadNow
  <2> QED BY <1>1, <1>5, <2>2, <2>4, <2>5, <2>7, <2>10, QuietStep
<1> QED BY <1>9, <1>10, <1>11

LEMMA StartPartitionInv ==
  ASSUME LockInv, NEW l \in Locker, StartPartition(l)
  PROVE  LockInv'
<1>1. /\ pc[l] = "lock" /\ want[l] \in Intent
      /\ GrantedModes(head) \subseteq Intent /\ ConflictModes(head) = {}
      /\ partitions' = partitions \cup {PartitionOf[l]}
      /\ req' = [req EXCEPT ![l].status = "GRANTED", ![l].place = "partition"]
      /\ LockOk(l, want[l])
      /\ UNCHANGED <<head, bucket, notified, wuow, pending>>
  BY DEF StartPartition, CanPartition
<1>2. /\ ThreadTypes /\ scope[l] \in Seq(Mode) /\ pending[l] \in Nat /\ RequestsShaped(req)
      /\ ThreadShaped(req[l], pc[l], want[l], scope[l], pending[l], notified[l]) /\ Shaped(req[l])
      /\ Compatible(req) /\ Apart(partitions, req) /\ Counted(head, req)
      /\ req \in [Locker -> LockRequest] /\ req[l] \in LockRequest
  BY InvThread DEF LockInv, RequestsShaped
<1>3. /\ req[l].status = "NEW" /\ want[l] = req[l].mode /\ scope[l] = <<>> /\ pending[l] = 0
      /\ req[l].count = Len(scope[l]) + pending[l] + 1
      /\ \A i \in 1..Len(scope[l]) : IsModeCovered(scope[l][i], req[l].mode)
  BY <1>1, <1>2 DEF ThreadShaped
<1> DEFINE g == [req[l] EXCEPT !.status = "GRANTED", !.place = "partition"]
<1>4. /\ g.status = "GRANTED" /\ g.mode = req[l].mode /\ g.count = req[l].count
      /\ g.place = "partition" /\ g.convertMode = req[l].convertMode /\ g \in LockRequest
  BY <1>2 DEF LockRequest
<1>5. req' = [req EXCEPT ![l] = g]
  BY <1>1, <1>2
<1> HIDE DEF g
<1>6. /\ req' \in [Locker -> LockRequest] /\ req'[l] = g
      /\ \A k \in Locker \ {l} : req'[k] = req[k]
  BY <1>2, <1>4, <1>5
<1>7. Shaped(g) /\ req[l].place = "none" /\ want[l] \in Mode
  BY <1>1, <1>2, <1>3, <1>4 DEF Shaped
<1>8. RequestsShaped(req') /\ SameHead(req, req')
  BY <1>2, <1>4, <1>6, <1>7, OneSameHead
<1>9. Compatible(req') /\ Apart(partitions', req')
  <2>1. \A k \in Locker : /\ req[k].status # "WAITING"
                          /\ k \in OnHead(req) => req[k].mode \in Intent
                          /\ req[k].status = "CONVERTING" => req[k].convertMode \in Intent
    BY <1>1, <1>2, OnlyIntent
  <2>2. PartitionOf[l] \in partitions' /\ partitions \subseteq partitions'
    BY <1>1
  <2> QED BY <1>2, <1>4, <1>6, <1>8, <2>1, <2>2, OnePartition
<1>10. partitions' \subseteq Partition /\ bucket' \in Locker \cup {NoLocker, Cleaner}
  BY <1>1 DEF LockInv, TypesInv, Partition
<1>11. /\ IsModeCovered(want[l], g.mode)
       /\ g.count = Len(scope[l]) + pending[l] + 1
       /\ \A i \in 1..Len(scope[l]) : IsModeCovered(scope[l][i], g.mode)
  BY <1>3, <1>4, <1>7, Clashes
<1>12. /\ pc' \in [Locker -> {"idle", "lock", "convert", "wait", "undo", "unlock"}]
       /\ want' \in [Locker -> Mode \cup {"NONE"}]
       /\ scope' \in [Locker -> Seq(Mode)]
       /\ \A k \in Locker \ {l} : pc'[k] = pc[k] /\ want'[k] = want[k] /\ scope'[k] = scope[k]
       /\ \A w, nt : ThreadShaped(g, pc'[l], w, scope'[l], pending[l], nt)
  BY <1>1, <1>2, <1>4, <1>7, <1>11, LockOkThread
<1>13. ThreadTypes' /\ OthersKept(l) /\ ThreadNow(l)'
  BY <1>1, <1>2, <1>6, <1>12 DEF ThreadTypes, OthersKept, ThreadNow
<1> QED BY <1>1, <1>6, <1>8, <1>9, <1>10, <1>13, QuietStep

LEMMA RelockInv ==
  ASSUME LockInv, NEW l \in Locker, NEW m \in Mode, Relock(l, m)
  PROVE  LockInv'
<1>1. /\ pc[l] = "idle" /\ req[l].status = "GRANTED"
      /\ notified' = [notified EXCEPT ![l] = FALSE]
      /\ req' = [req EXCEPT ![l].count = @ + 1,
                            ![l].compatibleFirst = @ \/ IsPriority(m)]
      /\ \/ IsModeCovered(m, req[l].mode) /\ LockOk(l, m)
         \/ /\ ~IsModeCovered(m, req[l].mode) /\ IsModeCovered(req[l].mode, m)
            /\ Continue(l, m, "convert")
      /\ UNCHANGED <<head, partitions, bucket, wuow, pending>>
  BY DEF Relock, MayBegin, ClearNotification
<1>2. /\ ThreadTypes /\ scope[l] \in Seq(Mode) /\ pending[l] \in Nat /\ RequestsShaped(req)
      /\ ThreadShaped(req[l], pc[l], want[l], scope[l], pending[l], notified[l]) /\ Shaped(req[l])
      /\ Compatible(req) /\ Apart(partitions, req) /\ Len(scope[l]) \in Nat
      /\ req \in [Locker -> LockRequest] /\ req[l] \in LockRequest
  BY InvThread DEF LockInv, RequestsShaped
<1>3. /\ req[l].count = Len(scope[l]) + pending[l] /\ Len(scope[l]) + pending[l] > 0
      /\ \A i \in 1..Len(scope[l]) : IsModeCovered(scope[l][i], req[l].mode)
  <2>1. Len(scope[l]) + pending[l] \in Int
    BY <1>2
  <2> QED BY <1>1, <1>2, <2>1, ThreadIdle
<1>4. notified' \in [Locker -> BOOLEAN] /\ notified'[l] = FALSE
      /\ \A k \in Locker \ {l} : notified'[k] = notified[k]
  BY <1>1, <1>2 DEF ThreadTypes
<1>5. partitions' \subseteq Partition /\ bucket' \in Locker \cup {NoLocker, Cleaner}
  BY <1>1 DEF LockInv, TypesInv
<1> DEFINE c == req[l].compatibleFirst \/ IsPriority(m)
           q == [req[l] EXCEPT !.count = req[l].count + 1, !.compatibleFirst = c]
<1>6. req' = [req EXCEPT ![l] = q]
  BY <1>1, <1>2
<1>7. c \in BOOLEAN
  OBVIOUS
<1> HIDE DEF c
<1>15. req[l].count + 1 \in Nat /\ req[l].count + 1 = Len(scope[l]) + pending[l] + 1
  <2>1. req[l].count \in Nat
    BY <1>2 DEF LockRequest
  <2> QED BY <1>3, <2>1
<1>16. /\ q.status = req[l].status /\ q.mode = req[l].mode /\ q.count = req[l].count + 1
       /\ q.place = req[l].place /\ q.convertMode = req[l].convertMode /\ q \in LockRequest
  BY <1>2, <1>7, <1>15 DEF LockRequest
<1> HIDE DEF q
<1>8. /\ q.status = "GRANTED" /\ q.mode = req[l].mode /\ q.count = Len(scope[l]) + pending[l] + 1
      /\ q.place = req[l].place /\ q.convertMode = req[l].convertMode /\ q \in LockRequest
  BY <1>1, <1>15, <1>16
<1>9. Shaped(q)
  BY <1>1, <1>2, <1>8 DEF Shaped
<1>10. /\ req' \in [Locker -> LockRequest] /\ req'[l] = q
       /\ \A k \in Locker \ {l} : req'[k] = req[k]
  BY <1>2, <1>6, <1>8
<1>11. RequestsShaped(req') /\ SameHead(req, req')
  <2>1. req[l].status = "GRANTED"
    BY <1>1
  <2> QED BY <1>2, <1>8, <1>9, <1>10, <2>1, OneSameHead
<1>12. Compatible(req') /\ Apart(partitions', req')
  <2>1. Compatible(req') /\ Apart(partitions, req')
    <3>1. req[l].status = "GRANTED"
      BY <1>1
    <3> QED BY <1>2, <1>8, <1>9, <1>10, <3>1, OneNotMore
  <2> QED BY <1>1, <2>1
<1>13. CASE IsModeCovered(m, req[l].mode) /\ LockOk(l, m)
  <2>1. /\ IsModeCovered(m, q.mode) /\ \A i \in 1..Len(scope[l]) : IsModeCovered(scope[l][i], q.mode)
    BY <1>3, <1>8, <1>13
  <2>2. /\ pc' \in [Locker -> {"idle", "lock", "convert", "wait", "undo", "unlock"}]
        /\ want' \in [Locker -> Mode \cup {"NONE"}]
        /\ scope' \in [Locker -> Seq(Mode)]
        /\ \A k \in Locker \ {l} : pc'[k] = pc[k] /\ want'[k] = want[k] /\ scope'[k] = scope[k]
        /\ \A w, nt : ThreadShaped(q, pc'[l], w, scope'[l], pending[l], nt)
    BY <1>2, <1>8, <1>13, <2>1, LockOkThread
  <2>3. ThreadTypes' /\ OthersKept(l) /\ ThreadNow(l)'
    BY <1>1, <1>2, <1>4, <1>10, <2>2 DEF ThreadTypes, OthersKept, ThreadNow
  <2> QED BY <1>1, <1>5, <1>10, <1>11, <1>12, <2>3, QuietStep
<1>14. CASE /\ ~IsModeCovered(m, req[l].mode) /\ IsModeCovered(req[l].mode, m)
            /\ Continue(l, m, "convert")
  <2>1. /\ pc' = [pc EXCEPT ![l] = "convert"] /\ want' = [want EXCEPT ![l] = m] /\ scope' = scope
    BY <1>14 DEF Continue, Goto
  <2>2. ThreadTypes' /\ OthersKept(l)
    BY <1>1, <1>2, <1>4, <2>1 DEF ThreadTypes, OthersKept
  <2>3. pc'[l] = "convert" /\ want'[l] = m /\ scope'[l] = scope[l] /\ pending'[l] = pending[l]
    BY <1>1, <1>2, <2>1 DEF ThreadTypes
  <2>4. m # q.mode
    BY <1>8, <1>14, Clashes
  <2>5. ThreadShaped(q, "convert", m, scope[l], pending[l], FALSE)
    BY <1>3, <1>8, <1>14, <2>4 DEF ThreadShaped
  <2>6. ThreadNow(l)'
    BY <1>4, <1>10, <2>3, <2>5 DEF ThreadNow
  <2> QED BY <1>1, <1>5, <1>10, <1>11, <1>12, <2>2, <2>6, QuietStep
<1> QED BY <1>1, <1>13, <1>14

--------------------
(* The steps that change the head and grant nothing to others.              *)

(* All that was blocked by a request is blocked by it still.                *)
ClashesKept(r, r2) ==
  \A k \in Locker : \A a, b \in Mode :
    HasMode(r, k, b) /\ Clash(a, b) => \E c \in Mode : HasMode(r2, k, c) /\ Clash(a, c)

(* Then conversions stay blocked.                                           *)
LEMMA ConvertersKept ==
  ASSUME NEW h, NEW r, NEW h2, NEW r2, RequestsShaped(r), RequestsShaped(r2),
         Counted(h, r), Counted(h2, r2), ConvertersBlocked(h, r), ClashesKept(r, r2),
         \A l \in Converting(r2) :
           \/ l \in Converting(r) /\ r2[l].convertMode = r[l].convertMode
           \/ Conflicts(r2[l].convertMode, GrantedWithout(h2, r2, l))
  PROVE  ConvertersBlocked(h2, r2)
<1> SUFFICES ASSUME NEW l \in Converting(r2), l \in Converting(r),
                    r2[l].convertMode = r[l].convertMode
             PROVE  Conflicts(r2[l].convertMode, GrantedWithout(h2, r2, l))
  BY DEF ConvertersBlocked
<1>1. l \in Locker /\ l \in OnHead(r) /\ l \in OnHead(r2) /\ r[l].convertMode \in Mode
  BY OnHeadFacts, SubsetsOfLockers
<1>2. PICK b \in GrantedWithout(h, r, l) : Clash(r[l].convertMode, b)
  BY ConflictsClash DEF ConvertersBlocked
<1>3. b \in Mode
  BY DEF GrantedWithout
<1>4. PICK k \in Locker \ {l} : HasMode(r, k, b)
  BY <1>1, <1>2, <1>3, WithoutIff
<1>5. PICK c \in Mode : HasMode(r2, k, c) /\ Clash(r[l].convertMode, c)
  BY <1>1, <1>2, <1>3, <1>4 DEF ClashesKept
<1>6. c \in GrantedWithout(h2, r2, l)
  BY <1>1, <1>4, <1>5, WithoutIff
<1> QED BY <1>5, <1>6, ConflictsClash

(* Then waiting requests stay blocked.                                      *)
LEMMA WaitersKept ==
  ASSUME NEW h, NEW r, NEW h2, NEW r2, RequestsShaped(r), RequestsShaped(r2),
         Counted(h, r), Counted(h2, r2), WaitersBlocked(h, r), ClashesKept(r, r2),
         Waiting(r2) = Waiting(r), h2.before = h.before,
         \A l \in Waiting(r) : r2[l].mode = r[l].mode /\ r2[l].compatibleFirst = r[l].compatibleFirst
  PROVE  WaitersBlocked(h2, r2)
<1>1. ASSUME NEW a \in Mode, NEW b \in GrantedModes(h), Clash(a, b)
      PROVE  \E c \in GrantedModes(h2) : Clash(a, c)
  <2>1. b \in Mode
    BY DEF GrantedModes
  <2>2. PICK k \in Locker : HasMode(r, k, b)
    BY <2>1, GrantedIff
  <2>3. PICK c \in Mode : HasMode(r2, k, c) /\ Clash(a, c)
    BY <1>1, <2>1, <2>2 DEF ClashesKept
  <2> QED BY <2>3, GrantedIff
<1>2. ASSUME NEW b \in ConflictModes(h)
      PROVE  b \in ConflictModes(h2)
  <2>1. b \in Mode
    BY DEF ConflictModes
  <2>2. PICK l \in Waiting(r) : r[l].mode = b
    BY <2>1, ConflictIff
  <2> QED BY <2>1, <2>2, ConflictIff
<1>3. Waiting(r2) # {} => GrantedModes(h2) # {}
  <2> SUFFICES ASSUME Waiting(r2) # {}
               PROVE  GrantedModes(h2) # {}
    OBVIOUS
  <2>1. PICK b \in GrantedModes(h) : b \in Mode
    BY DEF WaitersBlocked, GrantedModes
  <2>2. Clash("X", b)
    BY <2>1, Table DEF Clash, Mode
  <2> QED BY <1>1, <2>2 DEF Mode
<1>4. ASSUME NEW l \in Waiting(r2), \A k \in Waiting(r2) : <<k, l>> \notin h2.before
      PROVE  \/ Conflicts(r2[l].mode, GrantedModes(h2))
             \/ r2[l].compatibleFirst /\ Conflicts(r2[l].mode, ConflictModes(h2))
  <2>0. r[l].mode \in Mode
    BY OnHeadFacts, SubsetsOfLockers
  <2>1. \/ Conflicts(r[l].mode, GrantedModes(h))
        \/ r[l].compatibleFirst /\ Conflicts(r[l].mode, ConflictModes(h))
    BY <1>4 DEF WaitersBlocked
  <2>2. CASE Conflicts(r[l].mode, GrantedModes(h))
    BY <1>1, <2>0, <2>2, ConflictsClash
  <2>3. CASE r[l].compatibleFirst /\ Conflicts(r[l].mode, ConflictModes(h))
    BY <1>2, <2>3, ConflictsClash
  <2> QED BY <2>1, <2>2, <2>3
<1> QED BY <1>3, <1>4 DEF WaitersBlocked

(* A request is put in front or at the end of the conflict list.            *)
LEMMA OrderedLonger ==
  ASSUME NEW b, NEW W, Ordered(b, W), NEW l, l \notin W
  PROVE  /\ Ordered(b \cup ({l} \X W), W \cup {l})
         /\ Ordered(b \cup (W \X {l}), W \cup {l})
<1>1. \A j, k : <<j, k>> \in b => j \in W /\ k \in W
  BY DEF Ordered
<1>2. Ordered(b \cup ({l} \X W), W \cup {l})
  <2> DEFINE b2 == b \cup ({l} \X W)
  <2>1. \A j, k : <<j, k>> \in b2 <=> <<j, k>> \in b \/ (j = l /\ k \in W)
    OBVIOUS
  <2>2. b2 \subseteq (W \cup {l}) \X (W \cup {l})
    BY DEF Ordered
  <2> HIDE DEF b2
  <2>3. Ordered(b2, W \cup {l})
    BY <1>1, <2>1, <2>2 DEF Ordered
  <2> QED BY <2>3 DEF b2
<1>3. Ordered(b \cup (W \X {l}), W \cup {l})
  <2> DEFINE b2 == b \cup (W \X {l})
  <2>1. \A j, k : <<j, k>> \in b2 <=> <<j, k>> \in b \/ (j \in W /\ k = l)
    OBVIOUS
  <2>2. b2 \subseteq (W \cup {l}) \X (W \cup {l})
    BY DEF Ordered
  <2> HIDE DEF b2
  <2>3. Ordered(b2, W \cup {l})
    BY <1>1, <2>1, <2>2 DEF Ordered
  <2> QED BY <2>3 DEF b2
<1> QED BY <1>2, <1>3

(* No request is on a partition when there are no partitions.               *)
LEMMA AllOnHead ==
  ASSUME NEW r, RequestsShaped(r), Apart({}, r), NEW l \in Locker
  PROVE  /\ r[l].place # "partition"
         /\ r[l].status \in {"GRANTED", "CONVERTING"} <=> l \in OnHead(r)
  BY OnHeadFacts DEF Apart

(* Without partitions there is nothing to say of them.                      *)
LEMMA ApartEmpty ==
  ASSUME NEW r, \A l \in Locker : r[l].place # "partition"
  PROVE  Apart({}, r)
  BY DEF Apart

(* The lists and counters, for one request.                                 *)
LEMMA Member ==
  ASSUME NEW r, NEW l \in Locker, NEW m
  PROVE  /\ l \in Held(r, m) <=> /\ r[l].place = "head" /\ r[l].mode = m
                                 /\ r[l].status \in {"GRANTED", "CONVERTING"}
         /\ l \in Sought(r, m) <=> r[l].status = "CONVERTING" /\ r[l].convertMode = m
         /\ l \in Queued(r, m) <=> r[l].status = "WAITING" /\ r[l].mode = m
         /\ l \in Converting(r) <=> r[l].status = "CONVERTING"
         /\ l \in Waiting(r) <=> r[l].status = "WAITING"
         /\ l \in OnHead(r) <=> r[l].place = "head" /\ r[l].status \in {"GRANTED", "CONVERTING"}
         /\ HasMode(r, l, m) <=> l \in OnHead(r) /\ (r[l].mode = m \/ r[l].convertMode = m)
  BY DEF Held, Sought, Queued, OfMode, OnHead, Converting, Waiting, HasMode

(* A request that does not change stays on its list.                        *)
LEMMA OthersListed ==
  ASSUME NEW r, NEW r2, NEW k \in Locker, r2[k] = r[k]
  PROVE  /\ k \in Waiting(r2) <=> k \in Waiting(r)
         /\ k \in Converting(r2) <=> k \in Converting(r)
         /\ k \in OnHead(r2) <=> k \in OnHead(r)
         /\ \A m : HasMode(r2, k, m) <=> HasMode(r, k, m)
  BY DEF OnHead, Converting, Waiting, HasMode

(* A step that changes the request of l and the head.                       *)
LEMMA HeadStep ==
  ASSUME LockInv, NEW l \in Locker, ThreadTypes', RequestsShaped(req'),
         \A k \in Locker \ {l} : req'[k] = req[k], head' \in HeadType,
         Counted(head', req'), Compatible(req'), Apart(partitions', req'),
         Ordered(head'.before, Waiting(req')),
         WaitersBlocked(head', req'), ConvertersBlocked(head', req'),
         OthersKept(l), ThreadNow(l)', partitions' \subseteq Partition,
         bucket' \in Locker \cup {NoLocker, Cleaner}
  PROVE  LockInv'
<1>1. TypesInv'
  BY DEF LockInv, TypesInv, ThreadTypes, RequestsShaped
<1>2. NoneLost(head', req')
  BY NoneLostParts
<1>3. ThreadsShaped'
  BY DEF LockInv, ThreadsShaped, OthersKept, ThreadNow
<1> QED BY <1>1, <1>2, <1>3, NextLockInv

(* What the invariant says of the head.                                     *)
LEMMA InvHead ==
  ASSUME LockInv
  PROVE  /\ head \in HeadType /\ Counted(head, req) /\ Compatible(req) /\ Apart(partitions, req)
         /\ Ordered(head.before, Waiting(req)) /\ RequestsShaped(req)
         /\ WaitersBlocked(head, req) /\ ConvertersBlocked(head, req)
         /\ req \in [Locker -> LockRequest]
         /\ \A m \in Mode : head.granted[m] \in Nat /\ head.conflict[m] \in Nat
         /\ head.conversions \in Nat /\ head.compatibleFirst \in Int
         /\ head.before \subseteq Locker \X Locker
         /\ partitions \subseteq Partition /\ bucket \in Locker \cup {NoLocker, Cleaner}
  BY NoneLostParts DEF LockInv, TypesInv, HeadType, RequestsShaped

(* A request that joins the conflict list.                                  *)
LEMMA JoinsQueue ==
  ASSUME NEW h, NEW r, NEW h2, NEW r2, NEW l \in Locker, RequestsShaped(r), RequestsShaped(r2),
         \A k \in Locker \ {l} : r2[k] = r[k],
         r[l].status = "NEW", r2[l].status = "WAITING",
         Counted(h, r), Counted(h2, r2), WaitersBlocked(h, r), ConvertersBlocked(h, r),
         h2.granted = h.granted,
         h2.before = h.before \cup (IF r2[l].compatibleFirst THEN {l} \X Waiting(r)
                                                             ELSE Waiting(r) \X {l}),
         Ordered(h.before, Waiting(r)),
         \/ Conflicts(r2[l].mode, GrantedModes(h))
         \/ Conflicts(r2[l].mode, ConflictModes(h))
  PROVE  /\ WaitersBlocked(h2, r2) /\ ConvertersBlocked(h2, r2)
         /\ Ordered(h2.before, Waiting(r2))
<1>1. /\ l \notin Waiting(r) /\ l \in Waiting(r2) /\ l \notin Converting(r2)
      /\ l \notin OnHead(r) /\ l \notin OnHead(r2)
  BY Member
<1>2. \A k \in Locker \ {l} : /\ k \in Waiting(r2) <=> k \in Waiting(r)
                              /\ k \in Converting(r2) <=> k \in Converting(r)
                              /\ \A m : HasMode(r2, k, m) <=> HasMode(r, k, m)
  BY OthersListed
<1>3. Waiting(r2) = Waiting(r) \cup {l}
  BY <1>1, <1>2, SubsetsOfLockers
<1>4. ClashesKept(r, r2)
  BY <1>1, <1>2 DEF ClashesKept, HasMode
<1>5. ConvertersBlocked(h2, r2)
  <2>1. \A k \in Converting(r2) : k \in Converting(r) /\ r2[k].convertMode = r[k].convertMode
    BY <1>1, <1>2, SubsetsOfLockers
  <2> QED BY <1>4, <2>1, ConvertersKept
<1>6. Ordered(h2.before, Waiting(r2))
  <2>1. CASE r2[l].compatibleFirst
    <3>1. h2.before = h.before \cup ({l} \X Waiting(r))
      BY <2>1
    <3>2. Ordered(h.before \cup ({l} \X Waiting(r)), Waiting(r) \cup {l})
      BY <1>1, OrderedLonger, Zenon
    <3> QED BY <1>3, <3>1, <3>2
  <2>2. CASE ~r2[l].compatibleFirst
    <3>1. h2.before = h.before \cup (Waiting(r) \X {l})
      BY <2>2
    <3>2. Ordered(h.before \cup (Waiting(r) \X {l}), Waiting(r) \cup {l})
      BY <1>1, OrderedLonger, Zenon
    <3> QED BY <1>3, <3>1, <3>2
  <2> QED BY <2>1, <2>2
<1>7. GrantedModes(h2) = GrantedModes(h)
  BY DEF GrantedModes
<1>8. ASSUME NEW b \in ConflictModes(h)
      PROVE  b \in ConflictModes(h2)
  <2>1. b \in Mode
    BY DEF ConflictModes
  <2>2. PICK k \in Waiting(r) : r[k].mode = b
    BY <2>1, ConflictIff
  <2>3. k \in Waiting(r2) /\ r2[k].mode = b
    BY <1>1, <1>3, <2>2, SubsetsOfLockers
  <2> QED BY <2>1, <2>3, ConflictIff
<1>9. \A b \in ConflictModes(h) : \E k \in Waiting(r) : r[k].mode = b
  BY ConflictIff DEF ConflictModes
<1>10. GrantedModes(h2) # {}
  <2>1. CASE Conflicts(r2[l].mode, GrantedModes(h))
    BY <1>7, <2>1, ConflictsClash
  <2>2. CASE Conflicts(r2[l].mode, ConflictModes(h))
    <3>1. Waiting(r) # {}
      BY <1>9, <2>2, ConflictsClash
    <3> QED BY <1>7, <3>1 DEF WaitersBlocked
  <2> QED BY <2>1, <2>2
<1>11. ASSUME NEW k \in Waiting(r2), \A j \in Waiting(r2) : <<j, k>> \notin h2.before
       PROVE  \/ Conflicts(r2[k].mode, GrantedModes(h2))
              \/ r2[k].compatibleFirst /\ Conflicts(r2[k].mode, ConflictModes(h2))
  <2>1. CASE k = l
    <3>1. CASE Conflicts(r2[l].mode, GrantedModes(h))
      BY <1>7, <2>1, <3>1
    <3>2. CASE Conflicts(r2[l].mode, ConflictModes(h))
      <4>1. PICK j \in Waiting(r) : TRUE
        BY <1>9, <3>2, ConflictsClash
      <4>2. j \in Waiting(r2) /\ <<j, l>> \notin h2.before
        BY <1>3, <1>11, <2>1
      <4>3. r2[l].compatibleFirst
        BY <4>1, <4>2
      <4> QED BY <1>8, <2>1, <3>2, <4>3, ConflictsClash
    <3> QED BY <3>1, <3>2
  <2>2. CASE k # l
    <3>1. k \in Waiting(r) /\ r2[k] = r[k]
      BY <1>3, <2>2, SubsetsOfLockers
    <3>2. \A j \in Waiting(r) : <<j, k>> \notin h.before
      BY <1>3, <1>11
    <3>3. \/ Conflicts(r[k].mode, GrantedModes(h))
          \/ r[k].compatibleFirst /\ Conflicts(r[k].mode, ConflictModes(h))
      BY <3>1, <3>2 DEF WaitersBlocked
    <3> QED BY <1>7, <1>8, <3>1, <3>3, ConflictsClash
  <2> QED BY <2>1, <2>2
<1>12. WaitersBlocked(h2, r2)
  BY <1>10, <1>11 DEF WaitersBlocked
<1> QED BY <1>5, <1>6, <1>12

(* A new request: granted at once, or put on the conflict list.             *)
LEMMA NewRequestInv ==
  ASSUME LockInv, NEW l \in Locker, NewRequest(l)
  PROVE  LockInv'
<1> DEFINE w == want[l]
           g == [req[l] EXCEPT !.partitioned = FALSE, !.place = "head", !.status = "GRANTED"]
           q == [req[l] EXCEPT !.partitioned = FALSE, !.place = "head", !.status = "WAITING"]
<1>1. /\ pc[l] = "lock" /\ partitions = {} /\ bucket' = NoLocker
      /\ UNCHANGED <<partitions, notified, wuow, pending>>
  BY DEF NewRequest
<1>2. /\ ThreadTypes /\ scope[l] \in Seq(Mode) /\ Len(scope[l]) \in Nat /\ pending[l] \in Nat
      /\ ThreadShaped(req[l], pc[l], want[l], scope[l], pending[l], notified[l]) /\ Shaped(req[l])
      /\ req[l] \in LockRequest
  BY InvThread
<1>3. /\ head \in HeadType /\ Counted(head, req) /\ Compatible(req) /\ Apart(partitions, req)
      /\ Ordered(head.before, Waiting(req)) /\ RequestsShaped(req)
      /\ WaitersBlocked(head, req) /\ ConvertersBlocked(head, req)
      /\ req \in [Locker -> LockRequest]
      /\ \A m \in Mode : head.granted[m] \in Nat /\ head.conflict[m] \in Nat
      /\ head.conversions \in Nat /\ head.compatibleFirst \in Int
      /\ head.before \subseteq Locker \X Locker
  BY InvHead
<1>4. /\ req[l].status = "NEW" /\ w = req[l].mode /\ scope[l] = <<>> /\ pending[l] = 0
      /\ req[l].count = Len(scope[l]) + pending[l] + 1 /\ ~notified[l]
  BY <1>1, <1>2 DEF ThreadShaped
<1>5. w \in Mode /\ req[l].place = "none" /\ req[l].convertMode = "NONE"
  BY <1>2, <1>4 DEF Shaped
<1>6. \/ /\ MustWait(l) /\ req' = [req EXCEPT ![l] = q] /\ Continue(l, w, "wait")
         /\ head' = [head EXCEPT
                 !.conflict[w] = @ + 1,
                 !.before = @ \cup (IF q.compatibleFirst THEN {l} \X Waiting(req)
                                                         ELSE Waiting(req) \X {l})]
      \/ /\ ~MustWait(l) /\ req' = [req EXCEPT ![l] = g] /\ LockOk(l, w)
         /\ head' = [head EXCEPT
                 !.granted[w] = @ + 1,
                 !.compatibleFirst = @ + (IF g.compatibleFirst THEN 1 ELSE 0)]
  BY <1>2 DEF NewRequest, LockRequest
<1>7. /\ g \in LockRequest /\ q \in LockRequest
      /\ g.status = "GRANTED" /\ g.mode = w /\ g.count = req[l].count /\ g.place = "head"
      /\ g.convertMode = "NONE" /\ g.compatibleFirst = req[l].compatibleFirst
      /\ q.status = "WAITING" /\ q.mode = w /\ q.count = req[l].count /\ q.place = "head"
      /\ q.convertMode = "NONE" /\ q.compatibleFirst = req[l].compatibleFirst
  BY <1>2, <1>4, <1>5 DEF LockRequest
<1> HIDE DEF g, q, w
<1>8. Shaped(g) /\ Shaped(q)
  BY <1>5, <1>7 DEF Shaped
<1>9. \A k \in Locker : req[k].place # "partition"
  BY <1>1, <1>3 DEF Apart
<1>10. ASSUME NEW x \in LockRequest, Shaped(x), x.place = "head", req' = [req EXCEPT ![l] = x]
       PROVE  /\ req'[l] = x /\ \A k \in Locker \ {l} : req'[k] = req[k]
              /\ RequestsShaped(req') /\ Apart(partitions', req')
  <2>1. /\ req' \in [Locker -> LockRequest] /\ req'[l] = x
        /\ \A k \in Locker \ {l} : req'[k] = req[k]
    BY <1>3, <1>10
  <2>2. RequestsShaped(req')
    BY <1>3, <1>10, <2>1 DEF RequestsShaped
  <2>3. \A k \in Locker : req'[k].place # "partition"
    BY <1>9, <1>10, <2>1
  <2>4. Apart({}, req')
    BY <2>3, ApartEmpty
  <2> QED BY <1>1, <2>1, <2>2, <2>4
<1>11. partitions' \subseteq Partition /\ bucket' \in Locker \cup {NoLocker, Cleaner}
  BY <1>1
<1>12. /\ l \notin Converting(req)
       /\ \A m : l \notin Held(req, m) /\ l \notin Sought(req, m) /\ l \notin Queued(req, m)
  BY <1>4, Member
<1>13. CASE /\ MustWait(l) /\ req' = [req EXCEPT ![l] = q] /\ Continue(l, w, "wait")
            /\ head' = [head EXCEPT
                 !.conflict[w] = @ + 1,
                 !.before = @ \cup (IF q.compatibleFirst THEN {l} \X Waiting(req)
                                                         ELSE Waiting(req) \X {l})]
  <2>1. /\ req'[l] = q /\ \A k \in Locker \ {l} : req'[k] = req[k]
        /\ RequestsShaped(req') /\ Apart(partitions', req')
    BY <1>7, <1>8, <1>10, <1>13
  <2>2. /\ head'.granted = head.granted /\ head'.conversions = head.conversions
        /\ head'.compatibleFirst = head.compatibleFirst
        /\ head'.before = head.before \cup (IF q.compatibleFirst THEN {l} \X Waiting(req)
                                                         ELSE Waiting(req) \X {l})
        /\ head'.conflict = [head.conflict EXCEPT ![w] = @ + 1]
    BY <1>3, <1>13 DEF HeadType
  <2>3. \A m \in Mode : head'.conflict[m] = IF m = w THEN head.conflict[m] + 1 ELSE head.conflict[m]
    BY <1>3, <1>5, <2>2 DEF HeadType
  <2>4. /\ l \notin Converting(req')
        /\ \A m : l \notin Held(req', m) /\ l \notin Sought(req', m) /\ (l \in Queued(req', m) <=> m = w)
    BY <1>7, <2>1, Member
  <2>5. Counted(head', req')
    <3>1. \A m \in Mode :
           /\ head'.granted[m] = head.granted[m] - In(l, Held(req, m)) - In(l, Sought(req, m))
                                           + In(l, Held(req', m)) + In(l, Sought(req', m))
           /\ head'.conflict[m] = head.conflict[m] - In(l, Queued(req, m)) + In(l, Queued(req', m))
      BY <1>3, <1>12, <2>2, <2>3, <2>4 DEF In
    <3>2. head'.conversions = head.conversions - In(l, Converting(req)) + In(l, Converting(req'))
      BY <1>3, <1>12, <2>2, <2>4 DEF In
    <3> QED BY <1>3, <2>1, <3>1, <3>2, OneCounted
  <2>6. Compatible(req')
    BY <1>3, <1>7, <2>1 DEF Compatible
  <2>7. /\ WaitersBlocked(head', req') /\ ConvertersBlocked(head', req')
        /\ Ordered(head'.before, Waiting(req'))
    <3>1. \/ Conflicts(req'[l].mode, GrantedModes(head))
          \/ Conflicts(req'[l].mode, ConflictModes(head))
      BY <1>7, <1>13, <2>1 DEF MustWait, w
    <3>2. head'.before = head.before \cup (IF req'[l].compatibleFirst THEN {l} \X Waiting(req)
                                                         ELSE Waiting(req) \X {l})
      BY <2>1, <2>2
    <3>3. req[l].status = "NEW" /\ req'[l].status = "WAITING"
      BY <1>4, <1>7, <2>1
    <3> QED BY <1>3, <2>1, <2>2, <2>5, <3>1, <3>2, <3>3, JoinsQueue
  <2>8. head' \in HeadType
    <3>1. head'.conflict \in [Mode -> Nat]
      <4>1. head.conflict \in [Mode -> Nat] /\ head.conflict[w] + 1 \in Nat
        BY <1>3, <1>5 DEF HeadType
      <4> QED BY <2>2, <4>1
    <3>2. head'.before \subseteq Locker \X Locker
      BY <2>7, SubsetsOfLockers DEF Ordered
    <3>3. head' = [granted |-> head'.granted, conflict |-> head'.conflict,
                   conversions |-> head'.conversions,
                   compatibleFirst |-> head'.compatibleFirst, before |-> head'.before]
      BY <1>3, <1>13 DEF HeadType
    <3>4. head.granted \in [Mode -> Nat]
      BY <1>3 DEF HeadType
    <3> QED BY <1>3, <2>2, <3>1, <3>2, <3>3, <3>4 DEF HeadType
  <2>9. /\ pc' = [pc EXCEPT ![l] = "wait"] /\ want' = [want EXCEPT ![l] = w] /\ scope' = scope
    BY <1>13 DEF Continue, Goto
  <2>10. ThreadTypes' /\ OthersKept(l)
    BY <1>1, <1>2, <1>5, <2>9 DEF ThreadTypes, OthersKept
  <2>11. pc'[l] = "wait" /\ want'[l] = w /\ scope'[l] = scope[l] /\ pending'[l] = pending[l]
         /\ notified'[l] = notified[l]
    BY <1>1, <1>2, <2>9 DEF ThreadTypes
  <2>12. ThreadShaped(q, "wait", w, scope[l], pending[l], notified[l])
    BY <1>4, <1>7 DEF ThreadShaped
  <2>13. ThreadNow(l)'
    BY <2>1, <2>11, <2>12 DEF ThreadNow
  <2> QED BY <1>11, <2>1, <2>5, <2>6, <2>7, <2>8, <2>10, <2>13, HeadStep
<1>14. CASE /\ ~MustWait(l) /\ req' = [req EXCEPT ![l] = g] /\ LockOk(l, w)
            /\ head' = [head EXCEPT
                 !.granted[w] = @ + 1,
                 !.compatibleFirst = @ + (IF g.compatibleFirst THEN 1 ELSE 0)]
  <2>1. /\ req'[l] = g /\ \A k \in Locker \ {l} : req'[k] = req[k]
        /\ RequestsShaped(req') /\ Apart(partitions', req')
    BY <1>7, <1>8, <1>10, <1>14
  <2>2. /\ head'.conflict = head.conflict /\ head'.conversions = head.conversions
        /\ head'.before = head.before
        /\ head'.compatibleFirst = head.compatibleFirst + (IF g.compatibleFirst THEN 1 ELSE 0)
        /\ head'.granted = [head.granted EXCEPT ![w] = @ + 1]
    BY <1>3, <1>14 DEF HeadType
  <2>3. \A m \in Mode : head'.granted[m] = IF m = w THEN head.granted[m] + 1 ELSE head.granted[m]
    BY <1>3, <1>5, <2>2 DEF HeadType
  <2>4. /\ l \notin Converting(req')
        /\ \A m : l \notin Queued(req', m) /\ l \notin Sought(req', m) /\ (l \in Held(req', m) <=> m = w)
    BY <1>7, <2>1, Member
  <2>5. Counted(head', req')
    <3>1. \A m \in Mode :
           /\ head'.granted[m] = head.granted[m] - In(l, Held(req, m)) - In(l, Sought(req, m))
                                           + In(l, Held(req', m)) + In(l, Sought(req', m))
           /\ head'.conflict[m] = head.conflict[m] - In(l, Queued(req, m)) + In(l, Queued(req', m))
      BY <1>3, <1>12, <2>2, <2>3, <2>4 DEF In
    <3>2. head'.conversions = head.conversions - In(l, Converting(req)) + In(l, Converting(req'))
      BY <1>3, <1>12, <2>2, <2>4 DEF In
    <3> QED BY <1>3, <2>1, <3>1, <3>2, OneCounted
  <2>6. Compatible(req')
    <3>1. ASSUME NEW k \in Locker, k # l, req[k].status \in {"GRANTED", "CONVERTING"}
          PROVE  ~Clash(w, req[k].mode) /\ ~Clash(req[k].mode, w)
      <4>1. k \in OnHead(req)
        BY <1>1, <1>3, <3>1, AllOnHead
      <4>2. req[k].mode \in Mode /\ HasMode(req, k, req[k].mode)
        BY <1>3, <4>1, OnHeadFacts
      <4>3. req[k].mode \in GrantedModes(head)
        BY <1>3, <4>2, GrantedIff
      <4>4. ~Conflicts(w, GrantedModes(head))
        BY <1>14 DEF MustWait, w
      <4> QED BY <1>5, <4>2, <4>3, <4>4, ConflictsClash, Clashes
    <3> QED BY <1>3, <1>7, <2>1, <3>1 DEF Compatible, Clash
  <2>7. \A k \in Locker \ {l} : /\ k \in Waiting(req') <=> k \in Waiting(req)
                                /\ k \in Converting(req') <=> k \in Converting(req)
                                /\ \A m : HasMode(req', k, m) <=> HasMode(req, k, m)
    BY <2>1, OthersListed
  <2>8. l \notin Waiting(req) /\ l \notin Waiting(req') /\ l \notin OnHead(req)
    BY <1>4, <1>7, <2>1, Member
  <2>9. Waiting(req') = Waiting(req)
    BY <2>7, <2>8, SubsetsOfLockers
  <2>10. ClashesKept(req, req')
    BY <2>7, <2>8 DEF ClashesKept, HasMode
  <2>11. ConvertersBlocked(head', req')
    <3>1. \A k \in Converting(req') : k \in Converting(req) /\ req'[k].convertMode = req[k].convertMode
      BY <2>1, <2>4, <2>7, SubsetsOfLockers
    <3> QED BY <1>3, <2>1, <2>5, <2>10, <3>1, ConvertersKept
  <2>12. WaitersBlocked(head', req')
    <3>1. \A k \in Waiting(req) : req'[k] = req[k]
      BY <2>1, <2>8, SubsetsOfLockers
    <3> QED BY <1>3, <2>1, <2>2, <2>5, <2>9, <2>10, <3>1, WaitersKept
  <2>13. head' \in HeadType
    <3>1. head'.granted \in [Mode -> Nat]
      <4>1. head.granted \in [Mode -> Nat] /\ head.granted[w] + 1 \in Nat
        BY <1>3, <1>5 DEF HeadType
      <4> QED BY <2>2, <4>1
    <3>2. head'.compatibleFirst \in Int
      BY <1>3, <2>2
    <3>3. head' = [granted |-> head'.granted, conflict |-> head'.conflict,
                   conversions |-> head'.conversions,
                   compatibleFirst |-> head'.compatibleFirst, before |-> head'.before]
      BY <1>3, <1>14 DEF HeadType
    <3>4. head.conflict \in [Mode -> Nat]
      BY <1>3 DEF HeadType
    <3> QED BY <1>3, <2>2, <3>1, <3>2, <3>3, <3>4 DEF HeadType
  <2>14. Ordered(head'.before, Waiting(req'))
    BY <1>3, <2>2, <2>9
  <2>15. /\ IsModeCovered(w, g.mode) /\ g.count = Len(scope[l]) + pending[l] + 1
         /\ \A i \in 1..Len(scope[l]) : IsModeCovered(scope[l][i], g.mode)
    BY <1>4, <1>5, <1>7, Clashes
  <2>16. /\ pc' \in [Locker -> {"idle", "lock", "convert", "wait", "undo", "unlock"}]
         /\ want' \in [Locker -> Mode \cup {"NONE"}]
         /\ scope' \in [Locker -> Seq(Mode)]
         /\ \A k \in Locker \ {l} : pc'[k] = pc[k] /\ want'[k] = want[k] /\ scope'[k] = scope[k]
         /\ \A x, nt : ThreadShaped(g, pc'[l], x, scope'[l], pending[l], nt)
    BY <1>2, <1>5, <1>7, <1>14, <2>15, LockOkThread
  <2>17. ThreadTypes' /\ OthersKept(l) /\ ThreadNow(l)'
    BY <1>1, <1>2, <2>1, <2>16 DEF ThreadTypes, OthersKept, ThreadNow
  <2> QED BY <1>11, <2>1, <2>5, <2>6, <2>11, <2>12, <2>13, <2>14, <2>17, HeadStep
<1> QED BY <1>6, <1>13, <1>14

(* A conversion moves one count from a mode to another.                     *)
LEMMA ModeChangedAt ==
  ASSUME NEW c, \A m \in Mode : c[m] \in Nat, NEW a \in Mode, NEW b \in Mode, a # b, NEW m \in Mode
  PROVE  /\ ModeChanged(c, a, b)[m] = IF m = a THEN c[m] - 1 ELSE IF m = b THEN c[m] + 1 ELSE c[m]
         /\ ModeChanged(c, a, b) = [x \in Mode |-> ModeChanged(c, a, b)[x]]
<1>1. ModeChanged(c, a, b)[m] = c[m] + (IF m = b THEN 1 ELSE 0) - (IF m = a THEN 1 ELSE 0)
  BY DEF ModeChanged
<1>2. ModeChanged(c, a, b) = [x \in Mode |-> ModeChanged(c, a, b)[x]]
  BY DEF ModeChanged
<1>3. c[m] \in Nat
  OBVIOUS
<1> QED BY <1>1, <1>2, <1>3

(* A conversion: granted at once, or left converting.                       *)
LEMMA ConvertInv ==
  ASSUME LockInv, NEW l \in Locker, Convert(l)
  PROVE  LockInv'
<1> DEFINE w == want[l]
           o == req[l].mode
           g == [req[l] EXCEPT !.mode = w]
           q == [req[l] EXCEPT !.status = "CONVERTING", !.convertMode = w]
<1>1. /\ pc[l] = "convert" /\ partitions = {} /\ bucket' = NoLocker
      /\ UNCHANGED <<partitions, notified, wuow, pending>>
  BY DEF Convert
<1>2. /\ ThreadTypes /\ scope[l] \in Seq(Mode) /\ Len(scope[l]) \in Nat /\ pending[l] \in Nat
      /\ ThreadShaped(req[l], pc[l], want[l], scope[l], pending[l], notified[l]) /\ Shaped(req[l])
      /\ req[l] \in LockRequest
  BY InvThread
<1>3. /\ head \in HeadType /\ Counted(head, req) /\ Compatible(req) /\ Apart(partitions, req)
      /\ Ordered(head.before, Waiting(req)) /\ RequestsShaped(req)
      /\ WaitersBlocked(head, req) /\ ConvertersBlocked(head, req)
      /\ req \in [Locker -> LockRequest]
      /\ \A m \in Mode : head.granted[m] \in Nat /\ head.conflict[m] \in Nat
      /\ head.conversions \in Nat /\ head.compatibleFirst \in Int
      /\ head.before \subseteq Locker \X Locker
  BY InvHead
<1>4. /\ req[l].status = "GRANTED" /\ w \in Mode /\ w # o /\ IsModeCovered(o, w) /\ ~notified[l]
      /\ req[l].count = Len(scope[l]) + pending[l] + 1
      /\ \A i \in 1..Len(scope[l]) : IsModeCovered(scope[l][i], o)
  BY <1>1, <1>2 DEF ThreadShaped
<1>20. Len(scope[l]) + pending[l] > 0
  BY <1>1, <1>2 DEF ThreadShaped
<1>5. o \in Mode /\ req[l].place = "head" /\ req[l].convertMode = "NONE" /\ l \in OnHead(req)
  <2>1. l \in OnHead(req)
    BY <1>1, <1>3, <1>4, AllOnHead
  <2> QED BY <1>2, <1>4, <2>1, Member DEF Shaped
<1>6. \/ /\ Conflicts(w, GrantedWithout(head, req, l))
         /\ req' = [req EXCEPT ![l] = q] /\ Continue(l, w, "wait")
         /\ head' = [head EXCEPT !.conversions = @ + 1, !.granted[w] = @ + 1]
      \/ /\ ~Conflicts(w, GrantedWithout(head, req, l))
         /\ req' = [req EXCEPT ![l] = g] /\ LockOk(l, w)
         /\ head' = [head EXCEPT !.granted = ModeChanged(@, o, w)]
  BY <1>3 DEF Convert
<1>7. /\ g \in LockRequest /\ q \in LockRequest
      /\ g.status = "GRANTED" /\ g.mode = w /\ g.count = req[l].count /\ g.place = "head"
      /\ g.convertMode = "NONE" /\ g.compatibleFirst = req[l].compatibleFirst
      /\ q.status = "CONVERTING" /\ q.mode = o /\ q.count = req[l].count /\ q.place = "head"
      /\ q.convertMode = w /\ q.compatibleFirst = req[l].compatibleFirst
  BY <1>2, <1>4, <1>5 DEF LockRequest
<1>21. req[l].mode = o
  OBVIOUS
<1> HIDE DEF g, q, w, o
<1>8. Shaped(g) /\ Shaped(q)
  BY <1>4, <1>5, <1>7 DEF Shaped
<1>9. \A k \in Locker : req[k].place # "partition"
  BY <1>1, <1>3 DEF Apart
<1>10. ASSUME NEW x \in LockRequest, Shaped(x), x.place = "head", req' = [req EXCEPT ![l] = x]
       PROVE  /\ req'[l] = x /\ \A k \in Locker \ {l} : req'[k] = req[k]
              /\ RequestsShaped(req') /\ Apart(partitions', req')
  <2>1. /\ req' \in [Locker -> LockRequest] /\ req'[l] = x
        /\ \A k \in Locker \ {l} : req'[k] = req[k]
    BY <1>3, <1>10
  <2>2. RequestsShaped(req')
    BY <1>3, <1>10, <2>1 DEF RequestsShaped
  <2>3. \A k \in Locker : req'[k].place # "partition"
    BY <1>9, <1>10, <2>1
  <2>4. Apart({}, req')
    BY <2>3, ApartEmpty
  <2> QED BY <1>1, <2>1, <2>2, <2>4
<1>11. partitions' \subseteq Partition /\ bucket' \in Locker \cup {NoLocker, Cleaner}
  BY <1>1
<1>12. /\ l \notin Converting(req) /\ l \notin Waiting(req)
       /\ \A m : (l \in Held(req, m) <=> m = o) /\ l \notin Sought(req, m) /\ l \notin Queued(req, m)
  BY <1>4, <1>5, <1>21, Member
<1>13. CASE /\ Conflicts(w, GrantedWithout(head, req, l))
            /\ req' = [req EXCEPT ![l] = q] /\ Continue(l, w, "wait")
            /\ head' = [head EXCEPT !.conversions = @ + 1, !.granted[w] = @ + 1]
  <2>1. /\ req'[l] = q /\ \A k \in Locker \ {l} : req'[k] = req[k]
        /\ RequestsShaped(req') /\ Apart(partitions', req')
    BY <1>7, <1>8, <1>10, <1>13
  <2>2. /\ head'.conflict = head.conflict /\ head'.conversions = head.conversions + 1
        /\ head'.compatibleFirst = head.compatibleFirst /\ head'.before = head.before
        /\ head'.granted = [head.granted EXCEPT ![w] = @ + 1]
    BY <1>3, <1>13 DEF HeadType
  <2>3. \A m \in Mode : head'.granted[m] = IF m = w THEN head.granted[m] + 1 ELSE head.granted[m]
    BY <1>3, <1>4, <2>2 DEF HeadType
  <2>4. /\ l \in Converting(req') /\ l \in OnHead(req') /\ l \notin Waiting(req')
        /\ \A m : /\ l \in Held(req', m) <=> m = o
                  /\ l \in Sought(req', m) <=> m = w
                  /\ l \notin Queued(req', m)
    BY <1>7, <2>1, Member
  <2>5. Counted(head', req')
    <3>1. \A m \in Mode :
           /\ head'.granted[m] = head.granted[m] - In(l, Held(req, m)) - In(l, Sought(req, m))
                                           + In(l, Held(req', m)) + In(l, Sought(req', m))
           /\ head'.conflict[m] = head.conflict[m] - In(l, Queued(req, m)) + In(l, Queued(req', m))
      BY <1>3, <1>12, <2>2, <2>3, <2>4 DEF In
    <3>2. head'.conversions = head.conversions - In(l, Converting(req)) + In(l, Converting(req'))
      BY <1>3, <1>12, <2>2, <2>4 DEF In
    <3> QED BY <1>3, <2>1, <3>1, <3>2, OneCounted
  <2>6. Compatible(req')
    BY <1>3, <1>4, <1>7, <1>21, <2>1 DEF Compatible
  <2>7. \A k \in Locker \ {l} : /\ k \in Waiting(req') <=> k \in Waiting(req)
                                /\ k \in Converting(req') <=> k \in Converting(req)
                                /\ \A m : HasMode(req', k, m) <=> HasMode(req, k, m)
    BY <2>1, OthersListed
  <2>9. Waiting(req') = Waiting(req)
    BY <1>12, <2>4, <2>7, SubsetsOfLockers
  <2>10. ClashesKept(req, req')
    <3>1. \A b \in Mode : HasMode(req, l, b) => HasMode(req', l, b)
      BY <1>5, <1>7, <1>21, <2>1, <2>4, ModeNotNone DEF HasMode
    <3> QED BY <2>7, <3>1 DEF ClashesKept
  <2>11. ConvertersBlocked(head', req')
    <3>1. \A k \in Converting(req') \ {l} : k \in Converting(req) /\ req'[k].convertMode = req[k].convertMode
      BY <2>1, <2>7, SubsetsOfLockers
    <3>2. PICK b \in GrantedWithout(head, req, l) : Clash(w, b)
      BY <1>13, ConflictsClash
    <3>3. b \in Mode
      BY DEF GrantedWithout
    <3>4. PICK k \in Locker \ {l} : HasMode(req, k, b)
      BY <1>3, <1>5, <3>3, WithoutIff
    <3>5. b \in GrantedWithout(head', req', l)
      BY <2>1, <2>4, <2>5, <2>7, <3>3, <3>4, WithoutIff
    <3>6. Conflicts(req'[l].convertMode, GrantedWithout(head', req', l))
      BY <1>7, <2>1, <3>2, <3>5, ConflictsClash
    <3> QED BY <1>3, <2>1, <2>5, <2>10, <3>1, <3>6, ConvertersKept
  <2>12. WaitersBlocked(head', req')
    <3>1. \A k \in Waiting(req) : req'[k] = req[k]
      BY <1>12, <2>1, SubsetsOfLockers
    <3> QED BY <1>3, <2>1, <2>2, <2>5, <2>9, <2>10, <3>1, WaitersKept
  <2>13. head' \in HeadType
    <3>1. head'.granted \in [Mode -> Nat]
      <4>1. head.granted \in [Mode -> Nat] /\ head.granted[w] + 1 \in Nat
        BY <1>3, <1>4 DEF HeadType
      <4> QED BY <2>2, <4>1
    <3>2. head'.conversions \in Nat
      BY <1>3, <2>2
    <3>3. head' = [granted |-> head'.granted, conflict |-> head'.conflict,
                   conversions |-> head'.conversions,
                   compatibleFirst |-> head'.compatibleFirst, before |-> head'.before]
      BY <1>3, <1>13 DEF HeadType
    <3>4. head.conflict \in [Mode -> Nat]
      BY <1>3 DEF HeadType
    <3> QED BY <1>3, <2>2, <3>1, <3>2, <3>3, <3>4 DEF HeadType
  <2>14. Ordered(head'.before, Waiting(req'))
    BY <1>3, <2>2, <2>9
  <2>15. /\ pc' = [pc EXCEPT ![l] = "wait"] /\ want' = [want EXCEPT ![l] = w] /\ scope' = scope
    BY <1>13 DEF Continue, Goto
  <2>16. ThreadTypes' /\ OthersKept(l)
    BY <1>1, <1>2, <1>4, <2>15 DEF ThreadTypes, OthersKept
  <2>17. pc'[l] = "wait" /\ want'[l] = w /\ scope'[l] = scope[l] /\ pending'[l] = pending[l]
         /\ notified'[l] = notified[l]
    BY <1>1, <1>2, <2>15 DEF ThreadTypes
  <2>18. ThreadShaped(q, "wait", w, scope[l], pending[l], notified[l])
    BY <1>4, <1>7, <1>20 DEF ThreadShaped
  <2>19. ThreadNow(l)'
    BY <2>1, <2>17, <2>18 DEF ThreadNow
  <2> QED BY <1>11, <2>1, <2>5, <2>6, <2>11, <2>12, <2>13, <2>14, <2>16, <2>19, HeadStep
<1>14. CASE /\ ~Conflicts(w, GrantedWithout(head, req, l))
            /\ req' = [req EXCEPT ![l] = g] /\ LockOk(l, w)
            /\ head' = [head EXCEPT !.granted = ModeChanged(@, o, w)]
  <2>1. /\ req'[l] = g /\ \A k \in Locker \ {l} : req'[k] = req[k]
        /\ RequestsShaped(req') /\ Apart(partitions', req')
    BY <1>7, <1>8, <1>10, <1>14
  <2>2. /\ head'.conflict = head.conflict /\ head'.conversions = head.conversions
        /\ head'.before = head.before /\ head'.compatibleFirst = head.compatibleFirst
        /\ head'.granted = ModeChanged(head.granted, o, w)
    BY <1>3, <1>14 DEF HeadType
  <2>3. /\ \A m \in Mode : head'.granted[m] =
              IF m = o THEN head.granted[m] - 1 ELSE IF m = w THEN head.granted[m] + 1 ELSE head.granted[m]
        /\ head'.granted = [m \in Mode |-> head'.granted[m]]
    BY <1>3, <1>4, <1>5, <2>2, ModeChangedAt
  <2>4. /\ l \notin Converting(req') /\ l \notin Waiting(req') /\ l \in OnHead(req')
        /\ \A m : l \notin Queued(req', m) /\ l \notin Sought(req', m) /\ (l \in Held(req', m) <=> m = w)
    BY <1>7, <2>1, Member
  <2>5. Counted(head', req')
    <3>1. \A m \in Mode :
           /\ head'.granted[m] = head.granted[m] - In(l, Held(req, m)) - In(l, Sought(req, m))
                                           + In(l, Held(req', m)) + In(l, Sought(req', m))
           /\ head'.conflict[m] = head.conflict[m] - In(l, Queued(req, m)) + In(l, Queued(req', m))
      BY <1>3, <1>4, <1>12, <2>2, <2>3, <2>4 DEF In
    <3>2. head'.conversions = head.conversions - In(l, Converting(req)) + In(l, Converting(req'))
      BY <1>3, <1>12, <2>2, <2>4 DEF In
    <3> QED BY <1>3, <2>1, <3>1, <3>2, OneCounted
  <2>6. Compatible(req')
    <3>1. ASSUME NEW k \in Locker, k # l, req[k].status \in {"GRANTED", "CONVERTING"}
          PROVE  ~Clash(w, req[k].mode) /\ ~Clash(req[k].mode, w)
      <4>1. k \in OnHead(req)
        BY <1>1, <1>3, <3>1, AllOnHead
      <4>2. req[k].mode \in Mode /\ HasMode(req, k, req[k].mode)
        BY <1>3, <4>1, OnHeadFacts
      <4>3. req[k].mode \in GrantedWithout(head, req, l)
        BY <1>3, <1>5, <3>1, <4>2, WithoutIff
      <4> QED BY <1>4, <1>14, <4>2, <4>3, ConflictsClash, Clashes
    <3> QED BY <1>3, <1>7, <2>1, <3>1 DEF Compatible, Clash
  <2>7. \A k \in Locker \ {l} : /\ k \in Waiting(req') <=> k \in Waiting(req)
                                /\ k \in Converting(req') <=> k \in Converting(req)
                                /\ \A m : HasMode(req', k, m) <=> HasMode(req, k, m)
    BY <2>1, OthersListed
  <2>9. Waiting(req') = Waiting(req)
    BY <1>12, <2>4, <2>7, SubsetsOfLockers
  <2>10. ClashesKept(req, req')
    <3>1. HasMode(req', l, w)
      BY <1>7, <2>1, <2>4 DEF HasMode
    <3>2. \A b \in Mode : HasMode(req, l, b) => b = o
      BY <1>5, <1>21, ModeNotNone DEF HasMode
    <3>3. \A a \in Mode : Clash(a, o) => Clash(a, w)
      BY <1>4, <1>5, Clashes, CoveredClash
    <3> QED BY <1>4, <2>7, <3>1, <3>2, <3>3 DEF ClashesKept
  <2>11. ConvertersBlocked(head', req')
    <3>1. \A k \in Converting(req') : k \in Converting(req) /\ req'[k].convertMode = req[k].convertMode
      BY <2>1, <2>4, <2>7, SubsetsOfLockers
    <3> QED BY <1>3, <2>1, <2>5, <2>10, <3>1, ConvertersKept
  <2>12. WaitersBlocked(head', req')
    <3>1. \A k \in Waiting(req) : req'[k] = req[k]
      BY <1>12, <2>1, SubsetsOfLockers
    <3> QED BY <1>3, <2>1, <2>2, <2>5, <2>9, <2>10, <3>1, WaitersKept
  <2>13. head' \in HeadType
    <3>3. head' = [granted |-> head'.granted, conflict |-> head'.conflict,
                   conversions |-> head'.conversions,
                   compatibleFirst |-> head'.compatibleFirst, before |-> head'.before]
      BY <1>3, <1>14 DEF HeadType
    <3>4. head'.conflict = [m \in Mode |-> head'.conflict[m]]
      BY <1>3, <2>2 DEF HeadType
    <3>5. head'.compatibleFirst \in Int /\ head'.before \subseteq Locker \X Locker
      BY <1>3, <2>2
    <3> QED BY <2>3, <2>5, <3>3, <3>4, <3>5, CountedTyped
  <2>14. Ordered(head'.before, Waiting(req'))
    BY <1>3, <2>2, <2>9
  <2>15. /\ IsModeCovered(w, g.mode) /\ g.count = Len(scope[l]) + pending[l] + 1
         /\ \A i \in 1..Len(scope[l]) : IsModeCovered(scope[l][i], g.mode)
    BY <1>4, <1>7, Clashes, CoveredTrans
  <2>16. /\ pc' \in [Locker -> {"idle", "lock", "convert", "wait", "undo", "unlock"}]
         /\ want' \in [Locker -> Mode \cup {"NONE"}]
         /\ scope' \in [Locker -> Seq(Mode)]
         /\ \A k \in Locker \ {l} : pc'[k] = pc[k] /\ want'[k] = want[k] /\ scope'[k] = scope[k]
         /\ \A x, nt : ThreadShaped(g, pc'[l], x, scope'[l], pending[l], nt)
    BY <1>2, <1>4, <1>7, <1>14, <2>15, LockOkThread
  <2>17. ThreadTypes' /\ OthersKept(l) /\ ThreadNow(l)'
    BY <1>1, <1>2, <2>1, <2>16 DEF ThreadTypes, OthersKept, ThreadNow
  <2> QED BY <1>11, <2>1, <2>5, <2>6, <2>11, <2>12, <2>13, <2>14, <2>17, HeadStep
<1> QED BY <1>6, <1>13, <1>14

(* The requests of a partition are granted again on the head.               *)
LEMMA MigratePartitionInv ==
  ASSUME LockInv, NEW p \in partitions, MigratePartition(p)
  PROVE  LockInv'
<1> DEFINE M == {l \in Locker : req[l].place = "partition" /\ PartitionOf[l] = p}
<1>1. /\ req' = [l \in Locker |-> IF l \in M THEN [req[l] EXCEPT !.place = "head"] ELSE req[l]]
      /\ head' = [head EXCEPT
           !.granted = [m \in Mode |-> @[m] + Cardinality(OfMode(M, req, m))],
           !.compatibleFirst = @ + CompatibleFirstAdded(M, req)]
      /\ partitions' = partitions \ {p}
      /\ UNCHANGED <<bucket, notified, threadVars>>
  BY DEF MigratePartition
<1>2. /\ head \in HeadType /\ Counted(head, req) /\ Compatible(req) /\ Apart(partitions, req)
      /\ Ordered(head.before, Waiting(req)) /\ RequestsShaped(req)
      /\ WaitersBlocked(head, req) /\ ConvertersBlocked(head, req)
      /\ req \in [Locker -> LockRequest]
      /\ \A m \in Mode : head.granted[m] \in Nat /\ head.conflict[m] \in Nat
      /\ head.conversions \in Nat /\ head.compatibleFirst \in Int
      /\ head.before \subseteq Locker \X Locker
      /\ partitions \subseteq Partition /\ bucket \in Locker \cup {NoLocker, Cleaner}
  BY InvHead
<1>3. M \subseteq Locker /\ \A l \in Locker : l \in M <=> req[l].place = "partition" /\ PartitionOf[l] = p
  OBVIOUS
<1> HIDE DEF M
<1>4. \A l \in M : req[l].status = "GRANTED" /\ req[l].mode \in Intent /\ l \notin OnHead(req)
  BY <1>2, <1>3 DEF RequestsShaped, Shaped, OnHead
<1>5. ASSUME NEW l \in Locker
      PROVE  /\ req'[l] \in LockRequest
             /\ req'[l].status = req[l].status /\ req'[l].mode = req[l].mode
             /\ req'[l].convertMode = req[l].convertMode /\ req'[l].count = req[l].count
             /\ req'[l].compatibleFirst = req[l].compatibleFirst
             /\ req'[l].place = IF l \in M THEN "head" ELSE req[l].place
             /\ l \notin M => req'[l] = req[l]
  <2>0. req[l] \in LockRequest
    BY <1>2
  <2>1. CASE l \in M
    <3>1. req'[l] = [req[l] EXCEPT !.place = "head"]
      BY <1>1, <2>1
    <3> QED BY <2>0, <2>1, <3>1 DEF LockRequest
  <2>2. CASE l \notin M
    <3>1. req'[l] = req[l]
      BY <1>1, <2>2
    <3> QED BY <2>0, <2>2, <3>1
  <2> QED BY <2>1, <2>2
<1>6. RequestsShaped(req')
  <2>1. req' \in [Locker -> LockRequest]
    <3>1. req' = [l \in Locker |-> req'[l]]
      BY <1>1
    <3> QED BY <1>5, <3>1
  <2>2. ASSUME NEW l \in Locker
        PROVE  Shaped(req'[l])
    <3>1. Shaped(req[l])
      BY <1>2 DEF RequestsShaped
    <3>2. CASE l \in M
      BY <1>4, <1>5, <3>1, <3>2 DEF Shaped
    <3>3. CASE l \notin M
      BY <1>5, <3>1, <3>3
    <3> QED BY <3>2, <3>3
  <2> QED BY <2>1, <2>2 DEF RequestsShaped
<1>7. /\ Waiting(req') = Waiting(req) /\ Converting(req') = Converting(req)
  BY <1>5 DEF Waiting, Converting
<1>8. OnHead(req') = OnHead(req) \cup M
  BY <1>3, <1>4, <1>5 DEF OnHead
<1>9. ASSUME NEW m \in Mode
      PROVE  /\ head'.granted[m] = Cardinality(Held(req', m)) + Cardinality(Sought(req', m))
             /\ head'.conflict[m] = Cardinality(Queued(req', m))
  <2>1. Sought(req', m) = Sought(req, m) /\ Queued(req', m) = Queued(req, m)
    BY <1>5, <1>7, SubsetsOfLockers DEF Sought, Queued, OfMode
  <2>2. Held(req', m) = Held(req, m) \cup OfMode(M, req, m)
    BY <1>3, <1>5, <1>8, SubsetsOfLockers DEF Held, OfMode
  <2>3. Held(req, m) \cap OfMode(M, req, m) = {} /\ OfMode(M, req, m) \subseteq Locker
    BY <1>3, <1>4 DEF Held, OfMode
  <2>4. Cardinality(Held(req', m)) = Cardinality(Held(req, m)) + Cardinality(OfMode(M, req, m))
    BY <2>2, <2>3, SubsetsOfLockers, LockersJoined
  <2>5. /\ head'.granted[m] = head.granted[m] + Cardinality(OfMode(M, req, m))
        /\ head'.conflict = head.conflict
    BY <1>1, <1>2 DEF HeadType
  <2>6. /\ head.granted[m] = Cardinality(Held(req, m)) + Cardinality(Sought(req, m))
        /\ head.conflict[m] = Cardinality(Queued(req, m))
    BY <1>2 DEF Counted
  <2>7. /\ Cardinality(Held(req, m)) \in Nat /\ Cardinality(Sought(req, m)) \in Nat
        /\ Cardinality(OfMode(M, req, m)) \in Nat
    BY <2>3, SubsetsOfLockers, LockersFinite
  <2>8. head'.conflict[m] = Cardinality(Queued(req', m))
    BY <2>1, <2>5, <2>6
  <2>9. Cardinality(Sought(req', m)) = Cardinality(Sought(req, m))
    BY <2>1
  <2>10. head'.granted[m] = Cardinality(Held(req', m)) + Cardinality(Sought(req', m))
    BY <2>4, <2>5, <2>6, <2>7, <2>9
  <2> QED BY <2>8, <2>10
<1>10. head'.conversions = head.conversions /\ head'.before = head.before
  BY <1>1, <1>2 DEF HeadType
<1>11. Counted(head', req')
  <2>1. head'.conversions = Cardinality(Converting(req'))
    BY <1>2, <1>7, <1>10 DEF Counted
  <2> QED BY <1>9, <2>1 DEF Counted
<1>12. Compatible(req')
  BY <1>2, <1>5 DEF Compatible
<1>13. Ordered(head'.before, Waiting(req'))
  BY <1>2, <1>7, <1>10
<1>14. Apart(partitions', req')
  <2> SUFFICES ASSUME NEW l \in Locker
               PROVE  /\ req'[l].place = "partition" => PartitionOf[l] \in partitions \ {p}
                      /\ req'[l].status # "WAITING"
                      /\ l \in OnHead(req') => req'[l].mode \in Intent
                      /\ req'[l].status = "CONVERTING" => req'[l].convertMode \in Intent
    BY <1>1 DEF Apart
  <2>1. /\ req[l].place = "partition" => PartitionOf[l] \in partitions
        /\ req[l].status # "WAITING"
        /\ l \in OnHead(req) => req[l].mode \in Intent
        /\ req[l].status = "CONVERTING" => req[l].convertMode \in Intent
    BY <1>2 DEF Apart
  <2>2. req'[l].place = "partition" => PartitionOf[l] \in partitions \ {p}
    BY <1>3, <1>5, <2>1
  <2> QED BY <1>4, <1>5, <1>8, <2>1, <2>2
<1>15. ClashesKept(req, req')
  BY <1>5, <1>8 DEF ClashesKept, HasMode
<1>16. WaitersBlocked(head', req')
  <2>1. \A l \in Waiting(req) : req'[l].mode = req[l].mode /\ req'[l].compatibleFirst = req[l].compatibleFirst
    BY <1>5, SubsetsOfLockers
  <2> QED BY <1>2, <1>6, <1>7, <1>10, <1>11, <1>15, <2>1, WaitersKept
<1>17. ConvertersBlocked(head', req')
  <2>1. \A l \in Converting(req') : l \in Converting(req) /\ req'[l].convertMode = req[l].convertMode
    BY <1>5, <1>7, SubsetsOfLockers
  <2> QED BY <1>2, <1>6, <1>11, <1>15, <2>1, ConvertersKept
<1>18. head' \in HeadType
  <2>1. head' = [granted |-> head'.granted, conflict |-> head'.conflict,
                 conversions |-> head'.conversions,
                 compatibleFirst |-> head'.compatibleFirst, before |-> head'.before]
    BY <1>1, <1>2 DEF HeadType
  <2>2. /\ head'.granted = [m \in Mode |-> head'.granted[m]]
        /\ head'.conflict = [m \in Mode |-> head'.conflict[m]]
    BY <1>1, <1>2 DEF HeadType
  <2>3. head'.compatibleFirst \in Int
    <3>1. head'.compatibleFirst = head.compatibleFirst + Cardinality({l \in M : req[l].compatibleFirst})
      BY <1>1, <1>2 DEF HeadType, CompatibleFirstAdded
    <3>2. {l \in M : req[l].compatibleFirst} \subseteq Locker
      BY <1>3
    <3>3. Cardinality({l \in M : req[l].compatibleFirst}) \in Nat
      BY <3>2, LockersFinite
    <3> QED BY <1>2, <3>1, <3>3
  <2> QED BY <1>2, <1>10, <1>11, <2>1, <2>2, <2>3, CountedTyped
<1>19. TypesInv'
  BY <1>1, <1>2, <1>6, <1>18 DEF LockInv, TypesInv, RequestsShaped, threadVars
<1>20. ThreadsShaped'
  <2>1. ASSUME NEW l \in Locker
        PROVE  ThreadShaped(req'[l], pc[l], want[l], scope[l], pending[l], notified[l])
    <3>1. ThreadShaped(req[l], pc[l], want[l], scope[l], pending[l], notified[l])
      BY DEF LockInv, ThreadsShaped
    <3>2. req[l].place = "head" => req'[l].place = "head"
      BY <1>5
    <3> QED BY <1>5, <3>1, <3>2 DEF ThreadShaped
  <2> QED BY <1>1, <2>1 DEF ThreadsShaped, threadVars
<1>21. NoneLost(head', req')
  BY <1>16, <1>17, NoneLostParts
<1> QED BY <1>6, <1>11, <1>12, <1>13, <1>14, <1>19, <1>20, <1>21, NextLockInv

--------------------
(* The steps that give something back and call _onLockModeChanged.          *)

(* The releases: a step that makes one request weaker and then calls        *)
(* _onLockModeChanged.                                                      *)
LEMMA ReleaseStep ==
  ASSUME LockInv, NEW l \in Locker, NEW h, NEW r, NEW b \in BOOLEAN,
         RequestsShaped(r), \A k \in Locker \ {l} : r[k] = req[k],
         Counted(h, r), h.compatibleFirst \in Int, Ordered(h.before, Waiting(r)),
         Compatible(r), Apart(partitions, r), b \/ WaitersBlocked(h, r),
         OnLockModeChanged(h, r, b),
         UNCHANGED <<partitions, bucket, want, wuow, pending>>,
         pc' \in [Locker -> {"idle", "lock", "convert", "wait", "undo", "unlock"}],
         scope' \in [Locker -> Seq(Mode)],
         \A k \in Locker \ {l} : pc'[k] = pc[k] /\ scope'[k] = scope[k],
         ThreadShaped(r[l], pc'[l], want[l], scope'[l], pending[l], notified[l])
  PROVE  LockInv'
<1>1. h.before \subseteq Locker \X Locker
  <2>1. h.before \subseteq Waiting(r) \X Waiting(r)
    BY DEF Ordered
  <2>2. Waiting(r) \subseteq Locker
    BY DEF Waiting
  <2> QED BY <2>1, <2>2
<1>2. /\ head' \in HeadType
      /\ RequestsShaped(req') /\ Counted(head', req') /\ Compatible(req')
      /\ Ordered(head'.before, Waiting(req')) /\ Apart(partitions, req')
      /\ NoneLost(head', req')
  BY <1>1, ModeChangeShared
<1>3. notified \in [Locker -> BOOLEAN] /\ scope \in [Locker -> Seq(Mode)]
  BY DEF LockInv, TypesInv
<1>4. notified' \in [Locker -> BOOLEAN]
  <2>1. PICK G : notified' = [k \in Locker |-> notified[k] \/ k \in ConversionsGranted(h, r) \cup G]
    BY ModeChangedBy
  <2> QED BY <1>3, <2>1
<1>5. TypesInv'
  BY <1>2, <1>4 DEF LockInv, TypesInv, RequestsShaped
<1>6. ASSUME NEW k \in Locker
      PROVE  ThreadShaped(req'[k], pc'[k], want'[k], scope'[k], pending'[k], notified'[k])
  <2>1. ThreadShaped(r[k], pc'[k], want[k], scope'[k], pending[k], notified[k])
    <3>1. CASE k = l
      BY <3>1
    <3>2. CASE k # l
      BY <3>2 DEF LockInv, ThreadsShaped
    <3> QED BY <3>1, <3>2
  <2>2. scope'[k] \in Seq(Mode) /\ notified[k] \in BOOLEAN
    BY <1>3
  <2>3. ThreadShaped(req'[k], pc'[k], want[k], scope'[k], pending[k], notified'[k])
    BY <2>1, <2>2, ModeChangeThread
  <2> QED BY <2>3
<1>7. ThreadsShaped'
  BY <1>6 DEF ThreadsShaped
<1> QED BY <1>2, <1>5, <1>7, NextLockInv

(* A locker that holds less than before.                                    *)
LEMMA OneWeaker ==
  ASSUME NEW r, NEW r2, NEW l \in Locker, NEW parts, RequestsShaped(r), RequestsShaped(r2),
         \A k \in Locker \ {l} : r2[k] = r[k], Compatible(r), Apart(parts, r),
         r2[l].status \in {"NONE", "GRANTED"},
         r2[l].status = "GRANTED" =>
           /\ r[l].status \in {"GRANTED", "CONVERTING"} /\ IsModeCovered(r2[l].mode, r[l].mode)
           /\ r[l].place = "head" /\ r2[l].place = "head"
  PROVE  Compatible(r2) /\ Apart(parts, r2)
<1>1. r2[l].status = "GRANTED" => r2[l].mode \in Mode /\ r[l].mode \in Mode
  BY DEF RequestsShaped, Shaped
<1>2. ASSUME NEW k \in Locker, k # l, r[k].status \in {"GRANTED", "CONVERTING"}, r2[l].status = "GRANTED"
      PROVE  ~Clash(r2[l].mode, r[k].mode) /\ ~Clash(r[k].mode, r2[l].mode)
  <2>1. ~Clash(r[l].mode, r[k].mode)
    BY <1>2 DEF Compatible, Clash
  <2>2. r[k].mode \in Mode
    BY <1>2 DEF RequestsShaped, Shaped
  <2> QED BY <1>1, <1>2, <2>1, <2>2, Clashes, CoveredClash
<1>3. Compatible(r2)
  BY <1>2 DEF Compatible, Clash
<1>4. ASSUME NEW k \in Locker
      PROVE  /\ r2[k].place = "partition" => PartitionOf[k] \in parts
             /\ parts # {} =>
                  /\ r2[k].status # "WAITING"
                  /\ k \in OnHead(r2) => r2[k].mode \in Intent
                  /\ r2[k].status = "CONVERTING" => r2[k].convertMode \in Intent
  <2>1. CASE k # l
    BY <2>1 DEF Apart, OnHead
  <2>2. CASE k = l
    <3>1. r2[l].place # "partition"
      BY DEF RequestsShaped, Shaped
    <3>2. parts # {} /\ l \in OnHead(r2) => r2[l].mode \in Intent
      <4> SUFFICES ASSUME parts # {}, l \in OnHead(r2)
                   PROVE  r2[l].mode \in Intent
        OBVIOUS
      <4>1. r2[l].status = "GRANTED"
        BY DEF OnHead
      <4>2. l \in OnHead(r)
        BY <4>1, Member
      <4>3. r[l].mode \in Intent
        BY <4>2 DEF Apart
      <4> QED BY <1>1, <4>1, <4>3, Clashes
    <3> QED BY <2>2, <3>1, <3>2
  <2> QED BY <2>1, <2>2
<1>5. Apart(parts, r2)
  BY <1>4 DEF Apart
<1> QED BY <1>3, <1>5

(* A request is taken off the conflict list.                                *)
LEMMA OrderedShorter ==
  ASSUME NEW before, NEW W, Ordered(before, W), NEW l
  PROVE  Ordered({x \in before : x[1] # l /\ x[2] # l}, W \ {l})
<1> DEFINE b2 == {x \in before : x[1] # l /\ x[2] # l}
<1>1. \A j, k : <<j, k>> \in b2 <=> <<j, k>> \in before /\ j # l /\ k # l
  OBVIOUS
<1>2. b2 \subseteq (W \ {l}) \X (W \ {l})
  <2> SUFFICES ASSUME NEW x \in b2
               PROVE  x \in (W \ {l}) \X (W \ {l})
    OBVIOUS
  <2>1. x \in W \X W /\ x[1] # l /\ x[2] # l
    BY DEF Ordered
  <2> QED BY <2>1
<1> HIDE DEF b2
<1>3. Ordered(b2, W \ {l})
  BY <1>1, <1>2 DEF Ordered
<1> QED BY <1>3 DEF b2

(* No request.                                                              *)
LEMMA NoRequestShaped ==
  /\ NoRequest \in LockRequest /\ Shaped(NoRequest)
  /\ NoRequest.status = "NONE" /\ NoRequest.place = "none" /\ NoRequest.count = 0
  BY DEF NoRequest, LockRequest, Shaped

(* The conflict list changes for l only.                                    *)
LEMMA SameWaiting ==
  ASSUME NEW r, NEW r2, NEW l \in Locker, \A k \in Locker \ {l} : r2[k] = r[k],
         l \notin Waiting(r), l \notin Waiting(r2)
  PROVE  Waiting(r2) = Waiting(r)
<1>1. ASSUME NEW k \in Locker
      PROVE  r2[k].status = "WAITING" <=> r[k].status = "WAITING"
  <2>1. CASE k = l
    BY <2>1 DEF Waiting
  <2>2. CASE k # l
    BY <2>2
  <2> QED BY <2>1, <2>2
<1> QED BY <1>1 DEF Waiting

(* The thread is done and its request is gone.                              *)
LEMMA NothingLeft ==
  ASSUME NEW q, NEW w, NEW sc \in Seq(Mode), NEW pd \in Nat, NEW nt,
         ThreadShaped(q, "unlock", w, sc, pd, nt), q.count = 0
  PROVE  \A x, y : ThreadShaped(NoRequest, "idle", x, sc, pd, y)
<1>0. Len(sc) \in Nat
  OBVIOUS
<1>1. Len(sc) + pd = 0
  BY <1>0, ThreadUnlock
<1>2. pd = 0 /\ Len(sc) = 0
  BY <1>0, <1>1
<1>3. sc = <<>>
  BY <1>2
<1> QED BY <1>2, <1>3, NoRequestShaped DEF ThreadShaped

(* A granted request is taken off the granted list.                         *)
LEMMA UnlockGrantedInv ==
  ASSUME LockInv, NEW l \in Locker, UnlockGranted(l)
  PROVE  LockInv'
<1> DEFINE m == req[l].mode
           h == [head EXCEPT !.granted[m] = @ - 1,
                             !.compatibleFirst = @ - (IF req[l].compatibleFirst THEN 1 ELSE 0)]
           r == [req EXCEPT ![l] = NoRequest]
           b == h.granted[m] = 0
<1>1. /\ pc[l] = "unlock" /\ req[l].status = "GRANTED" /\ req[l].count = 0
      /\ OnLockModeChanged(h, r, b)
      /\ pc' = [pc EXCEPT ![l] = "idle"]
      /\ UNCHANGED <<partitions, bucket, want, scope, wuow, pending>>
  BY DEF UnlockGranted, Goto
<1>2. /\ ThreadTypes /\ scope[l] \in Seq(Mode) /\ Len(scope[l]) \in Nat /\ pending[l] \in Nat
      /\ ThreadShaped(req[l], pc[l], want[l], scope[l], pending[l], notified[l]) /\ Shaped(req[l])
      /\ req[l] \in LockRequest
  BY InvThread
<1>3. /\ head \in HeadType /\ Counted(head, req) /\ Compatible(req) /\ Apart(partitions, req)
      /\ Ordered(head.before, Waiting(req)) /\ RequestsShaped(req)
      /\ WaitersBlocked(head, req) /\ req \in [Locker -> LockRequest]
      /\ \A x \in Mode : head.granted[x] \in Nat /\ head.conflict[x] \in Nat
      /\ head.conversions \in Nat /\ head.compatibleFirst \in Int
  BY InvHead
<1>4. m \in Mode /\ req[l].place = "head"
  BY <1>1, <1>2 DEF Shaped, ThreadShaped
<1>5. /\ h.granted = [head.granted EXCEPT ![m] = @ - 1] /\ h.conflict = head.conflict
      /\ h.conversions = head.conversions /\ h.before = head.before
      /\ h.compatibleFirst \in Int
  BY <1>3 DEF HeadType
<1>6. \A x \in Mode : h.granted[x] = IF x = m THEN head.granted[x] - 1 ELSE head.granted[x]
  BY <1>3, <1>4, <1>5 DEF HeadType
<1>7. b \in BOOLEAN /\ (b <=> h.granted[m] = 0)
  OBVIOUS
<1>8. /\ r \in [Locker -> LockRequest] /\ r[l] = NoRequest
      /\ \A k \in Locker \ {l} : r[k] = req[k]
  BY <1>3, NoRequestShaped
<1>9. req[l].mode = m
  OBVIOUS
<1> HIDE DEF b, h, r, m
<1>10. RequestsShaped(r)
  BY <1>3, <1>8, NoRequestShaped DEF RequestsShaped
<1>11. Compatible(r) /\ Apart(partitions, r)
  BY <1>3, <1>8, <1>10, NoRequestShaped, OneWeaker
<1>12. /\ l \notin Converting(req) /\ l \notin Waiting(req)
       /\ \A x : (l \in Held(req, x) <=> x = m) /\ l \notin Sought(req, x) /\ l \notin Queued(req, x)
  BY <1>1, <1>4, <1>9, Member
<1>13. /\ l \notin Converting(r) /\ l \notin Waiting(r)
       /\ \A x : l \notin Held(r, x) /\ l \notin Sought(r, x) /\ l \notin Queued(r, x)
  BY <1>8, NoRequestShaped, Member
<1>14. Counted(h, r)
  <2>1. \A x \in Mode :
          /\ h.granted[x] = head.granted[x] - In(l, Held(req, x)) - In(l, Sought(req, x))
                                            + In(l, Held(r, x)) + In(l, Sought(r, x))
          /\ h.conflict[x] = head.conflict[x] - In(l, Queued(req, x)) + In(l, Queued(r, x))
    BY <1>3, <1>5, <1>6, <1>12, <1>13 DEF In
  <2>2. h.conversions = head.conversions - In(l, Converting(req)) + In(l, Converting(r))
    BY <1>3, <1>5, <1>12, <1>13 DEF In
  <2> QED BY <1>3, <1>8, <2>1, <2>2, OneCounted
<1>15. Waiting(r) = Waiting(req)
  BY <1>8, <1>12, <1>13, SameWaiting
<1>16. ASSUME ~b
       PROVE  WaitersBlocked(h, r)
  <2>1. GrantedModes(h) = GrantedModes(head)
    <3>1. ASSUME NEW x \in Mode
          PROVE  h.granted[x] > 0 <=> head.granted[x] > 0
      <4>1. /\ head.granted[x] \in Nat /\ h.granted[m] # 0 /\ head.granted[m] \in Nat
            /\ h.granted[x] = IF x = m THEN head.granted[x] - 1 ELSE head.granted[x]
        BY <1>3, <1>4, <1>6, <1>7, <1>16
      <4>2. h.granted[x] \in Nat
        <5>1. /\ Cardinality(Held(r, x)) \in Nat /\ Cardinality(Sought(r, x)) \in Nat
          BY SubsetsOfLockers, LockersFinite
        <5>2. h.granted[x] = Cardinality(Held(r, x)) + Cardinality(Sought(r, x))
          BY <1>14 DEF Counted
        <5> QED BY <5>1, <5>2
      <4> QED BY <4>1, <4>2
    <3> QED BY <3>1 DEF GrantedModes
  <2>2. ConflictModes(h) = ConflictModes(head)
    BY <1>5 DEF ConflictModes
  <2>3. \A k \in Waiting(req) : r[k] = req[k]
    BY <1>8, <1>12, SubsetsOfLockers
  <2> QED BY <1>3, <1>5, <1>15, <2>1, <2>2, <2>3 DEF WaitersBlocked
<1>17. Ordered(h.before, Waiting(r))
  BY <1>3, <1>5, <1>15
<1>18. /\ pc' \in [Locker -> {"idle", "lock", "convert", "wait", "undo", "unlock"}]
       /\ scope' \in [Locker -> Seq(Mode)] /\ pc'[l] = "idle" /\ scope'[l] = scope[l]
       /\ \A k \in Locker \ {l} : pc'[k] = pc[k] /\ scope'[k] = scope[k]
  BY <1>1, <1>2 DEF ThreadTypes
<1>19. ThreadShaped(r[l], pc'[l], want[l], scope'[l], pending[l], notified[l])
  BY <1>1, <1>2, <1>8, <1>18, NothingLeft
<1>20. UNCHANGED <<partitions, bucket, want, wuow, pending>> /\ OnLockModeChanged(h, r, b)
  BY <1>1
<1> QED BY <1>5, <1>7, <1>8, <1>10, <1>11, <1>14, <1>16, <1>17, <1>18, <1>19, <1>20, ReleaseStep

(* A request that timed out is taken off the conflict list.                 *)
LEMMA CancelWaitingInv ==
  ASSUME LockInv, NEW l \in Locker, CancelWaiting(l)
  PROVE  LockInv'
<1> DEFINE m == req[l].mode
           h == [head EXCEPT !.conflict[m] = @ - 1,
                             !.before = {b \in @ : b[1] # l /\ b[2] # l}]
           r == [req EXCEPT ![l] = NoRequest]
<1>1. /\ pc[l] = "unlock" /\ req[l].status = "WAITING"
      /\ OnLockModeChanged(h, r, TRUE)
      /\ pc' = [pc EXCEPT ![l] = "idle"]
      /\ UNCHANGED <<partitions, bucket, want, scope, wuow, pending>>
  BY DEF CancelWaiting, Goto
<1>2. /\ ThreadTypes /\ scope[l] \in Seq(Mode) /\ Len(scope[l]) \in Nat /\ pending[l] \in Nat
      /\ ThreadShaped(req[l], pc[l], want[l], scope[l], pending[l], notified[l]) /\ Shaped(req[l])
      /\ req[l] \in LockRequest
  BY InvThread
<1>3. /\ head \in HeadType /\ Counted(head, req) /\ Compatible(req) /\ Apart(partitions, req)
      /\ Ordered(head.before, Waiting(req)) /\ RequestsShaped(req)
      /\ req \in [Locker -> LockRequest]
      /\ \A x \in Mode : head.granted[x] \in Nat /\ head.conflict[x] \in Nat
      /\ head.conversions \in Nat /\ head.compatibleFirst \in Int
  BY InvHead
<1>4. m \in Mode /\ req[l].place = "head"
  BY <1>1, <1>2 DEF Shaped
<1>5. /\ h.granted = head.granted /\ h.conflict = [head.conflict EXCEPT ![m] = @ - 1]
      /\ h.conversions = head.conversions /\ h.before = {b \in head.before : b[1] # l /\ b[2] # l}
      /\ h.compatibleFirst \in Int
  BY <1>3 DEF HeadType
<1>6. \A x \in Mode : h.conflict[x] = IF x = m THEN head.conflict[x] - 1 ELSE head.conflict[x]
  BY <1>3, <1>4, <1>5 DEF HeadType
<1>8. /\ r \in [Locker -> LockRequest] /\ r[l] = NoRequest
      /\ \A k \in Locker \ {l} : r[k] = req[k]
  BY <1>3, NoRequestShaped
<1>9. req[l].mode = m
  OBVIOUS
<1> HIDE DEF h, r, m
<1>10. RequestsShaped(r)
  BY <1>3, <1>8, NoRequestShaped DEF RequestsShaped
<1>11. Compatible(r) /\ Apart(partitions, r)
  BY <1>3, <1>8, <1>10, NoRequestShaped, OneWeaker
<1>12. /\ l \notin Converting(req) /\ l \in Waiting(req)
       /\ \A x : (l \in Queued(req, x) <=> x = m) /\ l \notin Sought(req, x) /\ l \notin Held(req, x)
  BY <1>1, <1>4, <1>9, Member
<1>13. /\ l \notin Converting(r) /\ l \notin Waiting(r)
       /\ \A x : l \notin Held(r, x) /\ l \notin Sought(r, x) /\ l \notin Queued(r, x)
  BY <1>8, NoRequestShaped, Member
<1>14. Counted(h, r)
  <2>1. \A x \in Mode :
          /\ h.granted[x] = head.granted[x] - In(l, Held(req, x)) - In(l, Sought(req, x))
                                            + In(l, Held(r, x)) + In(l, Sought(r, x))
          /\ h.conflict[x] = head.conflict[x] - In(l, Queued(req, x)) + In(l, Queued(r, x))
    BY <1>3, <1>5, <1>6, <1>12, <1>13 DEF In
  <2>2. h.conversions = head.conversions - In(l, Converting(req)) + In(l, Converting(r))
    BY <1>3, <1>5, <1>12, <1>13 DEF In
  <2> QED BY <1>3, <1>8, <2>1, <2>2, OneCounted
<1>15. Waiting(r) = Waiting(req) \ {l}
  <2>1. \A k \in Locker \ {l} : k \in Waiting(r) <=> k \in Waiting(req)
    BY <1>8, OthersListed
  <2>2. Waiting(r) \subseteq Locker /\ Waiting(req) \subseteq Locker
    BY DEF Waiting
  <2> QED BY <1>12, <1>13, <2>1, <2>2
<1>17. Ordered(h.before, Waiting(r))
  <2>1. Ordered({b \in head.before : b[1] # l /\ b[2] # l}, Waiting(req) \ {l})
    BY <1>3, OrderedShorter, Zenon
  <2> QED BY <1>5, <1>15, <2>1
<1>18. /\ pc' \in [Locker -> {"idle", "lock", "convert", "wait", "undo", "unlock"}]
       /\ scope' \in [Locker -> Seq(Mode)] /\ pc'[l] = "idle" /\ scope'[l] = scope[l]
       /\ \A k \in Locker \ {l} : pc'[k] = pc[k] /\ scope'[k] = scope[k]
  BY <1>1, <1>2 DEF ThreadTypes
<1>21. req[l].count = 0
  <2>1. scope[l] = <<>> /\ pending[l] = 0 /\ req[l].count = Len(scope[l]) + pending[l]
    BY <1>1, <1>2 DEF ThreadShaped
  <2> QED BY <2>1
<1>19. ThreadShaped(r[l], pc'[l], want[l], scope'[l], pending[l], notified[l])
  BY <1>1, <1>2, <1>8, <1>18, <1>21, NothingLeft
<1>20. UNCHANGED <<partitions, bucket, want, wuow, pending>> /\ OnLockModeChanged(h, r, TRUE)
  BY <1>1
<1> QED BY <1>5, <1>8, <1>10, <1>11, <1>14, <1>17, <1>18, <1>19, <1>20, ReleaseStep

(* A conversion that timed out goes back to the mode it had.                *)
LEMMA CancelConversionInv ==
  ASSUME LockInv, NEW l \in Locker, CancelConversion(l)
  PROVE  LockInv'
<1> DEFINE o == req[l].mode
           c == req[l].convertMode
           h == [head EXCEPT !.conversions = @ - 1, !.granted[c] = @ - 1]
           q == [req[l] EXCEPT !.status = "GRANTED", !.convertMode = "NONE"]
           r == [req EXCEPT ![l] = q]
<1>2. /\ ThreadTypes /\ scope[l] \in Seq(Mode) /\ Len(scope[l]) \in Nat /\ pending[l] \in Nat
      /\ ThreadShaped(req[l], pc[l], want[l], scope[l], pending[l], notified[l]) /\ Shaped(req[l])
      /\ req[l] \in LockRequest
  BY InvThread
<1>3. /\ head \in HeadType /\ Counted(head, req) /\ Compatible(req) /\ Apart(partitions, req)
      /\ Ordered(head.before, Waiting(req)) /\ RequestsShaped(req)
      /\ req \in [Locker -> LockRequest]
      /\ \A x \in Mode : head.granted[x] \in Nat /\ head.conflict[x] \in Nat
      /\ head.conversions \in Nat /\ head.compatibleFirst \in Int
  BY InvHead
<1>1. /\ pc[l] = "unlock" /\ req[l].status = "CONVERTING"
      /\ OnLockModeChanged(h, r, TRUE)
      /\ pc' = [pc EXCEPT ![l] = "idle"]
      /\ UNCHANGED <<partitions, bucket, want, scope, wuow, pending>>
  <2>1. r = [req EXCEPT ![l].status = "GRANTED", ![l].convertMode = "NONE"]
    BY <1>3
  <2> QED BY <2>1 DEF CancelConversion, Goto
<1>4. o \in Mode /\ c \in Mode /\ c # o /\ req[l].place = "head"
  BY <1>1, <1>2 DEF Shaped
<1>5. /\ h.granted = [head.granted EXCEPT ![c] = @ - 1] /\ h.conflict = head.conflict
      /\ h.conversions = head.conversions - 1 /\ h.before = head.before
      /\ h.compatibleFirst \in Int
  BY <1>3 DEF HeadType
<1>6. \A x \in Mode : h.granted[x] = IF x = c THEN head.granted[x] - 1 ELSE head.granted[x]
  BY <1>3, <1>4, <1>5 DEF HeadType
<1>7. /\ q \in LockRequest /\ q.status = "GRANTED" /\ q.mode = o /\ q.convertMode = "NONE"
      /\ q.count = req[l].count /\ q.place = "head"
  BY <1>2, <1>4 DEF LockRequest
<1>9. req[l].mode = o /\ req[l].convertMode = c
  OBVIOUS
<1> HIDE DEF q
<1>8. /\ r \in [Locker -> LockRequest] /\ r[l] = q
      /\ \A k \in Locker \ {l} : r[k] = req[k]
  BY <1>3, <1>7
<1> HIDE DEF h, r, o, c
<1>21. Shaped(q)
  BY <1>4, <1>7 DEF Shaped
<1>10. RequestsShaped(r)
  BY <1>3, <1>8, <1>21 DEF RequestsShaped
<1>11. Compatible(r) /\ Apart(partitions, r)
  <2>1. /\ req[l].status \in {"GRANTED", "CONVERTING"} /\ IsModeCovered(r[l].mode, req[l].mode)
        /\ req[l].place = "head" /\ r[l].place = "head" /\ r[l].status \in {"NONE", "GRANTED"}
    BY <1>1, <1>4, <1>7, <1>8, <1>9, Clashes
  <2> QED BY <1>3, <1>8, <1>10, <2>1, OneWeaker
<1>12. /\ l \in Converting(req) /\ l \notin Waiting(req)
       /\ \A x : (l \in Held(req, x) <=> x = o) /\ (l \in Sought(req, x) <=> x = c) /\ l \notin Queued(req, x)
  BY <1>1, <1>4, <1>9, Member
<1>13. /\ l \notin Converting(r) /\ l \notin Waiting(r)
       /\ \A x : (l \in Held(r, x) <=> x = o) /\ l \notin Sought(r, x) /\ l \notin Queued(r, x)
  BY <1>7, <1>8, Member
<1>14. Counted(h, r)
  <2>1. \A x \in Mode :
          /\ h.granted[x] = head.granted[x] - In(l, Held(req, x)) - In(l, Sought(req, x))
                                            + In(l, Held(r, x)) + In(l, Sought(r, x))
          /\ h.conflict[x] = head.conflict[x] - In(l, Queued(req, x)) + In(l, Queued(r, x))
    BY <1>3, <1>4, <1>5, <1>6, <1>12, <1>13 DEF In
  <2>2. h.conversions = head.conversions - In(l, Converting(req)) + In(l, Converting(r))
    BY <1>3, <1>5, <1>12, <1>13 DEF In
  <2> QED BY <1>3, <1>8, <2>1, <2>2, OneCounted
<1>15. Waiting(r) = Waiting(req)
  BY <1>8, <1>12, <1>13, SameWaiting
<1>17. Ordered(h.before, Waiting(r))
  BY <1>3, <1>5, <1>15
<1>18. /\ pc' \in [Locker -> {"idle", "lock", "convert", "wait", "undo", "unlock"}]
       /\ scope' \in [Locker -> Seq(Mode)] /\ pc'[l] = "idle" /\ scope'[l] = scope[l]
       /\ \A k \in Locker \ {l} : pc'[k] = pc[k] /\ scope'[k] = scope[k]
  BY <1>1, <1>2 DEF ThreadTypes
<1>22. Len(scope[l]) + pending[l] \in Int
  BY <1>2
<1>23. /\ Len(scope[l]) + pending[l] > 0 /\ req[l].count = Len(scope[l]) + pending[l]
       /\ \A i \in 1..Len(scope[l]) : IsModeCovered(scope[l][i], req[l].mode)
  BY <1>1, <1>2, <1>22, ThreadUnlock
<1>24. ThreadShaped(q, "idle", want[l], scope[l], pending[l], notified[l])
  BY <1>7, <1>9, <1>22, <1>23, ThreadIdle
<1>19. ThreadShaped(r[l], pc'[l], want[l], scope'[l], pending[l], notified[l])
  BY <1>8, <1>18, <1>24
<1>20. UNCHANGED <<partitions, bucket, want, wuow, pending>> /\ OnLockModeChanged(h, r, TRUE)
  BY <1>1
<1> QED BY <1>5, <1>8, <1>10, <1>11, <1>14, <1>17, <1>18, <1>19, <1>20, ReleaseStep

(* A granted request is made weaker.                                        *)
LEMMA DowngradeInv ==
  ASSUME LockInv, NEW l \in Locker, NEW m \in Mode, Downgrade(l, m)
  PROVE  LockInv'
<1> DEFINE o == req[l].mode
           h == [head EXCEPT !.granted = ModeChanged(@, o, m)]
           q == [req[l] EXCEPT !.mode = m]
           r == [req EXCEPT ![l] = q]
           s == <<m>>
<1>2. /\ ThreadTypes /\ scope[l] \in Seq(Mode) /\ Len(scope[l]) \in Nat /\ pending[l] \in Nat
      /\ ThreadShaped(req[l], pc[l], want[l], scope[l], pending[l], notified[l]) /\ Shaped(req[l])
      /\ req[l] \in LockRequest
  BY InvThread
<1>3. /\ head \in HeadType /\ Counted(head, req) /\ Compatible(req) /\ Apart(partitions, req)
      /\ Ordered(head.before, Waiting(req)) /\ RequestsShaped(req)
      /\ req \in [Locker -> LockRequest]
      /\ \A x \in Mode : head.granted[x] \in Nat /\ head.conflict[x] \in Nat
      /\ head.conversions \in Nat /\ head.compatibleFirst \in Int
  BY InvHead
<1>1. /\ pc[l] = "idle" /\ req[l].status = "GRANTED" /\ req[l].place = "head"
      /\ Len(scope[l]) = 1 /\ m # o /\ IsModeCovered(m, o)
      /\ OnLockModeChanged(h, r, TRUE)
      /\ scope' = [scope EXCEPT ![l] = s]
      /\ UNCHANGED <<partitions, bucket, pc, want, wuow, pending>>
  <2>1. r = [req EXCEPT ![l].mode = m]
    BY <1>3
  <2> QED BY <2>1 DEF Downgrade, MayBegin
<1>4. o \in Mode
  BY <1>1, <1>2 DEF Shaped
<1>5. /\ h.granted = ModeChanged(head.granted, o, m) /\ h.conflict = head.conflict
      /\ h.conversions = head.conversions /\ h.before = head.before
      /\ h.compatibleFirst \in Int
  BY <1>3 DEF HeadType
<1>6. \A x \in Mode : h.granted[x] =
        IF x = o THEN head.granted[x] - 1 ELSE IF x = m THEN head.granted[x] + 1 ELSE head.granted[x]
  <2>1. m # o /\ \A x \in Mode : head.granted[x] \in Nat
    BY <1>1, <1>3
  <2> HIDE DEF o, h
  <2> QED BY <1>4, <1>5, <2>1, ModeChangedAt
<1>7. /\ q \in LockRequest /\ q.status = "GRANTED" /\ q.mode = m /\ q.convertMode = req[l].convertMode
      /\ q.count = req[l].count /\ q.place = "head"
  BY <1>1, <1>2 DEF LockRequest
<1>9. req[l].mode = o
  OBVIOUS
<1>25. s \in Seq(Mode) /\ Len(s) = 1 /\ s[1] = m
  OBVIOUS
<1> HIDE DEF q, s
<1>8. /\ r \in [Locker -> LockRequest] /\ r[l] = q
      /\ \A k \in Locker \ {l} : r[k] = req[k]
  BY <1>3, <1>7
<1> HIDE DEF h, r, o
<1>21. Shaped(q)
  BY <1>1, <1>2, <1>7 DEF Shaped
<1>10. RequestsShaped(r)
  BY <1>3, <1>8, <1>21 DEF RequestsShaped
<1>11. Compatible(r) /\ Apart(partitions, r)
  <2>1. /\ req[l].status \in {"GRANTED", "CONVERTING"} /\ IsModeCovered(r[l].mode, req[l].mode)
        /\ req[l].place = "head" /\ r[l].place = "head" /\ r[l].status \in {"NONE", "GRANTED"}
    BY <1>1, <1>7, <1>8, <1>9
  <2> QED BY <1>3, <1>8, <1>10, <2>1, OneWeaker
<1>12. /\ l \notin Converting(req) /\ l \notin Waiting(req)
       /\ \A x : (l \in Held(req, x) <=> x = o) /\ l \notin Sought(req, x) /\ l \notin Queued(req, x)
  BY <1>1, <1>9, Member
<1>13. /\ l \notin Converting(r) /\ l \notin Waiting(r)
       /\ \A x : (l \in Held(r, x) <=> x = m) /\ l \notin Sought(r, x) /\ l \notin Queued(r, x)
  BY <1>7, <1>8, Member
<1>14. Counted(h, r)
  <2>1. \A x \in Mode :
          /\ h.granted[x] = head.granted[x] - In(l, Held(req, x)) - In(l, Sought(req, x))
                                            + In(l, Held(r, x)) + In(l, Sought(r, x))
          /\ h.conflict[x] = head.conflict[x] - In(l, Queued(req, x)) + In(l, Queued(r, x))
    <3>1. m # o
      BY <1>1
    <3> QED BY <1>3, <1>5, <1>6, <1>12, <1>13, <3>1 DEF In
  <2>2. h.conversions = head.conversions - In(l, Converting(req)) + In(l, Converting(r))
    BY <1>3, <1>5, <1>12, <1>13 DEF In
  <2> QED BY <1>3, <1>8, <2>1, <2>2, OneCounted
<1>15. Waiting(r) = Waiting(req)
  BY <1>8, <1>12, <1>13, SameWaiting
<1>17. Ordered(h.before, Waiting(r))
  BY <1>3, <1>5, <1>15
<1>18. /\ pc' \in [Locker -> {"idle", "lock", "convert", "wait", "undo", "unlock"}]
       /\ scope' \in [Locker -> Seq(Mode)] /\ pc'[l] = "idle" /\ scope'[l] = s
       /\ \A k \in Locker \ {l} : pc'[k] = pc[k] /\ scope'[k] = scope[k]
  BY <1>1, <1>2, <1>25 DEF ThreadTypes
<1>22. Len(scope[l]) + pending[l] \in Int /\ Len(s) + pending[l] \in Int
       /\ Len(s) + pending[l] = Len(scope[l]) + pending[l] /\ Len(s) + pending[l] > 0
  BY <1>1, <1>2, <1>25
<1>23. req[l].count = Len(scope[l]) + pending[l]
  <2>1. ThreadShaped(req[l], "idle", want[l], scope[l], pending[l], notified[l])
    BY <1>1, <1>2
  <2> QED BY <1>22, <2>1, ThreadIdle
<1>26. \A i \in 1..Len(s) : IsModeCovered(s[i], m)
  BY <1>25, Clashes
<1>24. ThreadShaped(q, "idle", want[l], s, pending[l], notified[l])
  BY <1>7, <1>22, <1>23, <1>26, ThreadIdle
<1>19. ThreadShaped(r[l], pc'[l], want[l], scope'[l], pending[l], notified[l])
  BY <1>8, <1>18, <1>24
<1>20. UNCHANGED <<partitions, bucket, want, wuow, pending>> /\ OnLockModeChanged(h, r, TRUE)
  BY <1>1
<1> QED BY <1>5, <1>8, <1>10, <1>11, <1>14, <1>17, <1>18, <1>19, <1>20, ReleaseStep

--------------------
(* The invariant.                                                           *)

(* The initial state.                                                       *)
LEMMA InitInv == Init => LockInv
<1> SUFFICES ASSUME Init
             PROVE  LockInv
  OBVIOUS
<1>1. \A l \in Locker : req[l] = NoRequest
  BY DEF Init
<1>2. req \in [Locker -> LockRequest]
  BY NoRequestShaped DEF Init
<1>3. RequestsShaped(req)
  BY <1>1, <1>2, NoRequestShaped DEF RequestsShaped
<1>4. /\ Waiting(req) = {} /\ Converting(req) = {} /\ OnHead(req) = {}
  BY <1>1, NoRequestShaped DEF Waiting, Converting, OnHead
<1>5. \A m : Held(req, m) = {} /\ Sought(req, m) = {} /\ Queued(req, m) = {}
  BY <1>4 DEF Held, Sought, Queued, OfMode
<1>6. Cardinality({}) = 0
  BY FS_EmptySet
<1>7. /\ \A m \in Mode : head.granted[m] = 0 /\ head.conflict[m] = 0
      /\ head.conversions = 0 /\ head.compatibleFirst = 0 /\ head.before = {}
      /\ head \in HeadType
  BY DEF Init, EmptyHead, HeadType
<1>8. Counted(head, req)
  BY <1>4, <1>5, <1>6, <1>7 DEF Counted
<1>9. Compatible(req)
  BY <1>1, NoRequestShaped DEF Compatible
<1>10. Ordered(head.before, Waiting(req))
  BY <1>4, <1>7 DEF Ordered
<1>11. Apart(partitions, req)
  BY <1>1, NoRequestShaped DEF Apart, Init
<1>12. NoneLost(head, req)
  BY <1>4 DEF NoneLost
<1>13. TypesInv
  BY <1>2, <1>7 DEF TypesInv, Init
<1>14. ThreadsShaped
  <2> SUFFICES ASSUME NEW l \in Locker
               PROVE  ThreadShaped(NoRequest, "idle", "NONE", <<>>, 0, FALSE)
    BY <1>1 DEF ThreadsShaped, Init
  <2>1. Len(<<>>) = 0 /\ 1..Len(<<>>) = {}
    OBVIOUS
  <2> QED BY <2>1, NoRequestShaped DEF ThreadShaped
<1> QED BY <1>3, <1>8, <1>9, <1>10, <1>11, <1>12, <1>13, <1>14 DEF LockInv

(* Every step.                                                              *)
LEMMA NextInv == LockInv /\ [Next]_vars => LockInv'
<1> SUFFICES ASSUME LockInv, [Next]_vars
             PROVE  LockInv'
  OBVIOUS
<1>0. RequestModes \subseteq Mode
  BY LockAssumption
<1>1. CASE UNCHANGED vars
  BY <1>1 DEF vars, threadVars, LockInv, TypesInv, ThreadsShaped
<1>2. CASE Migration
  <2>1. CASE StartCleanup \/ EndCleanup
    <3>1. UNCHANGED <<req, head, partitions, notified, threadVars>>
          /\ bucket' \in {NoLocker, Cleaner}
      BY <2>1 DEF StartCleanup, EndCleanup
    <3> QED BY <3>1, BucketInv
  <2>2. ASSUME NEW p \in partitions, MigratePartition(p)
        PROVE  LockInv'
    BY <2>2, MigratePartitionInv
  <2> QED BY <1>2, <2>1, <2>2 DEF Migration
<1>3. ASSUME NEW l \in Locker, Acquire(l)
      PROVE  LockInv'
  <2>1. CASE StartMigration(l)
    <3>1. UNCHANGED <<req, head, partitions, notified, threadVars>> /\ bucket' = l
      BY <2>1 DEF StartMigration
    <3> QED BY <3>1, BucketInv
  <2> QED
    BY <1>0, <1>3, <2>1, LockStepInv, ReuseInv, RelockInv, StartPartitionInv, NewRequestInv,
       ConvertInv, WaitReturnsInv, WaitFailsInv DEF Acquire
<1>4. ASSUME NEW l \in Locker, Release(l)
      PROVE  LockInv'
  BY <1>0, <1>4, UnlockInv, UndoInv, UnlockPendingInv, UnlockNestedInv, UnlockGrantedInv,
     CancelWaitingInv, CancelConversionInv, DowngradeInv DEF Release
<1>5. ASSUME NEW l \in Locker, UnitOfWork(l)
      PROVE  LockInv'
  BY <1>5, UnitOfWorkInv DEF UnitOfWork
<1> QED BY <1>1, <1>2, <1>3, <1>4, <1>5 DEF Next

(* The inductive invariant holds in every reachable state: for any number   *)
(* of lockers and partitions, with partitions, conversions, timeouts and    *)
(* delayed unlocks, the lists, counters and threads of lock_manager.cpp and *)
(* lock_state.cpp agree.                                                    *)
THEOREM LockInvariance == Spec => []LockInv
<1>1. Init => LockInv
  BY InitInv
<1>2. LockInv /\ [Next]_vars => LockInv'
  BY NextInv
<1> QED BY <1>1, <1>2, PTL DEF Spec

(* The invariant implies what the runs check.                               *)
LEMMA InvGrantsCompatible == LockInv => GrantsCompatible
  BY DEF LockInv, Compatible, GrantsCompatible, Holders, Conflicts

LEMMA InvCountsMatch == LockInv => CountsMatch
  BY DEF LockInv, Counted, CountsMatch, Held, Sought, Queued

LEMMA InvPartitionedOnlyIntent == LockInv => PartitionedOnlyIntent
<1> SUFFICES ASSUME LockInv, partitions # {}
             PROVE  GrantedModes(head) \subseteq Intent /\ ConflictModes(head) = {}
  BY DEF PartitionedOnlyIntent
<1>1. RequestsShaped(req) /\ Counted(head, req) /\ Apart(partitions, req)
  BY DEF LockInv
<1>2. ASSUME NEW m \in GrantedModes(head)
      PROVE  m \in Intent
  <2>1. m \in Mode
    BY DEF GrantedModes
  <2>2. PICK l \in Locker : HasMode(req, l, m)
    BY <1>1, <2>1, GrantedIff
  <2>3. Shaped(req[l]) /\ l \in OnHead(req)
    BY <1>1, <2>2 DEF RequestsShaped, HasMode
  <2>4. CASE req[l].mode = m
    BY <1>1, <2>3, <2>4 DEF Apart
  <2>5. CASE req[l].convertMode = m
    <3>1. req[l].status = "CONVERTING"
      BY <2>1, <2>3, <2>5, ModeNotNone DEF Shaped
    <3> QED BY <1>1, <2>5, <3>1 DEF Apart
  <2> QED BY <2>2, <2>4, <2>5 DEF HasMode
<1>3. ASSUME NEW m \in ConflictModes(head)
      PROVE  FALSE
  <2>1. m \in Mode
    BY DEF ConflictModes
  <2>2. PICK l \in Waiting(req) : req[l].mode = m
    BY <1>1, <2>1, ConflictIff
  <2> QED BY <1>1, <2>2 DEF Apart, Waiting
<1> QED BY <1>2, <1>3

LEMMA InvNoLostGrant == LockInv => NoLostGrant
  BY DEF LockInv, NoneLost, NoLostGrant

LEMMA InvNotified == LockInv => NotifiedWhenGranted
  BY DEF LockInv, ThreadsShaped, ThreadShaped, NotifiedWhenGranted

LEMMA InvScopesHeld == LockInv => ScopesHeld
<1> SUFFICES ASSUME LockInv, NEW l \in Locker
             PROVE  /\ \A i \in 1..Len(scope[l]) :
                         l \in Holders /\ IsModeCovered(scope[l][i], req[l].mode)
                    /\ pc[l] = "idle" /\ scope[l] = <<>> /\ pending[l] = 0 => req[l] = NoRequest
  BY DEF ScopesHeld
<1>1. /\ ThreadShaped(req[l], pc[l], want[l], scope[l], pending[l], notified[l])
      /\ Shaped(req[l]) /\ req[l] \in LockRequest /\ Len(scope[l]) \in Nat /\ pending[l] \in Nat
  BY InvThread
<1>2. ASSUME NEW i \in 1..Len(scope[l])
      PROVE  l \in Holders /\ IsModeCovered(scope[l][i], req[l].mode)
  <2>1. Len(scope[l]) # 0
    BY <1>1
  <2>2. scope[l] # <<>>
    BY <2>1
  <2>3. req[l].status \in {"NONE", "NEW", "GRANTED", "WAITING", "CONVERTING"}
    BY <1>1 DEF LockRequest
  <2>4. req[l].status \in {"GRANTED", "CONVERTING"}
    BY <1>1, <2>2, <2>3 DEF ThreadShaped
  <2> QED BY <1>1, <2>4 DEF ThreadShaped, Holders
<1>3. ASSUME pc[l] = "idle", scope[l] = <<>>, pending[l] = 0
      PROVE  req[l] = NoRequest
  <2>1. Len(scope[l]) + pending[l] = 0
    BY <1>3
  <2>2. req[l].status = "NONE"
    BY <1>1, <1>3, <2>1 DEF ThreadShaped
  <2> QED BY <1>1, <2>2 DEF Shaped
<1> QED BY <1>2, <1>3

(* lockConflicts and the grants of newRequest, convert, _onLockModeChanged  *)
(* and the migration: two threads never hold the resource in conflicting    *)
(* modes.                                                                   *)
THEOREM GrantsAreCompatible == Spec => []GrantsCompatible
  BY LockInvariance, InvGrantsCompatible, PTL

(* incGrantedModeCount, decGrantedModeCount and the like: after every step  *)
(* grantedCounts, conflictCounts and conversionsCount are exactly what the  *)
(* lists hold, so that the masks made from them may be trusted.             *)
THEOREM CountsAreExact == Spec => []CountsMatch
  BY LockInvariance, InvCountsMatch, PTL

(* migratePartitionedLockHeads may grant what it finds without asking:      *)
(* while partitions exist, nothing but intent modes is granted on the head  *)
(* and nobody waits there.                                                  *)
THEOREM PartitionsHaveIntent == Spec => []PartitionedOnlyIntent
  BY LockInvariance, InvPartitionedOnlyIntent, PTL

(* _onLockModeChanged leaves nobody behind: whoever waits at the front, or  *)
(* converts, is blocked by a request that is granted now.                   *)
THEOREM GrantsAreNotLost == Spec => []NoLostGrant
  BY LockInvariance, InvNoLostGrant, PTL

(* A thread in wait() has its notification exactly if its request is        *)
(* granted: none is missed, none comes early.                               *)
THEOREM WaitersAreNotified == Spec => []NotifiedWhenGranted
  BY LockInvariance, InvNotified, PTL

(* A thread inside a lock scope holds the lock in a mode as strong as it    *)
(* asked for, and outside all scopes it has left nothing behind, whatever   *)
(* timed out or was delayed by a unit of work.                              *)
THEOREM ScopesAreHeld == Spec => []ScopesHeld
  BY LockInvariance, InvScopesHeld, PTL

--------------------
(* The compatible-first policy.                                             *)

(* The requests on the granted list that ask for the policy.                *)
First(r) == {l \in OnHead(r) : r[l].compatibleFirst}

(* One such request.                                                        *)
LEMMA FirstMember ==
  ASSUME NEW r, NEW l \in Locker
  PROVE  l \in First(r) <=> /\ r[l].place = "head" /\ r[l].status \in {"GRANTED", "CONVERTING"}
                            /\ r[l].compatibleFirst
  BY DEF First, OnHead

(* What the policy invariant says.                                          *)
LEMMA PolicyFacts ==
  ASSUME LockInv, PolicyInv
  PROVE  /\ head.compatibleFirst = Cardinality(First(req)) /\ head.compatibleFirst \in Nat
         /\ \A l \in Locker : Marked(req[l])
         /\ \A l \in Locker : pc[l] = "convert" \/ req[l].status = "CONVERTING" => l \in Upgraders
<1>1. First(req) \subseteq Locker
  BY DEF First, OnHead
<1>2. head.compatibleFirst = Cardinality(First(req))
  BY DEF PolicyInv, CompatibleFirstCounted, First
<1> QED BY <1>1, <1>2, LockersFinite DEF PolicyInv, PriorityMarked, Upgrading

(* A step that changes the request of l only.                               *)
LEMMA PolicyOne ==
  ASSUME LockInv, PolicyInv, NEW l \in Locker, \A k \in Locker \ {l} : req'[k] = req[k],
         head'.compatibleFirst = head.compatibleFirst - In(l, First(req)) + In(l, First(req')),
         Marked(req'[l]),
         \A k \in Locker : pc'[k] = "convert" => pc[k] = "convert" \/ k \in Upgraders,
         req'[l].status = "CONVERTING" => l \in Upgraders
  PROVE  PolicyInv'
<1>1. /\ head.compatibleFirst = Cardinality(First(req))
      /\ \A k \in Locker : Marked(req[k])
      /\ \A k \in Locker : pc[k] = "convert" \/ req[k].status = "CONVERTING" => k \in Upgraders
  BY PolicyFacts
<1>2. First(req) \subseteq Locker /\ First(req') \subseteq Locker
  BY DEF First, OnHead
<1>3. \A k \in Locker \ {l} : k \in First(req) <=> k \in First(req')
  BY FirstMember
<1>4. Cardinality(First(req')) = Cardinality(First(req)) - In(l, First(req)) + In(l, First(req'))
  BY <1>2, <1>3, OneCardinality
<1>5. CompatibleFirstCounted'
  <2>1. head'.compatibleFirst = Cardinality(First(req'))
    BY <1>1, <1>4
  <2> QED BY <2>1 DEF CompatibleFirstCounted, First
<1>6. PriorityMarked'
  BY <1>1 DEF PriorityMarked
<1>7. Upgrading'
  BY <1>1 DEF Upgrading
<1> QED BY <1>5, <1>6, <1>7 DEF PolicyInv

(* ... and in it nothing the policy looks at.                               *)
LEMMA PolicySame ==
  ASSUME LockInv, PolicyInv, NEW l \in Locker, \A k \in Locker \ {l} : req'[k] = req[k],
         head'.compatibleFirst = head.compatibleFirst,
         l \in First(req') <=> l \in First(req), Marked(req'[l]),
         \A k \in Locker : pc'[k] = "convert" => pc[k] = "convert" \/ k \in Upgraders,
         req'[l].status = "CONVERTING" => l \in Upgraders
  PROVE  PolicyInv'
<1>1. head.compatibleFirst \in Nat
  BY PolicyFacts
<1>2. head'.compatibleFirst = head.compatibleFirst - In(l, First(req)) + In(l, First(req'))
  BY <1>1 DEF In
<1> QED BY <1>2, PolicyOne

(* Nothing changed.                                                         *)
LEMMA PolicyStutter ==
  ASSUME PolicyInv, UNCHANGED <<req, head>>,
         \A k \in Locker : pc'[k] = "convert" => pc[k] = "convert"
  PROVE  PolicyInv'
  BY DEF PolicyInv, Upgrading, PriorityMarked, CompatibleFirstCounted, OnHead

(* One recursion less.                                                      *)
LEMMA PolicyUnlockRequest ==
  ASSUME LockInv, PolicyInv, NEW l \in Locker, UnlockRequest(l), head' = head
  PROVE  PolicyInv'
<1>1. /\ ThreadTypes /\ RequestsShaped(req) /\ Shaped(req[l]) /\ req[l] \in LockRequest
      /\ req \in [Locker -> LockRequest]
  BY InvThread DEF RequestsShaped
<1>2. Marked(req[l]) /\ (req[l].status = "CONVERTING" => l \in Upgraders)
  BY PolicyFacts
<1>3. \A k \in Locker : pc'[k] = "convert" => pc[k] = "convert"
  BY <1>1 DEF UnlockRequest, Goto, ThreadTypes
<1>4. CASE req' = [req EXCEPT ![l].count = req[l].count - 1]
  <2>1. /\ \A k \in Locker \ {l} : req'[k] = req[k]
        /\ req'[l] = [req[l] EXCEPT !.count = req[l].count - 1]
    BY <1>1, <1>4
  <2>2. /\ req'[l].status = req[l].status /\ req'[l].mode = req[l].mode /\ req'[l].place = req[l].place
        /\ req'[l].compatibleFirst = req[l].compatibleFirst
    BY <1>1, <2>1 DEF LockRequest
  <2>3. Marked(req'[l])
    BY <1>2, <2>2 DEF Marked
  <2>4. l \in First(req') <=> l \in First(req)
    BY <2>2, FirstMember
  <2> QED BY <1>2, <1>3, <2>1, <2>2, <2>3, <2>4, PolicySame
<1>5. CASE req[l].place = "partition" /\ req' = [req EXCEPT ![l] = NoRequest]
  <2>1. /\ \A k \in Locker \ {l} : req'[k] = req[k] /\ req'[l] = NoRequest
    BY <1>1, <1>5
  <2>2. req'[l] = NoRequest
    BY <1>1, <1>5
  <2>3. NoRequest.mode = "NONE" /\ NoRequest.compatibleFirst = FALSE /\ NoRequest.status = "NONE"
    BY DEF NoRequest
  <2>4. Marked(req'[l])
    BY <2>2, <2>3 DEF Marked
  <2>5. l \notin First(req') /\ l \notin First(req)
    BY <1>5, <2>2, <2>3, FirstMember
  <2> QED BY <1>3, <2>1, <2>2, <2>3, <2>4, <2>5, PolicySame
<1> QED BY <1>4, <1>5 DEF UnlockRequest

(* The actions, one by one.                                                 *)
LEMMA PolicyLock ==
  ASSUME LockInv, PolicyInv, NEW l \in Locker, NEW m \in Mode, Lock(l, m)
  PROVE  PolicyInv'
<1> DEFINE priority == IsPriority(m)
           intent == m \in Intent
           r == [NoRequest EXCEPT !.status = "NEW", !.mode = m, !.count = 1,
                                  !.partitioned = intent, !.compatibleFirst = priority]
           g == [r EXCEPT !.status = "GRANTED", !.place = "partition"]
<1>1. /\ req[l].status = "NONE" /\ head' = head
      /\ \/ m \in Intent /\ req' = [req EXCEPT ![l] = g] /\ LockOk(l, m)
         \/ req' = [req EXCEPT ![l] = r] /\ Continue(l, m, "lock")
  BY DEF Lock
<1>2. ThreadTypes /\ req \in [Locker -> LockRequest] /\ Shaped(req[l])
  BY InvThread DEF RequestsShaped
<1>3. \A k \in Locker : pc'[k] = "convert" => pc[k] = "convert"
  BY <1>1, <1>2 DEF LockOk, Continue, Goto, ThreadTypes
<1> HIDE DEF priority, intent
<1>4. /\ r.status = "NEW" /\ r.mode = m /\ r.place = "none" /\ r.compatibleFirst = priority
  BY DEF NoRequest
<1>5. /\ g.status = "GRANTED" /\ g.mode = m /\ g.place = "partition" /\ g.compatibleFirst = priority
  BY DEF NoRequest
<1> HIDE DEF r, g
<1>6. /\ \A k \in Locker \ {l} : req'[k] = req[k]
      /\ req'[l] \in {r, g}
  BY <1>1, <1>2
<1>7. Marked(req'[l])
  <2>1. req'[l].mode = m /\ (req'[l].compatibleFirst <=> priority)
    BY <1>4, <1>5, <1>6
  <2> QED BY <2>1, LockAssumption DEF Marked, priority, IsPriority
<1>8. l \notin First(req') /\ l \notin First(req) /\ req'[l].status # "CONVERTING"
  BY <1>1, <1>4, <1>5, <1>6, FirstMember
<1> QED BY <1>1, <1>3, <1>6, <1>7, <1>8, PolicySame

LEMMA PolicyRelock ==
  ASSUME NoGlobalUpgrade, LockInv, PolicyInv, NEW l \in Locker, NEW m \in Mode, Relock(l, m)
  PROVE  PolicyInv'
<1> DEFINE c == req[l].compatibleFirst \/ IsPriority(m)
           q == [req[l] EXCEPT !.count = req[l].count + 1, !.compatibleFirst = c]
<1>1. /\ req[l].status = "GRANTED" /\ head' = head
      /\ req' = [req EXCEPT ![l].count = @ + 1, ![l].compatibleFirst = @ \/ IsPriority(m)]
      /\ \/ IsModeCovered(m, req[l].mode) /\ LockOk(l, m)
         \/ l \in Upgraders /\ Continue(l, m, "convert")
  BY DEF Relock
<1>2. ThreadTypes /\ req \in [Locker -> LockRequest] /\ Shaped(req[l]) /\ req[l] \in LockRequest
  BY InvThread DEF RequestsShaped
<1>3. \A k \in Locker : pc'[k] = "convert" => pc[k] = "convert" \/ k \in Upgraders
  BY <1>1, <1>2 DEF LockOk, Continue, Goto, ThreadTypes
<1>4. \A k \in Locker \ {l} : req'[k] = req[k]
  BY <1>1, <1>2
<1>5. req'[l] = q
  BY <1>1, <1>2
<1>6. Marked(req[l])
  BY PolicyFacts
<1>7. c <=> req[l].compatibleFirst
  <2>1. CASE IsModeCovered(m, req[l].mode)
    <3>1. m \in {"S", "X"} => req[l].mode \in {"S", "X"}
      BY <1>1, <1>2, <2>1, Clashes DEF Shaped
    <3> QED BY <1>6, <3>1 DEF Marked, IsPriority
  <2>2. CASE l \in Upgraders
    <3>1. ~Global
      BY <2>2 DEF NoGlobalUpgrade
    <3> QED BY <3>1 DEF IsPriority
  <2> QED BY <1>1, <2>1, <2>2
<1>8. c \in BOOLEAN
  OBVIOUS
<1> HIDE DEF c
<1>9. /\ q.status = req[l].status /\ q.mode = req[l].mode /\ q.place = req[l].place
      /\ q.compatibleFirst = c
  BY <1>2 DEF LockRequest
<1> HIDE DEF q
<1>10. Marked(req'[l])
  BY <1>5, <1>6, <1>7, <1>9 DEF Marked
<1>11. l \in First(req') <=> l \in First(req)
  BY <1>5, <1>7, <1>9, FirstMember
<1>12. req'[l].status # "CONVERTING"
  BY <1>1, <1>5, <1>9
<1> QED BY <1>1, <1>3, <1>4, <1>10, <1>11, <1>12, PolicySame

LEMMA PolicyStartPartition ==
  ASSUME LockInv, PolicyInv, NEW l \in Locker, StartPartition(l)
  PROVE  PolicyInv'
<1> DEFINE g == [req[l] EXCEPT !.status = "GRANTED", !.place = "partition"]
<1>1. /\ pc[l] = "lock" /\ head' = head
      /\ req' = [req EXCEPT ![l].status = "GRANTED", ![l].place = "partition"]
      /\ LockOk(l, want[l])
  BY DEF StartPartition
<1>2. /\ ThreadTypes /\ req \in [Locker -> LockRequest] /\ req[l] \in LockRequest
      /\ ThreadShaped(req[l], pc[l], want[l], scope[l], pending[l], notified[l])
  BY InvThread DEF RequestsShaped
<1>3. \A k \in Locker : pc'[k] = "convert" => pc[k] = "convert"
  BY <1>1, <1>2 DEF LockOk, Goto, ThreadTypes
<1>4. /\ \A k \in Locker \ {l} : req'[k] = req[k]
      /\ req'[l] = g
  BY <1>1, <1>2
<1>5. /\ g.status = "GRANTED" /\ g.mode = req[l].mode /\ g.place = "partition"
      /\ g.compatibleFirst = req[l].compatibleFirst
  BY <1>2 DEF LockRequest
<1> HIDE DEF g
<1>6. Marked(req'[l])
  BY <1>4, <1>5, PolicyFacts DEF Marked
<1>7. req[l].status = "NEW"
  BY <1>1, <1>2 DEF ThreadShaped
<1>8. l \notin First(req') /\ l \notin First(req) /\ req'[l].status # "CONVERTING"
  BY <1>4, <1>5, <1>7, FirstMember
<1>9. head'.compatibleFirst = head.compatibleFirst /\ \A k \in Locker \ {l} : req'[k] = req[k]
  BY <1>1, <1>4
<1> QED BY <1>3, <1>6, <1>8, <1>9, PolicySame

LEMMA PolicyNewRequest ==
  ASSUME LockInv, PolicyInv, NEW l \in Locker, NewRequest(l)
  PROVE  PolicyInv'
<1> DEFINE g == [req[l] EXCEPT !.partitioned = FALSE, !.place = "head", !.status = "GRANTED"]
           q == [req[l] EXCEPT !.partitioned = FALSE, !.place = "head", !.status = "WAITING"]
<1>1. /\ pc[l] = "lock"
      /\ \/ /\ req' = [req EXCEPT ![l] = q] /\ Continue(l, want[l], "wait")
            /\ head' = [head EXCEPT
                 !.conflict[want[l]] = @ + 1,
                 !.before = @ \cup (IF q.compatibleFirst THEN {l} \X Waiting(req)
                                                         ELSE Waiting(req) \X {l})]
         \/ /\ req' = [req EXCEPT ![l] = g] /\ LockOk(l, want[l])
            /\ head' = [head EXCEPT
                 !.granted[want[l]] = @ + 1,
                 !.compatibleFirst = @ + (IF g.compatibleFirst THEN 1 ELSE 0)]
  <2>1. req[l] \in LockRequest
    BY InvThread
  <2> QED BY <2>1 DEF NewRequest, LockRequest
<1>2. /\ ThreadTypes /\ req \in [Locker -> LockRequest] /\ req[l] \in LockRequest
      /\ ThreadShaped(req[l], pc[l], want[l], scope[l], pending[l], notified[l])
      /\ head \in HeadType
  BY InvThread, InvHead
<1>3. \A k \in Locker : pc'[k] = "convert" => pc[k] = "convert"
  BY <1>1, <1>2 DEF LockOk, Continue, Goto, ThreadTypes
<1>4. /\ g.status = "GRANTED" /\ g.mode = req[l].mode /\ g.place = "head"
      /\ g.compatibleFirst = req[l].compatibleFirst
      /\ q.status = "WAITING" /\ q.mode = req[l].mode /\ q.place = "head"
      /\ q.compatibleFirst = req[l].compatibleFirst
  BY <1>2 DEF LockRequest
<1>5. \/ req' = [req EXCEPT ![l] = q] /\ head'.compatibleFirst = head.compatibleFirst
      \/ /\ req' = [req EXCEPT ![l] = g]
         /\ head'.compatibleFirst = head.compatibleFirst + (IF g.compatibleFirst THEN 1 ELSE 0)
  <2>1. CASE /\ req' = [req EXCEPT ![l] = q] /\ Continue(l, want[l], "wait")
             /\ head' = [head EXCEPT
                 !.conflict[want[l]] = @ + 1,
                 !.before = @ \cup (IF q.compatibleFirst THEN {l} \X Waiting(req)
                                                         ELSE Waiting(req) \X {l})]
    BY <1>2, <2>1 DEF HeadType
  <2>2. CASE /\ req' = [req EXCEPT ![l] = g] /\ LockOk(l, want[l])
             /\ head' = [head EXCEPT
                 !.granted[want[l]] = @ + 1,
                 !.compatibleFirst = @ + (IF g.compatibleFirst THEN 1 ELSE 0)]
    BY <1>2, <2>2 DEF HeadType
  <2> QED BY <1>1, <2>1, <2>2
<1> HIDE DEF g, q
<1>6. req'[l] \in {q, g} /\ \A k \in Locker \ {l} : req'[k] = req[k]
  BY <1>2, <1>5
<1>7. Marked(req'[l])
  <2>1. req'[l].mode = req[l].mode /\ req'[l].compatibleFirst = req[l].compatibleFirst
    BY <1>4, <1>6
  <2> QED BY <2>1, PolicyFacts DEF Marked
<1>8. req[l].status = "NEW"
  BY <1>1, <1>2 DEF ThreadShaped
<1>9. l \notin First(req) /\ req'[l].status # "CONVERTING"
  BY <1>4, <1>6, <1>8, FirstMember
<1>10. head'.compatibleFirst = head.compatibleFirst - In(l, First(req)) + In(l, First(req'))
  <2>0. head.compatibleFirst \in Nat
    BY PolicyFacts
  <2>1. CASE req' = [req EXCEPT ![l] = q] /\ head'.compatibleFirst = head.compatibleFirst
    <3>1. req'[l] = q
      BY <1>2, <2>1
    <3>2. l \notin First(req')
      BY <1>4, <3>1, FirstMember
    <3> QED BY <1>9, <2>0, <2>1, <3>2 DEF In
  <2>2. CASE /\ req' = [req EXCEPT ![l] = g]
             /\ head'.compatibleFirst = head.compatibleFirst + (IF g.compatibleFirst THEN 1 ELSE 0)
    <3>1. req'[l] = g
      BY <1>2, <2>2
    <3>2. l \in First(req') <=> g.compatibleFirst
      BY <1>4, <3>1, FirstMember
    <3> QED BY <1>9, <2>0, <2>2, <3>2 DEF In
  <2> QED BY <1>5, <2>1, <2>2
<1> QED BY <1>3, <1>6, <1>7, <1>9, <1>10, PolicyOne

LEMMA PolicyConvert ==
  ASSUME NoGlobalUpgrade, LockInv, PolicyInv, NEW l \in Locker, Convert(l)
  PROVE  PolicyInv'
<1> DEFINE w == want[l]
           g == [req[l] EXCEPT !.mode = w]
           q == [req[l] EXCEPT !.status = "CONVERTING", !.convertMode = w]
<1>1. /\ pc[l] = "convert"
      /\ \/ /\ req' = [req EXCEPT ![l] = q] /\ Continue(l, w, "wait")
            /\ head' = [head EXCEPT !.conversions = @ + 1, !.granted[w] = @ + 1]
         \/ /\ req' = [req EXCEPT ![l] = g] /\ LockOk(l, w)
            /\ head' = [head EXCEPT !.granted = ModeChanged(@, req[l].mode, w)]
  <2>1. req \in [Locker -> LockRequest]
    BY InvHead
  <2> QED BY <2>1 DEF Convert
<1>2. /\ ThreadTypes /\ req \in [Locker -> LockRequest] /\ req[l] \in LockRequest
      /\ ThreadShaped(req[l], pc[l], want[l], scope[l], pending[l], notified[l])
      /\ head \in HeadType
  BY InvThread, InvHead
<1>3. \A k \in Locker : pc'[k] = "convert" => pc[k] = "convert"
  BY <1>1, <1>2 DEF LockOk, Continue, Goto, ThreadTypes
<1>4. /\ g.status = req[l].status /\ g.place = req[l].place
      /\ g.compatibleFirst = req[l].compatibleFirst
      /\ q.status = "CONVERTING" /\ q.place = req[l].place
      /\ q.compatibleFirst = req[l].compatibleFirst
  BY <1>2 DEF LockRequest
<1>5. head'.compatibleFirst = head.compatibleFirst
  BY <1>1, <1>2 DEF HeadType
<1> HIDE DEF g, q
<1>6. req'[l] \in {q, g} /\ \A k \in Locker \ {l} : req'[k] = req[k]
  BY <1>1, <1>2
<1>7. l \in Upgraders /\ ~Global /\ Marked(req[l])
  BY <1>1, PolicyFacts DEF NoGlobalUpgrade
<1>8. Marked(req'[l])
  BY <1>4, <1>6, <1>7 DEF Marked
<1>9. req[l].status = "GRANTED"
  BY <1>1, <1>2 DEF ThreadShaped
<1>10. l \in First(req') <=> l \in First(req)
  BY <1>4, <1>6, <1>9, FirstMember
<1> QED BY <1>3, <1>5, <1>6, <1>7, <1>8, <1>10, PolicySame

LEMMA PolicyMigrate ==
  ASSUME LockInv, PolicyInv, NEW p \in partitions, MigratePartition(p)
  PROVE  PolicyInv'
<1> DEFINE M == {l \in Locker : req[l].place = "partition" /\ PartitionOf[l] = p}
           F == {l \in M : req[l].compatibleFirst}
<1>1. /\ req' = [l \in Locker |-> IF l \in M THEN [req[l] EXCEPT !.place = "head"] ELSE req[l]]
      /\ head' = [head EXCEPT
           !.granted = [m \in Mode |-> @[m] + Cardinality(OfMode(M, req, m))],
           !.compatibleFirst = @ + CompatibleFirstAdded(M, req)]
      /\ UNCHANGED pc
  BY DEF MigratePartition, threadVars
<1>2. head \in HeadType /\ RequestsShaped(req) /\ req \in [Locker -> LockRequest]
  BY InvHead
<1>3. M \subseteq Locker /\ \A l \in M : req[l].place = "partition"
  OBVIOUS
<1>4. head'.compatibleFirst = head.compatibleFirst + Cardinality(F)
  BY <1>1, <1>2 DEF HeadType, CompatibleFirstAdded
<1> HIDE DEF M
<1>5. ASSUME NEW l \in Locker
      PROVE  /\ req'[l].status = req[l].status /\ req'[l].mode = req[l].mode
             /\ req'[l].compatibleFirst = req[l].compatibleFirst
             /\ req'[l].place = IF l \in M THEN "head" ELSE req[l].place
  <2>0. req[l] \in LockRequest
    BY <1>2
  <2>1. CASE l \in M
    <3>1. req'[l] = [req[l] EXCEPT !.place = "head"]
      BY <1>1, <2>1
    <3> QED BY <2>0, <2>1, <3>1 DEF LockRequest
  <2>2. CASE l \notin M
    <3>1. req'[l] = req[l]
      BY <1>1, <2>2
    <3> QED BY <2>0, <2>2, <3>1
  <2> QED BY <2>1, <2>2
<1>6. \A l \in M : req[l].status = "GRANTED"
  BY <1>2, <1>3 DEF RequestsShaped, Shaped
<1>7. First(req') = First(req) \cup F /\ First(req) \cap F = {}
  <2>1. First(req) \subseteq Locker /\ First(req') \subseteq Locker /\ F \subseteq Locker
    BY <1>3 DEF First, OnHead
  <2>2. ASSUME NEW l \in Locker
        PROVE  /\ l \in First(req') <=> l \in First(req) \cup F
               /\ ~(l \in First(req) /\ l \in F)
    BY <1>3, <1>5, <1>6, FirstMember
  <2> QED BY <2>1, <2>2
<1>8. /\ head.compatibleFirst = Cardinality(First(req))
      /\ \A k \in Locker : Marked(req[k])
      /\ \A k \in Locker : pc[k] = "convert" \/ req[k].status = "CONVERTING" => k \in Upgraders
  BY PolicyFacts
<1>9. Cardinality(First(req')) = Cardinality(First(req)) + Cardinality(F)
  <2>1. First(req) \subseteq Locker /\ F \subseteq Locker
    BY <1>3 DEF First, OnHead
  <2> QED BY <1>7, <2>1, LockersJoined
<1>10. CompatibleFirstCounted'
  <2>1. head'.compatibleFirst = Cardinality(First(req'))
    BY <1>4, <1>8, <1>9
  <2> QED BY <2>1 DEF CompatibleFirstCounted, First
<1>11. PriorityMarked' /\ Upgrading'
  BY <1>1, <1>5, <1>8 DEF PriorityMarked, Marked, Upgrading
<1> QED BY <1>10, <1>11 DEF PolicyInv

(* _onLockModeChanged grants from the queue, and counts what it grants.     *)
LEMMA PolicyModeChange ==
  ASSUME NoGlobalUpgrade, NEW h, NEW r, NEW b, RequestsShaped(r), OnLockModeChanged(h, r, b),
         h.compatibleFirst = Cardinality(First(r)), \A k \in Locker : Marked(r[k]),
         \A k \in Locker : r[k].status = "CONVERTING" => k \in Upgraders,
         \A k \in Locker : pc'[k] = "convert" => k \in Upgraders
  PROVE  PolicyInv'
<1> DEFINE C == ConversionsGranted(h, r)
<1>1. PICK G \in SUBSET Waiting(r) : head' = HeadRegranted(h, r, C, G) /\ req' = Regranted(r, C, G)
  BY ModeChangedBy
<1> DEFINE F == {l \in G : r[l].compatibleFirst}
<1>2. C \subseteq Converting(r) /\ G \subseteq Waiting(r) /\ G \subseteq Locker /\ C \subseteq Locker
  BY DEF ConversionsGranted, Converting, Waiting
<1> HIDE DEF C
<1>3. ASSUME NEW l \in Locker
      PROVE  /\ req'[l].status = IF l \in C \cup G THEN "GRANTED" ELSE r[l].status
             /\ req'[l].mode = IF l \in C THEN r[l].convertMode ELSE r[l].mode
             /\ req'[l].place = r[l].place /\ req'[l].compatibleFirst = r[l].compatibleFirst
  BY <1>1, <1>2, RegrantedFields
<1>4. head'.compatibleFirst = h.compatibleFirst + Cardinality(F)
  BY <1>1 DEF HeadRegranted, CompatibleFirstAdded
<1>5. First(req') = First(r) \cup F /\ First(r) \cap F = {}
  <2>1. First(r) \subseteq Locker /\ First(req') \subseteq Locker /\ F \subseteq Locker
    BY <1>2 DEF First, OnHead
  <2>2. OnHead(req') = OnHead(r) \cup G
    BY <1>1, <1>2, RegrantedLists
  <2>3. OnHead(r) \cap G = {}
    BY <1>2, OnHeadFacts, SubsetsOfLockers
  <2>4. ASSUME NEW l \in Locker
        PROVE  /\ l \in First(req') <=> l \in First(r) \cup F
               /\ ~(l \in First(r) /\ l \in F)
    BY <1>3, <2>2, <2>3 DEF First
  <2> QED BY <2>1, <2>4
<1>6. Cardinality(First(req')) = Cardinality(First(r)) + Cardinality(F)
  <2>1. First(r) \subseteq Locker /\ F \subseteq Locker
    BY <1>2 DEF First, OnHead
  <2> QED BY <1>5, <2>1, LockersJoined
<1>7. CompatibleFirstCounted'
  <2>1. head'.compatibleFirst = Cardinality(First(req'))
    BY <1>4, <1>6
  <2> QED BY <2>1 DEF CompatibleFirstCounted, First
<1>8. ASSUME NEW l \in Locker
      PROVE  Marked(req'[l])
  <2>1. CASE l \in C
    <3>1. l \in Upgraders
      BY <1>2, <2>1 DEF Converting
    <3>2. ~Global
      BY <3>1 DEF NoGlobalUpgrade
    <3> QED BY <1>3, <3>2 DEF Marked
  <2>2. CASE l \notin C
    BY <1>3, <2>2 DEF Marked
  <2> QED BY <2>1, <2>2
<1>9. Upgrading'
  BY <1>3 DEF Upgrading
<1> QED BY <1>7, <1>8, <1>9 DEF PolicyInv, PriorityMarked

(* The releases.                                                            *)
LEMMA PolicyRelease ==
  ASSUME NoGlobalUpgrade, LockInv, PolicyInv, NEW l \in Locker, NEW h, NEW r, NEW b,
         RequestsShaped(r), \A k \in Locker \ {l} : r[k] = req[k],
         OnLockModeChanged(h, r, b),
         h.compatibleFirst = head.compatibleFirst - In(l, First(req)) + In(l, First(r)),
         Marked(r[l]), r[l].status # "CONVERTING",
         \A k \in Locker : pc'[k] = "convert" => pc[k] = "convert"
  PROVE  PolicyInv'
<1>1. /\ head.compatibleFirst = Cardinality(First(req))
      /\ \A k \in Locker : Marked(req[k])
      /\ \A k \in Locker : pc[k] = "convert" \/ req[k].status = "CONVERTING" => k \in Upgraders
  BY PolicyFacts
<1>2. First(req) \subseteq Locker /\ First(r) \subseteq Locker
  BY DEF First, OnHead
<1>3. \A k \in Locker \ {l} : k \in First(req) <=> k \in First(r)
  BY FirstMember
<1>4. Cardinality(First(r)) = Cardinality(First(req)) - In(l, First(req)) + In(l, First(r))
  BY <1>2, <1>3, OneCardinality
<1>5. h.compatibleFirst = Cardinality(First(r))
  BY <1>1, <1>4
<1>6. /\ \A k \in Locker : Marked(r[k])
      /\ \A k \in Locker : r[k].status = "CONVERTING" => k \in Upgraders
      /\ \A k \in Locker : pc'[k] = "convert" => k \in Upgraders
  BY <1>1
<1> QED BY <1>5, <1>6, PolicyModeChange

LEMMA PolicyUnlockGranted ==
  ASSUME NoGlobalUpgrade, LockInv, PolicyInv, NEW l \in Locker, UnlockGranted(l)
  PROVE  PolicyInv'
<1> DEFINE m == req[l].mode
           h == [head EXCEPT !.granted[m] = @ - 1,
                             !.compatibleFirst = @ - (IF req[l].compatibleFirst THEN 1 ELSE 0)]
           r == [req EXCEPT ![l] = NoRequest]
           b == h.granted[m] = 0
<1>1. /\ pc[l] = "unlock" /\ req[l].status = "GRANTED" /\ OnLockModeChanged(h, r, b)
      /\ pc' = [pc EXCEPT ![l] = "idle"]
  BY DEF UnlockGranted, Goto
<1>2. /\ ThreadTypes /\ req \in [Locker -> LockRequest] /\ head \in HeadType /\ RequestsShaped(req)
      /\ ThreadShaped(req[l], pc[l], want[l], scope[l], pending[l], notified[l])
  BY InvThread, InvHead
<1>3. \A k \in Locker : pc'[k] = "convert" => pc[k] = "convert"
  BY <1>1, <1>2 DEF ThreadTypes
<1>4. h.compatibleFirst = head.compatibleFirst - (IF req[l].compatibleFirst THEN 1 ELSE 0)
  BY <1>2 DEF HeadType
<1>5. /\ r \in [Locker -> LockRequest] /\ r[l] = NoRequest
      /\ \A k \in Locker \ {l} : r[k] = req[k]
  BY <1>2, NoRequestShaped
<1> HIDE DEF b, h, r, m
<1>6. RequestsShaped(r)
  BY <1>2, <1>5, NoRequestShaped DEF RequestsShaped
<1>7. NoRequest.mode = "NONE" /\ NoRequest.compatibleFirst = FALSE /\ NoRequest.status = "NONE"
  BY DEF NoRequest
<1>8. Marked(r[l]) /\ r[l].status # "CONVERTING" /\ l \notin First(r)
  BY <1>5, <1>7, FirstMember DEF Marked
<1>9. req[l].place = "head"
  BY <1>1, <1>2 DEF ThreadShaped
<1>10. l \in First(req) <=> req[l].compatibleFirst
  BY <1>1, <1>9, FirstMember
<1>11. h.compatibleFirst = head.compatibleFirst - In(l, First(req)) + In(l, First(r))
  <2>1. head.compatibleFirst \in Nat
    BY PolicyFacts
  <2> QED BY <1>4, <1>8, <1>10, <2>1 DEF In
<1> QED BY <1>1, <1>3, <1>5, <1>6, <1>8, <1>11, PolicyRelease

LEMMA PolicyCancelWaiting ==
  ASSUME NoGlobalUpgrade, LockInv, PolicyInv, NEW l \in Locker, CancelWaiting(l)
  PROVE  PolicyInv'
<1> DEFINE h == [head EXCEPT !.conflict[req[l].mode] = @ - 1,
                             !.before = {x \in @ : x[1] # l /\ x[2] # l}]
           r == [req EXCEPT ![l] = NoRequest]
<1>1. /\ req[l].status = "WAITING" /\ OnLockModeChanged(h, r, TRUE)
      /\ pc' = [pc EXCEPT ![l] = "idle"]
  BY DEF CancelWaiting, Goto
<1>2. /\ ThreadTypes /\ req \in [Locker -> LockRequest] /\ head \in HeadType /\ RequestsShaped(req)
  BY InvThread, InvHead
<1>3. \A k \in Locker : pc'[k] = "convert" => pc[k] = "convert"
  BY <1>1, <1>2 DEF ThreadTypes
<1>4. h.compatibleFirst = head.compatibleFirst
  BY <1>2 DEF HeadType
<1>5. /\ r \in [Locker -> LockRequest] /\ r[l] = NoRequest
      /\ \A k \in Locker \ {l} : r[k] = req[k]
  BY <1>2, NoRequestShaped
<1> HIDE DEF h, r
<1>6. RequestsShaped(r)
  BY <1>2, <1>5, NoRequestShaped DEF RequestsShaped
<1>7. NoRequest.mode = "NONE" /\ NoRequest.compatibleFirst = FALSE /\ NoRequest.status = "NONE"
  BY DEF NoRequest
<1>8. Marked(r[l]) /\ r[l].status # "CONVERTING" /\ l \notin First(r) /\ l \notin First(req)
  BY <1>1, <1>5, <1>7, FirstMember DEF Marked
<1>11. h.compatibleFirst = head.compatibleFirst - In(l, First(req)) + In(l, First(r))
  <2>1. head.compatibleFirst \in Nat
    BY PolicyFacts
  <2> QED BY <1>4, <1>8, <2>1 DEF In
<1> QED BY <1>1, <1>3, <1>5, <1>6, <1>8, <1>11, PolicyRelease

LEMMA PolicyCancelConversion ==
  ASSUME NoGlobalUpgrade, LockInv, PolicyInv, NEW l \in Locker, CancelConversion(l)
  PROVE  PolicyInv'
<1> DEFINE h == [head EXCEPT !.conversions = @ - 1, !.granted[req[l].convertMode] = @ - 1]
           q == [req[l] EXCEPT !.status = "GRANTED", !.convertMode = "NONE"]
           r == [req EXCEPT ![l] = q]
<1>2. /\ ThreadTypes /\ req \in [Locker -> LockRequest] /\ head \in HeadType /\ RequestsShaped(req)
      /\ req[l] \in LockRequest /\ Shaped(req[l])
  BY InvThread, InvHead
<1>1. /\ req[l].status = "CONVERTING" /\ OnLockModeChanged(h, r, TRUE)
      /\ pc' = [pc EXCEPT ![l] = "idle"]
  <2>1. r = [req EXCEPT ![l].status = "GRANTED", ![l].convertMode = "NONE"]
    BY <1>2
  <2> QED BY <2>1 DEF CancelConversion, Goto
<1>3. \A k \in Locker : pc'[k] = "convert" => pc[k] = "convert"
  BY <1>1, <1>2 DEF ThreadTypes
<1>4. h.compatibleFirst = head.compatibleFirst
  BY <1>2 DEF HeadType
<1>5. /\ q \in LockRequest /\ q.status = "GRANTED" /\ q.mode = req[l].mode /\ q.convertMode = "NONE"
      /\ q.place = req[l].place /\ q.compatibleFirst = req[l].compatibleFirst
  BY <1>2 DEF LockRequest
<1> HIDE DEF q
<1>6. /\ r \in [Locker -> LockRequest] /\ r[l] = q
      /\ \A k \in Locker \ {l} : r[k] = req[k]
  BY <1>2, <1>5
<1> HIDE DEF h, r
<1>7. Shaped(q)
  BY <1>1, <1>2, <1>5 DEF Shaped
<1>8. RequestsShaped(r)
  BY <1>2, <1>6, <1>7 DEF RequestsShaped
<1>9. Marked(r[l]) /\ r[l].status # "CONVERTING"
  BY <1>5, <1>6, PolicyFacts DEF Marked
<1>10. l \in First(r) <=> l \in First(req)
  BY <1>1, <1>5, <1>6, FirstMember
<1>11. h.compatibleFirst = head.compatibleFirst - In(l, First(req)) + In(l, First(r))
  <2>1. head.compatibleFirst \in Nat
    BY PolicyFacts
  <2> QED BY <1>4, <1>10, <2>1 DEF In
<1> QED BY <1>1, <1>3, <1>6, <1>8, <1>9, <1>11, PolicyRelease

LEMMA PolicyDowngrade ==
  ASSUME NoGlobalUpgrade, LockInv, PolicyInv, NEW l \in Locker, NEW m \in Mode, Downgrade(l, m)
  PROVE  PolicyInv'
<1> DEFINE h == [head EXCEPT !.granted = ModeChanged(@, req[l].mode, m)]
           q == [req[l] EXCEPT !.mode = m]
           r == [req EXCEPT ![l] = q]
<1>2. /\ ThreadTypes /\ req \in [Locker -> LockRequest] /\ head \in HeadType /\ RequestsShaped(req)
      /\ req[l] \in LockRequest /\ Shaped(req[l])
  BY InvThread, InvHead
<1>1. /\ req[l].status = "GRANTED" /\ req[l].place = "head" /\ OnLockModeChanged(h, r, TRUE)
      /\ IsModeCovered(m, req[l].mode) /\ pc' = pc
  <2>1. r = [req EXCEPT ![l].mode = m]
    BY <1>2
  <2> QED BY <2>1 DEF Downgrade
<1>4. h.compatibleFirst = head.compatibleFirst
  BY <1>2 DEF HeadType
<1>5. /\ q \in LockRequest /\ q.status = "GRANTED" /\ q.mode = m /\ q.convertMode = req[l].convertMode
      /\ q.place = req[l].place /\ q.compatibleFirst = req[l].compatibleFirst
  BY <1>1, <1>2 DEF LockRequest
<1> HIDE DEF q
<1>6. /\ r \in [Locker -> LockRequest] /\ r[l] = q
      /\ \A k \in Locker \ {l} : r[k] = req[k]
  BY <1>2, <1>5
<1> HIDE DEF h, r
<1>7. Shaped(q)
  BY <1>1, <1>2, <1>5 DEF Shaped
<1>8. RequestsShaped(r)
  BY <1>2, <1>6, <1>7 DEF RequestsShaped
<1>9. Marked(r[l]) /\ r[l].status # "CONVERTING"
  <2>1. m \in {"S", "X"} => req[l].mode \in {"S", "X"}
    BY <1>1, <1>2, Clashes DEF Shaped
  <2>2. Marked(req[l])
    BY PolicyFacts
  <2> QED BY <1>5, <1>6, <2>1, <2>2 DEF Marked
<1>10. l \in First(r) <=> l \in First(req)
  BY <1>1, <1>5, <1>6, FirstMember
<1>11. h.compatibleFirst = head.compatibleFirst - In(l, First(req)) + In(l, First(r))
  <2>1. head.compatibleFirst \in Nat
    BY PolicyFacts
  <2> QED BY <1>4, <1>10, <2>1 DEF In
<1> QED BY <1>1, <1>6, <1>8, <1>9, <1>11, PolicyRelease

(* Every step.                                                              *)
LEMMA PolicyNext ==
  ASSUME NoGlobalUpgrade, LockInv, PolicyInv, [Next]_vars
  PROVE  PolicyInv'
<1>0. RequestModes \subseteq Mode
  BY LockAssumption
<1>1. CASE UNCHANGED vars
  BY <1>1, PolicyStutter DEF vars, threadVars
<1>2. CASE Migration
  <2>1. CASE StartCleanup \/ EndCleanup
    BY <2>1, PolicyStutter DEF StartCleanup, EndCleanup, threadVars
  <2>2. ASSUME NEW p \in partitions, MigratePartition(p)
        PROVE  PolicyInv'
    BY <2>2, PolicyMigrate
  <2> QED BY <1>2, <2>1, <2>2 DEF Migration
<1>3. ASSUME NEW l \in Locker, Acquire(l)
      PROVE  PolicyInv'
  <2>0. ThreadTypes
    BY InvThread
  <2>1. CASE StartMigration(l)
    BY <2>1, PolicyStutter DEF StartMigration, threadVars
  <2>2. CASE WaitReturns(l)
    <3>1. \A k \in Locker : pc'[k] = "convert" => pc[k] = "convert"
      BY <2>0, <2>2 DEF WaitReturns, LockOk, Goto, ThreadTypes
    <3> QED BY <2>2, <3>1, PolicyStutter DEF WaitReturns
  <2>3. CASE WaitFails(l)
    <3>1. \A k \in Locker : pc'[k] = "convert" => pc[k] = "convert"
      BY <2>0, <2>3 DEF WaitFails, Continue, Goto, ThreadTypes
    <3> QED BY <2>3, <3>1, PolicyStutter DEF WaitFails
  <2>4. ASSUME NEW m \in Mode, Reuse(l, m)
        PROVE  PolicyInv'
    BY <2>4, PolicyStutter DEF Reuse
  <2> QED
    BY <1>0, <1>3, <2>1, <2>2, <2>3, <2>4, PolicyLock, PolicyRelock, PolicyStartPartition,
       PolicyNewRequest, PolicyConvert DEF Acquire
<1>4. ASSUME NEW l \in Locker, Release(l)
      PROVE  PolicyInv'
  <2>0. ThreadTypes
    BY InvThread
  <2>1. CASE Unlock(l)
    <3>1. CASE UnlockRequest(l)
      BY <2>1, <3>1, PolicyUnlockRequest DEF Unlock
    <3>2. CASE UNCHANGED <<req, pc>>
      BY <2>1, <3>2, PolicyStutter DEF Unlock
    <3> QED BY <2>1, <3>1, <3>2 DEF Unlock
  <2>2. CASE Undo(l)
    BY <2>2, PolicyUnlockRequest DEF Undo
  <2>3. CASE UnlockPending(l)
    BY <2>3, PolicyUnlockRequest DEF UnlockPending
  <2>4. CASE UnlockNested(l)
    <3>1. \A k \in Locker : pc'[k] = "convert" => pc[k] = "convert"
      BY <2>0, <2>4 DEF UnlockNested, Goto, ThreadTypes
    <3> QED BY <2>4, <3>1, PolicyStutter DEF UnlockNested
  <2> QED
    BY <1>0, <1>4, <2>1, <2>2, <2>3, <2>4, PolicyUnlockGranted, PolicyCancelWaiting,
       PolicyCancelConversion, PolicyDowngrade DEF Release
<1>5. ASSUME NEW l \in Locker, UnitOfWork(l)
      PROVE  PolicyInv'
  BY <1>5, PolicyStutter DEF UnitOfWork, BeginWriteUnitOfWork, EndWriteUnitOfWork
<1> QED BY <1>1, <1>2, <1>3, <1>4, <1>5 DEF Next

(* The initial state.                                                       *)
LEMMA PolicyInit == Init => PolicyInv
<1> SUFFICES ASSUME Init
             PROVE  PolicyInv
  OBVIOUS
<1>1. NoRequest.mode = "NONE" /\ NoRequest.compatibleFirst = FALSE /\ NoRequest.status = "NONE"
  BY DEF NoRequest
<1>2. \A l \in Locker : req[l] = NoRequest /\ pc[l] = "idle"
  BY DEF Init
<1>3. PriorityMarked /\ Upgrading
  BY <1>1, <1>2 DEF PriorityMarked, Marked, Upgrading
<1>4. First(req) = {}
  BY <1>1, <1>2 DEF First, OnHead
<1>5. head.compatibleFirst = 0
  BY DEF Init, EmptyHead
<1>6. CompatibleFirstCounted
  <2>1. head.compatibleFirst = Cardinality(First(req))
    BY <1>4, <1>5, FS_EmptySet
  <2> QED BY <2>1 DEF CompatibleFirstCounted, First
<1> QED BY <1>3, <1>6 DEF PolicyInv

(* The policy invariant holds in every reachable state, if no thread        *)
(* upgrades a global lock.                                                  *)
THEOREM PolicyInvariance ==
  ASSUME NoGlobalUpgrade
  PROVE  Spec => []PolicyInv
<1>1. LockInv /\ PolicyInv /\ [Next]_vars => PolicyInv'
  BY PolicyNext
<1> QED BY <1>1, PolicyInit, LockInvariance, PTL DEF Spec

(* compatibleFirstCount is exactly the number of granted requests that ask  *)
(* for compatible-first, so that the invariant of unlock does not fail and  *)
(* the resource goes back to FIFO when the last of them is gone.            *)
THEOREM CompatibleFirstExact ==
  ASSUME NoGlobalUpgrade
  PROVE  Spec => []CompatibleFirstCounted
<1>1. PolicyInv => CompatibleFirstCounted
  BY DEF PolicyInv
<1> QED BY <1>1, PolicyInvariance, PTL

(* Types follow from both invariants.                                       *)
LEMMA InvTypes == LockInv /\ PolicyInv => TypeOK
<1> SUFFICES ASSUME LockInv, PolicyInv
             PROVE  TypeOK
  OBVIOUS
<1>1. head \in HeadType /\ head.compatibleFirst \in Nat
  BY InvHead, PolicyFacts
<1>2. head \in LockHead
  BY <1>1 DEF HeadType, LockHead
<1> QED BY <1>2 DEF LockInv, TypesInv, TypeOK

(* Every variable has its type; that compatibleFirstCount is no negative    *)
(* number rests on the policy.                                              *)
THEOREM TypeCorrect ==
  ASSUME NoGlobalUpgrade
  PROVE  Spec => []TypeOK
  BY LockInvariance, PolicyInvariance, InvTypes, PTL

--------------------
(* What a step never does.                                                  *)

(* A thread that changes no other's request.                                *)
LEMMA OwnRequest ==
  ASSUME LockInv, NEW j \in Locker, NEW m \in Mode,
         \/ Lock(j, m) \/ Reuse(j, m) \/ Relock(j, m) \/ StartPartition(j) \/ StartMigration(j)
         \/ NewRequest(j) \/ Convert(j) \/ WaitReturns(j) \/ WaitFails(j)
         \/ Unlock(j) \/ Undo(j) \/ UnlockPending(j) \/ UnlockNested(j) \/ UnitOfWork(j),
         NEW k \in Locker, k # j
  PROVE  req'[k] = req[k]
<1>1. req \in [Locker -> LockRequest]
  BY InvHead
<1>2. CASE Lock(j, m) \/ Relock(j, m)
  BY <1>1, <1>2 DEF Lock, Relock
<1>3. CASE NewRequest(j) \/ Convert(j) \/ StartPartition(j)
  BY <1>1, <1>3 DEF NewRequest, Convert, StartPartition
<1>4. CASE Unlock(j) \/ Undo(j) \/ UnlockPending(j)
  BY <1>1, <1>4 DEF Unlock, Undo, UnlockPending, UnlockRequest
<1>5. CASE \/ Reuse(j, m) \/ StartMigration(j) \/ WaitReturns(j) \/ WaitFails(j)
           \/ UnlockNested(j) \/ UnitOfWork(j)
  BY <1>5 DEF Reuse, StartMigration, WaitReturns, WaitFails, UnlockNested, UnitOfWork,
              BeginWriteUnitOfWork, EndWriteUnitOfWork
<1> QED BY <1>2, <1>3, <1>4, <1>5

(* What the four releases have in common.                                   *)
LEMMA Released ==
  ASSUME LockInv, NEW j \in Locker, NEW m \in Mode,
         UnlockGranted(j) \/ CancelWaiting(j) \/ CancelConversion(j) \/ Downgrade(j, m)
  PROVE  \E h, r, b :
           /\ OnLockModeChanged(h, r, b) /\ b \in BOOLEAN /\ RequestsShaped(r)
           /\ \A k \in Locker \ {j} : r[k] = req[k]
           /\ r[j].status \in {"NONE", "GRANTED"}
           /\ Ordered(h.before, Waiting(r))
           /\ \A k \in Locker \ {j} : \A l \in Locker \ {j} :
                <<k, l>> \in h.before => <<k, l>> \in head.before
<1>1. /\ req \in [Locker -> LockRequest] /\ head \in HeadType /\ RequestsShaped(req)
      /\ Ordered(head.before, Waiting(req)) /\ req[j] \in LockRequest /\ Shaped(req[j])
  BY InvHead, InvThread
<1>2. CASE UnlockGranted(j)
  <2> DEFINE h == [head EXCEPT !.granted[req[j].mode] = @ - 1,
                        !.compatibleFirst = @ - (IF req[j].compatibleFirst THEN 1 ELSE 0)]
             r == [req EXCEPT ![j] = NoRequest]
             b == h.granted[req[j].mode] = 0
  <2>1. OnLockModeChanged(h, r, b) /\ req[j].status = "GRANTED"
    BY <1>2 DEF UnlockGranted
  <2>2. b \in BOOLEAN
    OBVIOUS
  <2>3. h.before = head.before
    BY <1>1 DEF HeadType
  <2>4. r \in [Locker -> LockRequest] /\ r[j] = NoRequest /\ \A k \in Locker \ {j} : r[k] = req[k]
    BY <1>1, NoRequestShaped
  <2> HIDE DEF h, r, b
  <2>5. RequestsShaped(r) /\ r[j].status = "NONE"
    BY <1>1, <2>4, NoRequestShaped DEF RequestsShaped
  <2>6. Waiting(r) = Waiting(req)
    BY <2>1, <2>4, <2>5, Member, SameWaiting
  <2>7. Ordered(h.before, Waiting(r))
    BY <1>1, <2>3, <2>6
  <2> WITNESS h, r, b
  <2> QED BY <2>1, <2>2, <2>3, <2>4, <2>5, <2>7
<1>3. CASE CancelWaiting(j)
  <2> DEFINE h == [head EXCEPT !.conflict[req[j].mode] = @ - 1,
                               !.before = {x \in @ : x[1] # j /\ x[2] # j}]
             r == [req EXCEPT ![j] = NoRequest]
  <2>1. OnLockModeChanged(h, r, TRUE)
    BY <1>3 DEF CancelWaiting
  <2>3. h.before = {x \in head.before : x[1] # j /\ x[2] # j}
    BY <1>1 DEF HeadType
  <2>4. r \in [Locker -> LockRequest] /\ r[j] = NoRequest /\ \A k \in Locker \ {j} : r[k] = req[k]
    BY <1>1, NoRequestShaped
  <2> HIDE DEF h, r
  <2>5. RequestsShaped(r) /\ r[j].status = "NONE"
    BY <1>1, <2>4, NoRequestShaped DEF RequestsShaped
  <2>6. Waiting(r) = Waiting(req) \ {j}
    <3>1. \A k \in Locker \ {j} : k \in Waiting(r) <=> k \in Waiting(req)
      BY <2>4, OthersListed
    <3>2. Waiting(r) \subseteq Locker /\ Waiting(req) \subseteq Locker /\ j \notin Waiting(r)
      BY <2>5 DEF Waiting
    <3> QED BY <3>1, <3>2
  <2>7. Ordered(h.before, Waiting(r))
    <3>1. Ordered({x \in head.before : x[1] # j /\ x[2] # j}, Waiting(req) \ {j})
      BY <1>1, OrderedShorter, Zenon
    <3> QED BY <2>3, <2>6, <3>1
  <2>8. \A k, l : <<k, l>> \in h.before => <<k, l>> \in head.before
    BY <2>3
  <2> WITNESS h, r, TRUE
  <2> QED BY <2>1, <2>4, <2>5, <2>7, <2>8
<1>4. CASE CancelConversion(j)
  <2> DEFINE h == [head EXCEPT !.conversions = @ - 1, !.granted[req[j].convertMode] = @ - 1]
             q == [req[j] EXCEPT !.status = "GRANTED", !.convertMode = "NONE"]
             r == [req EXCEPT ![j] = q]
  <2>1. OnLockModeChanged(h, r, TRUE) /\ req[j].status = "CONVERTING"
    <3>1. r = [req EXCEPT ![j].status = "GRANTED", ![j].convertMode = "NONE"]
      BY <1>1
    <3> QED BY <1>4, <3>1 DEF CancelConversion
  <2>3. h.before = head.before
    BY <1>1 DEF HeadType
  <2>9. /\ q \in LockRequest /\ q.status = "GRANTED" /\ q.mode = req[j].mode /\ q.convertMode = "NONE"
        /\ q.place = req[j].place
    BY <1>1 DEF LockRequest
  <2> HIDE DEF q
  <2>4. r \in [Locker -> LockRequest] /\ r[j] = q /\ \A k \in Locker \ {j} : r[k] = req[k]
    BY <1>1, <2>9
  <2> HIDE DEF h, r
  <2>10. Shaped(q)
    BY <1>1, <2>1, <2>9 DEF Shaped
  <2>5. RequestsShaped(r) /\ r[j].status = "GRANTED"
    BY <1>1, <2>4, <2>9, <2>10 DEF RequestsShaped
  <2>6. Waiting(r) = Waiting(req)
    BY <2>1, <2>4, <2>5, Member, SameWaiting
  <2>7. Ordered(h.before, Waiting(r))
    BY <1>1, <2>3, <2>6
  <2> WITNESS h, r, TRUE
  <2> QED BY <2>1, <2>3, <2>4, <2>5, <2>7
<1>5. CASE Downgrade(j, m)
  <2> DEFINE h == [head EXCEPT !.granted = ModeChanged(@, req[j].mode, m)]
             q == [req[j] EXCEPT !.mode = m]
             r == [req EXCEPT ![j] = q]
  <2>1. OnLockModeChanged(h, r, TRUE) /\ req[j].status = "GRANTED" /\ req[j].place = "head"
    <3>1. r = [req EXCEPT ![j].mode = m]
      BY <1>1
    <3> QED BY <1>5, <3>1 DEF Downgrade
  <2>3. h.before = head.before
    BY <1>1 DEF HeadType
  <2>9. /\ q \in LockRequest /\ q.status = req[j].status /\ q.mode = m
        /\ q.convertMode = req[j].convertMode /\ q.place = req[j].place
    BY <1>1 DEF LockRequest
  <2> HIDE DEF q
  <2>4. r \in [Locker -> LockRequest] /\ r[j] = q /\ \A k \in Locker \ {j} : r[k] = req[k]
    BY <1>1, <2>9
  <2> HIDE DEF h, r
  <2>10. Shaped(q)
    BY <1>1, <2>1, <2>9 DEF Shaped
  <2>5. RequestsShaped(r) /\ r[j].status = "GRANTED"
    BY <1>1, <2>1, <2>4, <2>9, <2>10 DEF RequestsShaped
  <2>6. Waiting(r) = Waiting(req)
    BY <2>1, <2>4, <2>5, Member, SameWaiting
  <2>7. Ordered(h.before, Waiting(r))
    BY <1>1, <2>3, <2>6
  <2> WITNESS h, r, TRUE
  <2> QED BY <2>1, <2>3, <2>4, <2>5, <2>7
<1> QED BY <1>2, <1>3, <1>4, <1>5

(* A migration only moves requests.                                         *)
LEMMA Migrated ==
  ASSUME LockInv, NEW p \in partitions, MigratePartition(p), NEW l \in Locker
  PROVE  req'[l].status = req[l].status /\ req'[l].mode = req[l].mode
<1>1. req \in [Locker -> LockRequest] /\ req[l] \in LockRequest
  BY InvHead, InvThread
<1>2. req'[l] \in {req[l], [req[l] EXCEPT !.place = "head"]}
  BY <1>1 DEF MigratePartition
<1> QED BY <1>1, <1>2 DEF LockRequest

(* A change of the modes leaves alone a request that waits for nothing.      *)
LEMMA ModeChangeIdle ==
  ASSUME NEW h, NEW r, RequestsShaped(r), NEW b, OnLockModeChanged(h, r, b), NEW l \in Locker,
         notified[l] \in BOOLEAN, r[l].status # "WAITING", r[l].status # "CONVERTING"
  PROVE  req'[l] = r[l]
<1>1. r[l].status \notin {"WAITING", "CONVERTING"}
  OBVIOUS
<1> QED BY <1>1, ModeChangeOne, Zenon

(* A writer in a unit of work keeps its request.                            *)
LEMMA WriteLockKept ==
  ASSUME LockInv, [Next]_vars, NEW l \in Locker, wuow[l], pc[l] = "idle",
         req[l].mode \in {"IX", "X"}
  PROVE  req'[l].status = "GRANTED" /\ req'[l].mode = req[l].mode
<1>0. RequestModes \subseteq Mode /\ "IS" \in Mode
  BY LockAssumption DEF Mode
<1>1. /\ req[l].status = "GRANTED" /\ req \in [Locker -> LockRequest] /\ req[l] \in LockRequest
      /\ notified[l] \in BOOLEAN
  BY InvHead, InvThread DEF ThreadShaped, Shaped, NoRequest
<1>2. CASE UNCHANGED vars
  BY <1>1, <1>2 DEF vars
<1>3. CASE Migration
  <2>1. CASE StartCleanup \/ EndCleanup
    BY <1>1, <2>1 DEF StartCleanup, EndCleanup
  <2> QED BY <1>1, <1>3, <2>1, Migrated DEF Migration
<1>4. ASSUME NEW j \in Locker, j # l, Acquire(j) \/ Release(j) \/ UnitOfWork(j)
      PROVE  req'[l] = req[l]
  <2>1. ASSUME NEW m \in Mode, UnlockGranted(j) \/ CancelWaiting(j) \/ CancelConversion(j) \/ Downgrade(j, m)
        PROVE  req'[l] = req[l]
    <3>1. PICK h, r, b : /\ OnLockModeChanged(h, r, b) /\ RequestsShaped(r)
                         /\ \A k \in Locker \ {j} : r[k] = req[k]
      BY <2>1, Released
    <3>2. r[l] = req[l]
      BY <1>4, <3>1
    <3>3. r[l].status # "WAITING" /\ r[l].status # "CONVERTING" /\ notified[l] \in BOOLEAN
      BY <1>1, <3>2
    <3>4. req'[l] = r[l]
      BY <3>1, <3>3, ModeChangeIdle, Zenon
    <3> QED BY <3>2, <3>4
  <2>2. CASE Acquire(j)
    BY <1>0, <1>4, <2>2, OwnRequest DEF Acquire
  <2>3. CASE Release(j)
    BY <1>0, <1>4, <2>1, <2>3, OwnRequest DEF Release
  <2>4. CASE UnitOfWork(j)
    BY <1>0, <1>4, <2>4, OwnRequest
  <2> QED BY <1>4, <2>2, <2>3, <2>4
<1>5. ASSUME Acquire(l)
      PROVE  req'[l].status = "GRANTED" /\ req'[l].mode = req[l].mode
  <2>1. ASSUME NEW m \in Mode, Relock(l, m)
        PROVE  req'[l].status = "GRANTED" /\ req'[l].mode = req[l].mode
    <3> DEFINE c == req[l].compatibleFirst \/ IsPriority(m)
    <3>1. req'[l] = [req[l] EXCEPT !.count = req[l].count + 1, !.compatibleFirst = c]
      BY <1>1, <2>1 DEF Relock
    <3> HIDE DEF c
    <3> QED BY <1>1, <3>1 DEF LockRequest
  <2>2. ASSUME NEW m \in Mode, Reuse(l, m)
        PROVE  req'[l] = req[l]
    BY <2>2 DEF Reuse
  <2>3. \E m \in RequestModes : Reuse(l, m) \/ Relock(l, m)
    BY <1>1, <1>5 DEF Acquire, Lock, StartPartition, StartMigration, NewRequest, Convert,
                      WaitReturns, WaitFails, CanPartition
  <2> QED BY <1>0, <1>1, <2>1, <2>2, <2>3
<1>6. ASSUME Release(l)
      PROVE  req'[l].status = "GRANTED" /\ req'[l].mode = req[l].mode
  <2>1. Unlock(l)
    BY <1>6 DEF Release, Undo, UnlockPending, UnlockNested, UnlockGranted, CancelWaiting,
                CancelConversion, Downgrade
  <2>2. ShouldDelayUnlock(l)
    BY DEF ShouldDelayUnlock
  <2>3. CASE UNCHANGED <<req, pc>>
    BY <1>1, <2>3
  <2>4. CASE req[l].count > 1 /\ UnlockRequest(l)
    <3>1. req[l].count \in Nat
      BY <1>1 DEF LockRequest
    <3>2. req[l].count - 1 # 0
      BY <2>4, <3>1
    <3>3. req' = [req EXCEPT ![l].count = req[l].count - 1]
      BY <2>4, <3>2 DEF UnlockRequest
    <3>4. req'[l] = [req[l] EXCEPT !.count = req[l].count - 1]
      BY <1>1, <3>3
    <3> QED BY <1>1, <3>4 DEF LockRequest
  <2> QED BY <2>1, <2>2, <2>3, <2>4 DEF Unlock
<1>7. ASSUME UnitOfWork(l)
      PROVE  req'[l] = req[l]
  BY <1>7 DEF UnitOfWork, BeginWriteUnitOfWork, EndWriteUnitOfWork
<1> QED BY <1>1, <1>2, <1>3, <1>4, <1>5, <1>6, <1>7 DEF Next

(* Two-phase locking: between beginWriteUnitOfWork and endWriteUnitOfWork   *)
(* no step, of the thread or of another, takes away or weakens a lock held  *)
(* in IX or X (unlock puts it off, shouldDelayUnlock).                      *)
THEOREM WriteLocksKept == Spec => TwoPhase
<1>1. ASSUME LockInv, [Next]_vars
      PROVE  \A l \in Locker :
               wuow[l] /\ wuow'[l] /\ pc[l] = "idle" /\ req[l].mode \in {"IX", "X"}
               => l \in Holders' /\ IsModeCovered(req[l].mode, req'[l].mode)
  BY <1>1, WriteLockKept DEF Holders, IsModeCovered
<1>2. LockInv /\ [Next]_vars =>
        [\A l \in Locker :
           wuow[l] /\ wuow'[l] /\ pc[l] = "idle" /\ req[l].mode \in {"IX", "X"}
           => l \in Holders' /\ IsModeCovered(req[l].mode, req'[l].mode)]_vars
  BY <1>1
<1> QED BY <1>2, LockInvariance, PTL DEF Spec, TwoPhase

(* Without the policy a request is granted only after all that are ahead.   *)
LEMMA GrantedInOrder ==
  ASSUME NEW h, NEW r, NEW C, NEW G, GrantsFromQueue(h, r, C, G), G \subseteq Waiting(r),
         Ordered(h.before, Waiting(r)), \A k \in Waiting(r) : ~r[k].compatibleFirst, NEW l \in G
  PROVE  Ahead(h, r, l) \subseteq G
<1> DEFINE T == {Ahead(h, r, k) : k \in Ahead(h, r, l) \ G}
<1> SUFFICES ASSUME ~(Ahead(h, r, l) \subseteq G)
             PROVE  FALSE
  OBVIOUS
<1>1. \A k : Ahead(h, r, k) \subseteq Waiting(r) /\ Ahead(h, r, k) \in SUBSET Locker
  BY SubsetsOfLockers DEF Ahead
<1>2. T # {} /\ T \subseteq SUBSET Locker
  BY <1>1
<1>3. IsWellFoundedOn(StrictSubsetOrdering(Locker), SUBSET Locker)
  BY FS_StrictSubsetOrderingWellFounded, FS_FiniteSubsetsOfFinite, LockAssumption
<1>4. PICK A \in T : \A B \in T : <<B, A>> \notin StrictSubsetOrdering(Locker)
  BY <1>2, <1>3, WFMin
<1>5. PICK k \in Ahead(h, r, l) \ G : A = Ahead(h, r, k)
  OBVIOUS
<1>6. PICK j \in Ahead(h, r, k) : j \notin G
  <2>1. ~StopsAt(h, r, G, k)
    BY <1>5, QueueRule
  <2>2. ~\E i \in Ahead(h, r, k) \cap G : r[i].compatibleFirst
    BY <1>1
  <2> QED BY <1>5, <2>1, <2>2 DEF StopsAt
<1>7. /\ l \in Waiting(r) /\ k \in Waiting(r) /\ j \in Waiting(r)
      /\ <<k, l>> \in h.before /\ <<j, k>> \in h.before
  BY <1>5, <1>6 DEF Ahead
<1>8. j \in Ahead(h, r, l) \ G
  BY <1>6, <1>7 DEF Ahead, Ordered
<1>9. Ahead(h, r, j) \subseteq Ahead(h, r, k)
  BY <1>7 DEF Ahead, Ordered
<1>10. j \notin Ahead(h, r, j)
  BY <1>7 DEF Ahead, Ordered
<1>11. <<Ahead(h, r, j), Ahead(h, r, k)>> \in StrictSubsetOrdering(Locker)
  BY <1>1, <1>6, <1>9, <1>10 DEF StrictSubsetOrdering
<1> QED BY <1>4, <1>5, <1>8, <1>11

(* The same for every step that grants: a request is granted at once only   *)
(* if it does not conflict with the conflict list, and from the list only   *)
(* in order.                                                                *)
LEMMA NotOvertaken ==
  ASSUME LockInv, PolicyInv, [Next]_vars, ~Global, NEW k \in Locker, NEW l \in Locker,
         k \in Waiting(req), req'[k] = req[k],
         req[l].status \in {"NEW", "WAITING"}, req'[l].status = "GRANTED"
  PROVE  ~Clash(req'[l].mode, req[k].mode) \/ <<l, k>> \in head.before
<1>0. RequestModes \subseteq Mode /\ "IS" \in Mode
  BY LockAssumption DEF Mode
<1>1. /\ req \in [Locker -> LockRequest] /\ RequestsShaped(req) /\ Counted(head, req)
      /\ req[k].mode \in Mode /\ req[k].mode \in ConflictModes(head) /\ req[k].status = "WAITING"
      /\ k # l /\ req[l] \in LockRequest
  <2>1. req \in [Locker -> LockRequest] /\ RequestsShaped(req) /\ Counted(head, req)
    BY InvHead
  <2>2. req[k].status = "WAITING" /\ req[k].mode \in Mode
    BY <2>1, OnHeadFacts DEF Waiting
  <2>3. req[k].mode \in ConflictModes(head)
    BY <2>1, <2>2, ConflictIff
  <2> QED BY <2>1, <2>2, <2>3
<1>2. \A i \in Locker : ~req[i].compatibleFirst
  BY PolicyFacts DEF Marked
<1>3. head.compatibleFirst = 0
  <2>1. First(req) = {}
    BY <1>2 DEF First, OnHead
  <2> QED BY <2>1, PolicyFacts, FS_EmptySet
<1>4. ASSUME NEW j \in Locker, NEW m \in Mode,
             UnlockGranted(j) \/ CancelWaiting(j) \/ CancelConversion(j) \/ Downgrade(j, m)
      PROVE  <<l, k>> \in head.before
  <2>1. PICK h, r, b :
           /\ OnLockModeChanged(h, r, b) /\ b \in BOOLEAN /\ RequestsShaped(r)
           /\ \A i \in Locker \ {j} : r[i] = req[i]
           /\ r[j].status \in {"NONE", "GRANTED"}
           /\ Ordered(h.before, Waiting(r))
           /\ \A i \in Locker \ {j} : \A o \in Locker \ {j} :
                <<i, o>> \in h.before => <<i, o>> \in head.before
    BY <1>4, Released
  <2> DEFINE C == ConversionsGranted(h, r)
  <2>2. PICK G \in SUBSET Waiting(r) :
           /\ IF b THEN GrantsFromQueue(h, r, C, G) ELSE G = {}
           /\ req' = Regranted(r, C, G)
    BY <2>1, ModeChangedBy
  <2>3. C \subseteq Converting(r) /\ G \subseteq Waiting(r)
    BY <2>2 DEF ConversionsGranted
  <2> HIDE DEF C
  <2>4. \A i \in Locker : /\ req'[i].status = IF i \in C \cup G THEN "GRANTED" ELSE r[i].status
                          /\ i \notin C \cup G => req'[i] = r[i]
    BY <2>1, <2>2, <2>3, RegrantedFields
  <2>5. k # j /\ k \notin G
    <3>1. k \notin C \cup G
      BY <1>1, <2>4
    <3>2. r[k].status = "WAITING"
      BY <1>1, <2>4, <3>1
    <3> QED BY <2>1, <3>1, <3>2
  <2>6. l # j
    <3> SUFFICES ASSUME l = j
                 PROVE  FALSE
      OBVIOUS
    <3>1. UnlockGranted(l) \/ CancelWaiting(l) \/ CancelConversion(l) \/ Downgrade(l, m)
      BY <1>4
    <3>2. CancelWaiting(l)
      BY <3>1 DEF UnlockGranted, CancelConversion, Downgrade
    <3>3. OnLockModeChanged([head EXCEPT !.conflict[req[l].mode] = @ - 1,
                               !.before = {x \in @ : x[1] # l /\ x[2] # l}],
                            [req EXCEPT ![l] = NoRequest], TRUE)
      BY <3>2 DEF CancelWaiting
    <3> DEFINE hh == [head EXCEPT !.conflict[req[l].mode] = @ - 1,
                               !.before = {x \in @ : x[1] # l /\ x[2] # l}]
               rr == [req EXCEPT ![l] = NoRequest]
    <3>4. rr \in [Locker -> LockRequest] /\ rr[l] = NoRequest /\ \A i \in Locker \ {l} : rr[i] = req[i]
      BY <1>1, NoRequestShaped
    <3>5. OnLockModeChanged(hh, rr, TRUE)
      BY <3>3
    <3> HIDE DEF hh, rr
    <3>6. RequestsShaped(rr)
      BY <1>1, <3>4, NoRequestShaped DEF RequestsShaped
    <3>7. notified[l] \in BOOLEAN
      BY InvThread
    <3>8. req'[l] = NoRequest
      <4>1. rr[l].status # "WAITING" /\ rr[l].status # "CONVERTING"
        BY <3>4, NoRequestShaped
      <4>2. req'[l] = rr[l]
        BY <3>5, <3>6, <3>7, <4>1, ModeChangeIdle, Zenon
      <4> QED BY <3>4, <4>2
    <3> QED BY <3>8, NoRequestShaped
  <2>7. l \in G
    <3>1. r[l] = req[l]
      BY <2>1, <2>6
    <3>2. l \notin C
      BY <2>3, <3>1 DEF Converting
    <3> QED BY <2>4, <3>1, <3>2
  <2>8. GrantsFromQueue(h, r, C, G)
    BY <2>2, <2>7
  <2>9. k \in Waiting(r)
    BY <1>1, <2>1, <2>5 DEF Waiting
  <2>10. \A i \in Waiting(r) : ~r[i].compatibleFirst
    BY <1>2, <2>1 DEF Waiting
  <2>11. Ahead(h, r, l) \subseteq G
    BY <2>1, <2>3, <2>7, <2>8, <2>10, GrantedInOrder
  <2>12. <<k, l>> \notin h.before
    BY <2>5, <2>9, <2>11 DEF Ahead
  <2>13. <<l, k>> \in h.before
    BY <1>1, <2>1, <2>3, <2>7, <2>9, <2>12 DEF Ordered
  <2> QED BY <2>1, <2>5, <2>6, <2>13
<1>5. ASSUME NEW j \in Locker, NewRequest(j)
      PROVE  ~Clash(req'[l].mode, req[k].mode)
  <2>1. j = l
    BY <1>0, <1>1, <1>5, OwnRequest
  <2>2. req'[l] # req[l]
    BY <1>1
  <2> DEFINE g == [req[l] EXCEPT !.partitioned = FALSE, !.place = "head", !.status = "GRANTED"]
             q == [req[l] EXCEPT !.partitioned = FALSE, !.place = "head", !.status = "WAITING"]
  <2>3. \/ MustWait(l) /\ req'[l] = q
        \/ ~MustWait(l) /\ req'[l] = g
    BY <1>1, <1>5, <2>1 DEF NewRequest, LockRequest
  <2>4. q.status = "WAITING" /\ g.mode = req[l].mode
    BY <1>1 DEF LockRequest
  <2> HIDE DEF g, q
  <2>5. ~MustWait(l) /\ req'[l].mode = req[l].mode
    BY <2>3, <2>4
  <2>6. pc[l] = "lock" /\ ThreadShaped(req[l], pc[l], want[l], scope[l], pending[l], notified[l])
    BY <1>5, <2>1, InvThread DEF NewRequest
  <2>7. want[l] = req[l].mode
    BY <2>6 DEF ThreadShaped
  <2> QED BY <1>1, <1>3, <2>5, <2>7, ConflictsClash DEF MustWait
<1>6. ASSUME NEW j \in Locker, StartPartition(j)
      PROVE  FALSE
  BY <1>1, <1>6 DEF StartPartition, CanPartition
<1>7. ASSUME NEW j \in Locker, NEW m \in Mode,
             \/ Lock(j, m) \/ Reuse(j, m) \/ Relock(j, m) \/ StartMigration(j)
             \/ Convert(j) \/ WaitReturns(j) \/ WaitFails(j)
             \/ Unlock(j) \/ Undo(j) \/ UnlockPending(j) \/ UnlockNested(j) \/ UnitOfWork(j)
      PROVE  FALSE
  <2>1. j = l
    BY <1>1, <1>7, OwnRequest
  <2>2. ThreadShaped(req[l], pc[l], want[l], scope[l], pending[l], notified[l])
    BY InvThread
  <2>3. req'[l] # req[l]
    BY <1>1
  <2>4. CASE \/ Lock(l, m) \/ Reuse(l, m) \/ Relock(l, m) \/ Convert(l) \/ Unlock(l)
             \/ UnlockPending(l)
    <3>1. req[l].status \in {"NONE", "GRANTED"}
      BY <2>2, <2>4 DEF Lock, Reuse, Relock, Convert, Unlock, UnlockPending, MayBegin, ThreadShaped
    <3> QED BY <3>1
  <2>5. CASE StartMigration(l) \/ WaitReturns(l) \/ WaitFails(l) \/ UnlockNested(l) \/ UnitOfWork(l)
    BY <2>3, <2>5 DEF StartMigration, WaitReturns, WaitFails, UnlockNested, UnitOfWork,
                      BeginWriteUnitOfWork, EndWriteUnitOfWork
  <2>6. CASE Undo(l)
    <3>1. req'[l] \in {NoRequest, [req[l] EXCEPT !.count = req[l].count - 1]}
      BY <1>1, <2>6 DEF Undo, UnlockRequest
    <3>2. req'[l].status \in {"NONE", req[l].status}
      BY <1>1, <3>1, NoRequestShaped DEF LockRequest
    <3> QED BY <3>2
  <2> QED BY <1>7, <2>1, <2>4, <2>5, <2>6
<1>8. CASE Migration
  <2>1. CASE StartCleanup \/ EndCleanup
    BY <2>1 DEF StartCleanup, EndCleanup
  <2> QED BY <1>8, <2>1, Migrated DEF Migration
<1>9. CASE UNCHANGED vars
  BY <1>9 DEF vars
<1>10. ASSUME NEW j \in Locker, Acquire(j) \/ Release(j) \/ UnitOfWork(j)
       PROVE  ~Clash(req'[l].mode, req[k].mode) \/ <<l, k>> \in head.before
  <2>1. CASE Acquire(j)
    BY <1>0, <1>5, <1>6, <1>7, <2>1 DEF Acquire
  <2>2. CASE Release(j)
    BY <1>0, <1>4, <1>7, <2>2 DEF Release
  <2>3. CASE UnitOfWork(j)
    BY <1>0, <1>7, <2>3
  <2> QED BY <1>10, <2>1, <2>2, <2>3
<1> QED BY <1>8, <1>9, <1>10 DEF Next

(* Outside the compatible-first policy, newRequest and _onLockModeChanged   *)
(* never grant a request that conflicts with one that goes on waiting,      *)
(* unless it was ahead of it.                                               *)
THEOREM NobodyOvertakes == Spec => NoOvertaking
<1> DEFINE A == \A k, l \in Locker :
                  /\ ~Global
                  /\ k \in Waiting(req) /\ req'[k] = req[k]
                  /\ req[l].status \in {"NEW", "WAITING"} /\ req'[l].status = "GRANTED"
                  => ~Conflicts(req'[l].mode, {req[k].mode}) \/ <<l, k>> \in head.before
<1>1. CASE Global
  <2>1. A
    BY <1>1
  <2>2. [][A]_vars
    BY <2>1, PTL
  <2> QED BY <2>2 DEF NoOvertaking
<1>2. CASE ~Global
  <2>0. NoGlobalUpgrade
    BY <1>2 DEF NoGlobalUpgrade
  <2>1. ASSUME LockInv, PolicyInv, [Next]_vars
        PROVE  A
    BY <2>1, NotOvertaken, ConflictsClash
  <2>2. LockInv /\ PolicyInv /\ [Next]_vars => [A]_vars
    BY <2>1
  <2>3. Spec => []PolicyInv
    BY <2>0, PolicyInvariance
  <2>4. Spec => [][A]_vars
    BY <2>2, <2>3, LockInvariance, PTL DEF Spec
  <2> QED BY <2>4 DEF NoOvertaking
<1> QED BY <1>1, <1>2
====================
