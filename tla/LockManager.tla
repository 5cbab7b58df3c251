------------ MODULE LockManager ------------
(***************************************************************************)
(* The lock manager (src/mongo/db/concurrency/lock_manager.cpp) for one    *)
(* resource, and what LockerImpl (lock_state.cpp) does to it on behalf of  *)
(* the threads: acquisition with timeouts and interrupts, recursive        *)
(* acquisition and conversion, and delayed release in a WriteUnitOfWork.   *)
(* Resources do not influence each other in the lock manager: each has its *)
(* LockHead and its partitioned heads.  An action is one critical section  *)
(* of the bucket mutex or of a partition mutex; the bucket mutex is a      *)
(* variable because a migration of partitions takes several steps.         *)
(***************************************************************************)
EXTENDS Integers, Sequences, FiniteSets

CONSTANTS
  Locker,       \* the Lockers, one thread each
  NoLocker,     \* bucket mutex not held
  Cleaner,      \* the thread of UnusedLockCleaner
  PartitionOf,  \* _getPartition: the partition of each locker
  Global,       \* is the resource RESOURCE_GLOBAL, _PBWM or _RSTL?
  Upgraders,    \* lockers that convert to a mode they do not hold already
  UnitUsers,    \* environment: lockers that use WriteUnitOfWork
  RequestModes, \* environment: the modes that are requested
  MaxScopes     \* bound: nested acquisitions by one locker

Mode   == {"IS", "IX", "S", "X"}
Intent == {"IS", "IX"}

ASSUME LockAssumption ==
  /\ IsFiniteSet(Locker)
  /\ NoLocker \notin Locker /\ Cleaner \notin Locker /\ NoLocker # Cleaner
  /\ DOMAIN PartitionOf = Locker
  /\ Global \in BOOLEAN
  /\ Upgraders \subseteq Locker /\ UnitUsers \subseteq Locker
  /\ RequestModes \subseteq Mode
  /\ MaxScopes \in Nat

Partition == {PartitionOf[l] : l \in Locker}

(* LockConflictsTable, without MODE_NONE.                                   *)
LockConflictsTable ==
  [m \in Mode |-> CASE m = "IS" -> {"X"}
                    [] m = "IX" -> {"S", "X"}
                    [] m = "S"  -> {"IX", "X"}
                    [] m = "X"  -> Mode]

Conflicts(mode, modes) == LockConflictsTable[mode] \cap modes # {}

IsModeCovered(mode, by) == LockConflictsTable[mode] \subseteq LockConflictsTable[by]

VARIABLES
  req,        \* the LockRequest of each locker; status "NONE": no request
  head,       \* the LockHead
  partitions, \* LockHead::partitions = the partitions with a PartitionedLockHead
  bucket,     \* holder of the bucket mutex between two steps
  notified,   \* has CondVarLockGrantNotification the result LOCK_OK?
  pc,         \* where the thread is between critical sections
  want,       \* the mode being acquired
  scope,      \* the modes of the caller's open acquisitions, innermost last
  wuow,       \* inAWriteUnitOfWork
  pending     \* LockRequest::unlockPending

threadVars == <<pc, want, scope, wuow, pending>>
vars == <<req, head, partitions, bucket, notified, threadVars>>

(* place says on which list the request is: on the granted list of a        *)
(* PartitionedLockHead, or on one of the two lists of the LockHead.  In the *)
(* code compatibleFirst and enqueueAtFront are always set together.         *)
LockRequest ==
  [status : {"NONE", "NEW", "GRANTED", "WAITING", "CONVERTING"},
   mode : Mode \cup {"NONE"}, convertMode : Mode \cup {"NONE"}, count : Nat,
   partitioned : BOOLEAN, place : {"none", "partition", "head"},
   compatibleFirst : BOOLEAN]

NoRequest ==
  [status |-> "NONE", mode |-> "NONE", convertMode |-> "NONE", count |-> 0,
   partitioned |-> FALSE, place |-> "none", compatibleFirst |-> FALSE]

(* The LockHead without its lists, which are in req: the order of the       *)
(* conflict list is the relation "before".                                  *)
EmptyHead ==
  [granted |-> [m \in Mode |-> 0], conflict |-> [m \in Mode |-> 0],
   conversions |-> 0, compatibleFirst |-> 0, before |-> {}]

GrantedModes(h)  == {m \in Mode : h.granted[m] > 0}
ConflictModes(h) == {m \in Mode : h.conflict[m] > 0}

Waiting(r)    == {l \in Locker : r[l].status = "WAITING"}
Converting(r) == {l \in Locker : r[l].status = "CONVERTING"}
OnHead(r)     == {l \in Locker : /\ r[l].place = "head"
                                 /\ r[l].status \in {"GRANTED", "CONVERTING"}}

OfMode(S, r, m) == {l \in S : r[l].mode = m}

Init ==
  /\ req = [l \in Locker |-> NoRequest]
  /\ head = EmptyHead
  /\ partitions = {}
  /\ bucket = NoLocker
  /\ notified = [l \in Locker |-> FALSE]
  /\ pc = [l \in Locker |-> "idle"]
  /\ want = [l \in Locker |-> "NONE"]
  /\ scope = [l \in Locker |-> <<>>]
  /\ wuow = [l \in Locker |-> FALSE]
  /\ pending = [l \in Locker |-> 0]

--------------------
(* _onLockModeChanged: conversions first, then the conflict list.           *)

(* incGrantedModeCount and decGrantedModeCount.                             *)
ModeChanged(counts, from, to) ==
  [m \in Mode |-> counts[m] + (IF m = to THEN 1 ELSE 0) - (IF m = from THEN 1 ELSE 0)]

(* Granted and converting modes of the other requests.                      *)
\* mutant: by the modes held, not by how often they are
GrantedWithoutItsModes(h, r, l) == GrantedModes(h) \ {r[l].mode, r[l].convertMode}
GrantedWithout(h, r, l) ==
  {m \in Mode : h.granted[m] > Cardinality({x \in {"mode", "convertMode"} : r[l][x] = m})}

(* The loop over the granted list.  A conversion granted earlier only drops *)
(* a mode whose conflicts its new mode has too, so each is decided alone.   *)
\* mutant: what the request itself holds is counted as a conflict
ConversionsGrantedToNewcomers(h, r) ==
  {l \in Converting(r) : ~Conflicts(r[l].convertMode, GrantedModes(h) \ {r[l].convertMode})}
ConversionsGranted(h, r) ==
  {l \in Converting(r) : ~Conflicts(r[l].convertMode, GrantedWithout(h, r, l))}

(* G is what the loop over the conflict list grants, when the conversions C *)
(* have been granted.  It grants whatever is compatible with what is        *)
(* granted by then, front to back, but stops after an X and at a request    *)
(* that must go on waiting at the front, unless it has just switched to the *)
(* compatible-first policy.                                                 *)
GrantsFromQueue(h, r, C, G) ==
  LET Ahead(l) == {k \in Waiting(r) : <<k, l>> \in h.before}
      modes == {m \in Mode : h.granted[m] > Cardinality(OfMode(C, r, m))}
      NewlyCompatibleFirst(l) ==
        h.compatibleFirst = 0 /\ \E k \in Ahead(l) \cap G : r[k].compatibleFirst
      Stops(k) == IF k \in G THEN r[k].mode = "X"
                  ELSE Ahead(k) \subseteq G /\ ~NewlyCompatibleFirst(k)
  IN
  \A l \in Waiting(r) :
    l \in G <=>
      /\ \A k \in Ahead(l) : ~Stops(k)
      /\ ~Conflicts(r[l].mode, modes \cup {r[k].mode : k \in Ahead(l) \cap G})

(* What grants to S add to compatibleFirstCount.                            *)
CompatibleFirstForgotten(S, r) == 0  \* mutant: the count is left alone
CompatibleFirstAdded(S, r) == Cardinality({l \in S : r[l].compatibleFirst})

(* h and r are the head and the requests after the change that calls it.    *)
OnLockModeChanged(h, r, checkConflictQueue) ==
  LET C == ConversionsGranted(h, r) IN
  \E G \in SUBSET Waiting(r) :
    /\ IF checkConflictQueue THEN GrantsFromQueue(h, r, C, G) ELSE G = {}
    /\ head' =
         [granted |-> [m \in Mode |-> h.granted[m] - Cardinality(OfMode(C, r, m))
                                                   + Cardinality(OfMode(G, r, m))],
          conflict |-> [m \in Mode |-> h.conflict[m] - Cardinality(OfMode(G, r, m))],
          conversions |-> h.conversions - Cardinality(C),
          compatibleFirst |-> h.compatibleFirst + CompatibleFirstAdded(G, r),
          before |-> {b \in h.before : b[1] \notin G /\ b[2] \notin G}]
    /\ req' = [l \in Locker |->
         IF l \in C THEN [r[l] EXCEPT !.status = "GRANTED", !.mode = r[l].convertMode,
                                      !.convertMode = "NONE"]
         ELSE IF l \in G THEN [r[l] EXCEPT !.status = "GRANTED"]
         ELSE r[l]]
    /\ notified' = [l \in Locker |-> notified[l] \/ l \in C \cup G]

--------------------
(* Acquisition.                                                             *)

Goto(l, where) == pc' = [pc EXCEPT ![l] = where]

(* The end of an acquisition.  An interrupted operation gives the lock back *)
(* at once (_unlockImpl, whatever the WriteUnitOfWork says).  want is the   *)
(* parameter of the call: it is gone with it.                               *)
LockOk(l, m) ==
  /\ want' = [want EXCEPT ![l] = "NONE"]
  /\ \/ Goto(l, "idle") /\ scope' = [scope EXCEPT ![l] = Append(@, m)]
     \/ Goto(l, "undo") /\ UNCHANGED scope

(* The acquisition goes on at another place of the code.                    *)
Continue(l, m, where) ==
  /\ want' = [want EXCEPT ![l] = m]
  /\ Goto(l, where)
  /\ UNCHANGED scope

(* _notify.clear(), before the lock manager is invoked.                     *)
KeepNotification(l) == UNCHANGED notified  \* mutant: not cleared
ClearNotification(l) == notified' = [notified EXCEPT ![l] = FALSE]

(* A caller may acquire: it is not in the middle of something.              *)
MayBegin(l) == pc[l] = "idle" /\ (wuow[l] \/ pending[l] = 0)

IsPriority(m) == Global /\ m \in {"S", "X"}

(* _lockBegin and LockManager::lock, up to the partition's critical section *)
(* for an intent mode.                                                      *)
Lock(l, m) ==
  /\ MayBegin(l) /\ Len(scope[l]) < MaxScopes
  /\ req[l].status = "NONE"
  /\ ClearNotification(l)
  /\ LET r == [NoRequest EXCEPT !.status = "NEW", !.mode = m, !.count = 1,
                                !.partitioned = m \in Intent,
                                !.compatibleFirst = IsPriority(m)] IN
     IF m \in Intent /\ PartitionOf[l] \in partitions
       THEN /\ req' = [req EXCEPT ![l] = [r EXCEPT !.status = "GRANTED",
                                                   !.place = "partition"]]
            /\ LockOk(l, m)
       ELSE /\ req' = [req EXCEPT ![l] = r]
            /\ Continue(l, m, "lock")
  /\ UNCHANGED <<head, partitions, bucket, wuow, pending>>

(* Still in lock(): the resource has only intent modes and no conflicts.    *)
\* mutant: whoever waits is not looked at
CanPartitionDespiteWaiters(l) == want[l] \in Intent /\ GrantedModes(head) \subseteq Intent
CanPartition(l) ==
  /\ want[l] \in Intent
  /\ GrantedModes(head) \subseteq Intent /\ ConflictModes(head) = {}

StartPartition(l) ==
  /\ pc[l] = "lock" /\ bucket = NoLocker
  /\ CanPartition(l)
  /\ partitions' = partitions \cup {PartitionOf[l]}
  /\ req' = [req EXCEPT ![l].status = "GRANTED", ![l].place = "partition"]
  /\ LockOk(l, want[l])
  /\ UNCHANGED <<head, bucket, notified, wuow, pending>>

(* migratePartitionedLockHeads, called by lock, by convert and by the       *)
(* cleaner with the bucket mutex held; partition mutexes are taken one by   *)
(* one, so intent requests still come in on those not migrated yet.         *)
StartMigration(l) ==
  /\ bucket = NoLocker /\ partitions # {}
  /\ pc[l] = "convert" \/ (pc[l] = "lock" /\ ~CanPartition(l))
  /\ bucket' = l
  /\ UNCHANGED <<req, head, partitions, notified, threadVars>>

StartCleanup ==
  /\ bucket = NoLocker /\ partitions # {}
  /\ bucket' = Cleaner
  /\ UNCHANGED <<req, head, partitions, notified, threadVars>>

(* newRequest for each request of the partition; it must be granted.        *)
\* mutant: the modes of the migrated requests are not counted
MigrateUncounted(p) ==
  /\ bucket # NoLocker /\ p \in partitions
  /\ req' = [l \in Locker |-> IF req[l].place = "partition" /\ PartitionOf[l] = p
                                THEN [req[l] EXCEPT !.place = "head"] ELSE req[l]]
  /\ partitions' = partitions \ {p}
  /\ UNCHANGED <<head, bucket, notified, threadVars>>
MigratePartition(p) ==
  /\ bucket # NoLocker /\ p \in partitions
  /\ LET M == {l \in Locker : req[l].place = "partition" /\ PartitionOf[l] = p} IN
     /\ req' = [l \in Locker |-> IF l \in M THEN [req[l] EXCEPT !.place = "head"]
                                            ELSE req[l]]
     /\ head' = [head EXCEPT
          !.granted = [m \in Mode |-> @[m] + Cardinality(OfMode(M, req, m))],
          !.compatibleFirst = @ + CompatibleFirstAdded(M, req)]
  /\ partitions' = partitions \ {p}
  /\ UNCHANGED <<bucket, notified, threadVars>>

(* _cleanupUnusedLocksInBucket: a head that has nothing granted is deleted, *)
(* and it is empty (EmptyHead) when it is made again.                       *)
EndCleanup ==
  /\ bucket = Cleaner /\ partitions = {}
  /\ bucket' = NoLocker
  /\ UNCHANGED <<req, head, partitions, notified, threadVars>>

(* LockHead::newRequest, the end of lock().                                 *)
\* mutant: whoever waits is not looked at
MustWaitForGranted(l) == Conflicts(want[l], GrantedModes(head))
\* mutant: the parenthesis in the wrong place
MustWaitUnlessCompatibleFirst(l) ==
  /\ head.compatibleFirst = 0
  /\ Conflicts(want[l], GrantedModes(head) \cup ConflictModes(head))
MustWait(l) ==
  \/ Conflicts(want[l], GrantedModes(head))
  \/ head.compatibleFirst = 0 /\ Conflicts(want[l], ConflictModes(head))

NewRequest(l) ==
  /\ pc[l] = "lock" /\ partitions = {}
  /\ bucket = l \/ (bucket = NoLocker /\ ~CanPartition(l))
  /\ bucket' = NoLocker
  /\ LET r == [req[l] EXCEPT !.partitioned = FALSE, !.place = "head"] IN
     IF MustWait(l)
       THEN /\ req' = [req EXCEPT ![l] = [r EXCEPT !.status = "WAITING"]]
            /\ head' = [head EXCEPT
                 !.conflict[want[l]] = @ + 1,
                 !.before = @ \cup (IF r.compatibleFirst THEN {l} \X Waiting(req)
                                                         ELSE Waiting(req) \X {l})]
            /\ Continue(l, want[l], "wait")
       ELSE /\ req' = [req EXCEPT ![l] = [r EXCEPT !.status = "GRANTED"]]
            /\ head' = [head EXCEPT
                 !.granted[want[l]] = @ + 1,
                 !.compatibleFirst = @ + (IF r.compatibleFirst THEN 1 ELSE 0)]
            /\ LockOk(l, want[l])
  /\ UNCHANGED <<partitions, notified, wuow, pending>>

(* _lockBegin on a resource that waits for the end of the WriteUnitOfWork   *)
(* to be unlocked, in a mode that is held: the pending unlock is taken back.*)
CanReuseAnyMode(l, m) == pending[l] > 0  \* mutant: the mode is not compared
CanReuse(l, m) == pending[l] > 0 /\ IsModeCovered(m, req[l].mode)

Reuse(l, m) ==
  /\ MayBegin(l) /\ Len(scope[l]) < MaxScopes
  /\ CanReuse(l, m)
  /\ pending' = [pending EXCEPT ![l] = @ - 1]
  /\ scope' = [scope EXCEPT ![l] = Append(@, m)]
  /\ UNCHANGED <<req, head, partitions, bucket, notified, pc, want, wuow>>

(* _lockBegin on any other resource that is held, and LockManager::convert  *)
(* up to the bucket mutex, which a mode that is covered does not need.      *)
Relock(l, m) ==
  /\ MayBegin(l) /\ Len(scope[l]) < MaxScopes
  /\ req[l].status = "GRANTED"
  /\ ~CanReuse(l, m)
  /\ ClearNotification(l)
  /\ req' = [req EXCEPT ![l].count = @ + 1,
                        ![l].compatibleFirst = @ \/ IsPriority(m)]
  /\ \/ IsModeCovered(m, req[l].mode) /\ LockOk(l, m)
     \/ /\ ~IsModeCovered(m, req[l].mode)
        /\ l \in Upgraders /\ IsModeCovered(req[l].mode, m)
        /\ Continue(l, m, "convert")
  /\ UNCHANGED <<head, partitions, bucket, wuow, pending>>

(* The rest of convert().  Waiting requests are not looked at: a conversion *)
(* goes before them.                                                        *)
Convert(l) ==
  /\ pc[l] = "convert" /\ partitions = {}
  /\ bucket \in {l, NoLocker}
  /\ bucket' = NoLocker
  /\ IF Conflicts(want[l], GrantedWithout(head, req, l))
       THEN /\ req' = [req EXCEPT ![l].status = "CONVERTING", ![l].convertMode = want[l]]
            /\ head' = [head EXCEPT !.conversions = @ + 1, !.granted[want[l]] = @ + 1]
            /\ Continue(l, want[l], "wait")
       ELSE /\ req' = [req EXCEPT ![l].mode = want[l]]
            /\ head' = [head EXCEPT !.granted = ModeChanged(@, req[l].mode, want[l])]
            /\ LockOk(l, want[l])
  /\ UNCHANGED <<partitions, notified, wuow, pending>>

(* _lockComplete: the wait ends with the notification, or by timeout or     *)
(* interrupt, which may lose the race against a grant.                      *)
WaitReturns(l) ==
  /\ pc[l] = "wait" /\ notified[l]
  /\ LockOk(l, want[l])
  /\ UNCHANGED <<req, head, partitions, bucket, notified, wuow, pending>>

WaitFails(l) ==
  /\ pc[l] = "wait" /\ ~notified[l]
  /\ Continue(l, "NONE", "undo")
  /\ UNCHANGED <<req, head, partitions, bucket, notified, wuow, pending>>

--------------------
(* Release.                                                                 *)

(* LockManager::unlock up to the bucket mutex: a request that was acquired  *)
(* partitioned is looked for on its partition first.                        *)
UnlockRequest(l) ==
  LET n == req[l].count - 1 IN
  \/ /\ req[l].partitioned /\ req[l].status = "GRANTED" /\ n > 0
     /\ req' = [req EXCEPT ![l].count = n]
     /\ Goto(l, "idle")
  \/ /\ req[l].place = "partition" /\ n = 0
     /\ req' = [req EXCEPT ![l] = NoRequest]
     /\ Goto(l, "idle")
  \/ /\ req[l].place = "head"
     /\ ~(req[l].partitioned /\ req[l].status = "GRANTED" /\ n > 0)
     /\ req' = [req EXCEPT ![l].count = n]
     /\ Goto(l, "unlock")

(* ... and with the bucket mutex.  A waiting or converting request that was *)
(* granted meanwhile is released like any granted one.                      *)
UnlockNested(l) ==
  /\ pc[l] = "unlock" /\ bucket = NoLocker
  /\ req[l].status = "GRANTED" /\ req[l].count > 0
  /\ Goto(l, "idle")
  /\ UNCHANGED <<req, head, partitions, bucket, notified, want, scope, wuow, pending>>

UnlockGranted(l) ==
  LET m == req[l].mode
      h == [head EXCEPT !.granted[m] = @ - 1,
                        !.compatibleFirst = @ - (IF req[l].compatibleFirst THEN 1 ELSE 0)]
  IN
  /\ pc[l] = "unlock" /\ bucket = NoLocker
  /\ req[l].status = "GRANTED" /\ req[l].count = 0
  /\ OnLockModeChanged(h, [req EXCEPT ![l] = NoRequest], h.granted[m] = 0)
  /\ Goto(l, "idle")
  /\ UNCHANGED <<partitions, bucket, want, scope, wuow, pending>>

\* mutant: the conflict list is not scanned
CancelWaitingQuietly(l) ==
  LET h == [head EXCEPT !.conflict[req[l].mode] = @ - 1,
                        !.before = {b \in @ : b[1] # l /\ b[2] # l}] IN
  /\ pc[l] = "unlock" /\ bucket = NoLocker
  /\ req[l].status = "WAITING"
  /\ OnLockModeChanged(h, [req EXCEPT ![l] = NoRequest], FALSE)
  /\ Goto(l, "idle")
  /\ UNCHANGED <<partitions, bucket, want, scope, wuow, pending>>
CancelWaiting(l) ==
  LET h == [head EXCEPT !.conflict[req[l].mode] = @ - 1,
                        !.before = {b \in @ : b[1] # l /\ b[2] # l}] IN
  /\ pc[l] = "unlock" /\ bucket = NoLocker
  /\ req[l].status = "WAITING"
  /\ OnLockModeChanged(h, [req EXCEPT ![l] = NoRequest], TRUE)
  /\ Goto(l, "idle")
  /\ UNCHANGED <<partitions, bucket, want, scope, wuow, pending>>

(* convertMode is reset before its count is looked at, so the conflict list *)
(* is always scanned.                                                       *)
\* mutant: the mode that is held is no longer counted, in place of convertMode
CancelConversionOfMode(l) ==
  LET h == [head EXCEPT !.conversions = @ - 1, !.granted[req[l].mode] = @ - 1] IN
  /\ pc[l] = "unlock" /\ bucket = NoLocker
  /\ req[l].status = "CONVERTING"
  /\ OnLockModeChanged(h, [req EXCEPT ![l].status = "GRANTED",
                                      ![l].convertMode = "NONE"], TRUE)
  /\ Goto(l, "idle")
  /\ UNCHANGED <<partitions, bucket, want, scope, wuow, pending>>
CancelConversion(l) ==
  LET h == [head EXCEPT !.conversions = @ - 1, !.granted[req[l].convertMode] = @ - 1] IN
  /\ pc[l] = "unlock" /\ bucket = NoLocker
  /\ req[l].status = "CONVERTING"
  /\ OnLockModeChanged(h, [req EXCEPT ![l].status = "GRANTED",
                                      ![l].convertMode = "NONE"], TRUE)
  /\ Goto(l, "idle")
  /\ UNCHANGED <<partitions, bucket, want, scope, wuow, pending>>

(* unlockOnErrorGuard, and the interrupt check of _lockBegin.               *)
Undo(l) ==
  /\ pc[l] = "undo"
  /\ UnlockRequest(l)
  /\ UNCHANGED <<head, partitions, bucket, notified, want, scope, wuow, pending>>

(* _shouldDelayUnlock, when shared locks do not two-phase lock.             *)
DelayExclusiveOnly(l) == wuow[l] /\ req[l].mode = "X"  \* mutant: IX is not delayed
ShouldDelayUnlock(l) == wuow[l] /\ req[l].mode \in {"IX", "X"}

(* LockerImpl::unlock at the end of the innermost scope.                    *)
Unlock(l) ==
  /\ MayBegin(l) /\ scope[l] # <<>>
  /\ scope' = [scope EXCEPT ![l] = SubSeq(@, 1, Len(@) - 1)]
  /\ \/ /\ ~ShouldDelayUnlock(l) \/ req[l].count > 1
        /\ UnlockRequest(l)
        /\ UNCHANGED pending
     \/ /\ ShouldDelayUnlock(l) /\ req[l].count = 1
        /\ pending' = [pending EXCEPT ![l] = @ + 1]
        /\ UNCHANGED <<req, pc>>
  /\ UNCHANGED <<head, partitions, bucket, notified, want, wuow>>

BeginWriteUnitOfWork(l) ==
  /\ MayBegin(l) /\ ~wuow[l] /\ l \in UnitUsers
  /\ wuow' = [wuow EXCEPT ![l] = TRUE]
  /\ UNCHANGED <<req, head, partitions, bucket, notified, pc, want, scope, pending>>

(* endWriteUnitOfWork: leaves the unit, then carries out pending unlocks.   *)
EndWriteUnitOfWork(l) ==
  /\ pc[l] = "idle" /\ wuow[l]
  /\ wuow' = [wuow EXCEPT ![l] = FALSE]
  /\ UNCHANGED <<req, head, partitions, bucket, notified, pc, want, scope, pending>>

UnlockPending(l) ==
  /\ pc[l] = "idle" /\ ~wuow[l] /\ pending[l] > 0
  /\ pending' = [pending EXCEPT ![l] = @ - 1]
  /\ UnlockRequest(l)
  /\ UNCHANGED <<head, partitions, bucket, notified, want, scope, wuow>>

(* LockManager::downgrade, called with a single acquisition open and        *)
(* outside a WriteUnitOfWork.                                               *)
\* mutant: the conflict list is not scanned
DowngradeQuietly(l, m) ==
  LET h == [head EXCEPT !.granted = ModeChanged(@, req[l].mode, m)] IN
  /\ MayBegin(l) /\ ~wuow[l] /\ Len(scope[l]) = 1 /\ bucket = NoLocker
  /\ req[l].status = "GRANTED" /\ req[l].place = "head"
  /\ m # req[l].mode /\ IsModeCovered(m, req[l].mode)
  /\ scope' = [scope EXCEPT ![l] = <<m>>]
  /\ OnLockModeChanged(h, [req EXCEPT ![l].mode = m], FALSE)
  /\ UNCHANGED <<partitions, bucket, pc, want, wuow, pending>>
Downgrade(l, m) ==
  LET h == [head EXCEPT !.granted = ModeChanged(@, req[l].mode, m)] IN
  /\ MayBegin(l) /\ ~wuow[l] /\ Len(scope[l]) = 1 /\ bucket = NoLocker
  /\ req[l].status = "GRANTED" /\ req[l].place = "head"
  /\ m # req[l].mode /\ IsModeCovered(m, req[l].mode)
  /\ scope' = [scope EXCEPT ![l] = <<m>>]
  /\ OnLockModeChanged(h, [req EXCEPT ![l].mode = m], TRUE)
  /\ UNCHANGED <<partitions, bucket, pc, want, wuow, pending>>

--------------------
Acquire(l) ==
  \/ \E m \in RequestModes : Lock(l, m) \/ Reuse(l, m) \/ Relock(l, m)
  \/ StartPartition(l)
  \/ StartMigration(l)
  \/ NewRequest(l)
  \/ Convert(l)
  \/ WaitReturns(l)
  \/ WaitFails(l)

Release(l) ==
  \/ Unlock(l)
  \/ Undo(l)
  \/ UnlockPending(l)
  \/ UnlockNested(l)
  \/ UnlockGranted(l)
  \/ CancelWaiting(l)
  \/ CancelConversion(l)
  \/ \E m \in RequestModes : Downgrade(l, m)

UnitOfWork(l) == BeginWriteUnitOfWork(l) \/ EndWriteUnitOfWork(l)

Migration == StartCleanup \/ EndCleanup \/ \E p \in partitions : MigratePartition(p)

Next == Migration \/ \E l \in Locker : Acquire(l) \/ Release(l) \/ UnitOfWork(l)

Spec == Init /\ [][Next]_vars

--------------------
(* Properties.                                                              *)

LockHead ==
  [granted : [Mode -> Nat], conflict : [Mode -> Nat], conversions : Nat,
   compatibleFirst : Nat, before : SUBSET (Locker \X Locker)]

(* Type correctness; in particular no counter of the head goes below zero,  *)
(* the invariants of decGrantedModeCount and its likes.                     *)
TypeOK ==
  /\ req \in [Locker -> LockRequest]
  /\ head \in LockHead
  /\ partitions \subseteq Partition
  /\ bucket \in Locker \cup {NoLocker, Cleaner}
  /\ notified \in [Locker -> BOOLEAN]
  /\ pc \in [Locker -> {"idle", "lock", "convert", "wait", "undo", "unlock"}]
  /\ want \in [Locker -> Mode \cup {"NONE"}]
  /\ scope \in [Locker -> Seq(Mode)]
  /\ wuow \in [Locker -> BOOLEAN]
  /\ pending \in [Locker -> Nat]

Holders == {l \in Locker : req[l].status \in {"GRANTED", "CONVERTING"}}

(* The lock is never held in two conflicting modes, whether the holders are *)
(* on a partition, on the lock head, converting or being migrated.          *)
GrantsCompatible ==
  \A k, l \in Holders : k # l => ~Conflicts(req[l].mode, {req[k].mode})

(* "These counts should exactly match the aggregated modes" of the lists.   *)
CountsMatch ==
  /\ \A m \in Mode :
       /\ head.granted[m] = Cardinality(OfMode(OnHead(req), req, m))
             + Cardinality({l \in Converting(req) : req[l].convertMode = m})
       /\ head.conflict[m] = Cardinality(OfMode(Waiting(req), req, m))
  /\ head.conversions = Cardinality(Converting(req))

(* compatibleFirstCount counts the granted requests that asked for the      *)
(* policy: with less, unlock's invariant(compatibleFirstCount > 0) fails,   *)
(* with more the resource never returns to FIFO.                            *)
CompatibleFirstCounted ==
  head.compatibleFirst = Cardinality({l \in OnHead(req) : req[l].compatibleFirst})

(* migratePartitionedLockHeads: "There can't be non-intent modes or         *)
(* conflicts when the lock is partitioned"; so a migrated request is        *)
(* granted again.                                                           *)
PartitionedOnlyIntent ==
  partitions # {} => GrantedModes(head) \subseteq Intent /\ ConflictModes(head) = {}

(* No grant is lost: somebody holds what others wait for; the request at    *)
(* the front of the conflict list conflicts with what is granted (or, if it *)
(* went to the front past a waiting request, with that one); and a waiting  *)
(* conversion conflicts with what the others hold or convert to.            *)
NoLostGrant ==
  /\ Waiting(req) # {} => GrantedModes(head) # {}
  /\ \A l \in Waiting(req) :
       (\A k \in Waiting(req) : <<k, l>> \notin head.before)
         => \/ Conflicts(req[l].mode, GrantedModes(head))
            \/ req[l].compatibleFirst /\ Conflicts(req[l].mode, ConflictModes(head))
  /\ \A l \in Converting(req) :
       Conflicts(req[l].convertMode, GrantedWithout(head, req, l))

(* A thread that waits is notified when its request is granted and not      *)
(* before, and once (notify's invariant).                                   *)
NotifiedWhenGranted ==
  \A l \in Locker : pc[l] = "wait" => (notified[l] <=> req[l].status = "GRANTED")

(* A caller inside its scope holds the lock in a mode that covers the       *)
(* scope's, whatever was timed out, interrupted, taken back or delayed; and *)
(* outside all scopes nothing is left behind.                               *)
ScopesHeld ==
  \A l \in Locker :
    /\ \A i \in 1..Len(scope[l]) :
         l \in Holders /\ IsModeCovered(scope[l][i], req[l].mode)
    /\ pc[l] = "idle" /\ scope[l] = <<>> /\ pending[l] = 0 => req[l] = NoRequest

(* Two-phase locking: in a WriteUnitOfWork a lock held for writing is kept, *)
(* after its last unlock too.                                               *)
TwoPhase ==
  [][\A l \in Locker :
       wuow[l] /\ wuow'[l] /\ pc[l] = "idle" /\ req[l].mode \in {"IX", "X"}
       => l \in Holders' /\ IsModeCovered(req[l].mode, req'[l].mode)]_vars

(* Outside the compatible-first policy nobody overtakes: a request that is  *)
(* granted, at once or from the queue, on a partition or on the head, does  *)
(* not conflict with one that goes on waiting, unless it was ahead of it.   *)
NoOvertaking ==
  [][\A k, l \in Locker :
       /\ ~Global
       /\ k \in Waiting(req) /\ req'[k] = req[k]
       /\ req[l].status \in {"NEW", "WAITING"} /\ req'[l].status = "GRANTED"
       => ~Conflicts(req'[l].mode, {req[k].mode}) \/ <<l, k>> \in head.before]_vars

(* The comment in _onLockModeChanged: when an X lock is freed, "the loop    *)
(* below would actually grant all IS + S modes and once they all drain it   *)
(* will grant X", so that whatever still waits conflicts.                   *)
GrantsAllCompatible ==
  [][\A l \in Locker :
       UnlockGranted(l) /\ req[l].mode = "X"
       => \A k \in Waiting(req)' : Conflicts(req[k].mode, GrantedModes(head'))]_vars

--------------------
(* Fairness.  A thread inside the lock manager goes on and gets the mutex   *)
(* it keeps asking for (strong fairness); so does a migration.  Lock scopes *)
(* are RAII objects: a caller that may leave its innermost scope does, and  *)
(* one that again and again may leave the outermost one, at last does.      *)
(* Nothing is said of WaitFails: no timeout is needed for progress.         *)
InLockManager(l) ==
  \/ StartPartition(l) \/ StartMigration(l) \/ NewRequest(l) \/ Convert(l)
  \/ WaitReturns(l) \/ Undo(l) \/ UnlockPending(l)
  \/ UnlockNested(l) \/ UnlockGranted(l) \/ CancelWaiting(l) \/ CancelConversion(l)

FairSpec ==
  /\ Spec
  /\ WF_vars(EndCleanup \/ \E p \in partitions : MigratePartition(p))
  /\ \A l \in Locker :
       /\ SF_vars(InLockManager(l))
       /\ WF_vars(Unlock(l))
       /\ SF_vars(Unlock(l) /\ Len(scope[l]) = 1)

(* Every wait for the lock ends: no grant, no notification and no migration *)
(* is missed, and a waiting request is not starved by conversions or by     *)
(* compatible requests.                                                     *)
WaitEnds == \A l \in Locker : pc[l] = "wait" ~> pc[l] # "wait"
====================
