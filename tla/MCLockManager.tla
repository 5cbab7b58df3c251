------------ MODULE MCLockManager ------------
(* Instances of LockManager for TLC.                                        *)
EXTENDS LockManager, TLC

CONSTANTS l1, l2, l3, l4

(* Two lockers or more share a partition.                                   *)
TwoPartitions == [l \in Locker |-> IF l = l1 THEN 1 ELSE 2]

(* The lockers that neither upgrade nor use units of work are alike, but    *)
(* for l1, which is alone on its partition.                                 *)
Alike == Permutations(Locker \ {l1})
====================
