------------ MODULE MCTwoPhaseCommit ------------
(* Instances of TwoPhaseCommit for TLC.                                     *)
EXTENDS TwoPhaseCommit

CONSTANTS s1, s2

(* The coordinator's shard s1 prepares before s2.                           *)
Timestamps == [s \in Shard |-> IF s = s1 THEN 1 ELSE 2]

OneFailoverEach == [s \in Shard |-> 2]
CoordinatorFailsTwice == [s \in Shard |-> IF s = s1 THEN 3 ELSE 1]
ParticipantFailsTwice == [s \in Shard |-> IF s = s1 THEN 1 ELSE 3]
====================
