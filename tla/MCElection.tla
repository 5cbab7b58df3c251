------------ MODULE MCElection ------------
(* Instances of Election for TLC: s1, s2, s3 are the members.               *)
EXTENDS Election, TLC

CONSTANTS s1, s2, s3

(* Members with the same part to play are interchangeable; only in runs     *)
(* without temporal properties.                                             *)
Symmetry == Permutations(Server \ Arbiter)
====================
