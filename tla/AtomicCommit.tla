------------ MODULE AtomicCommit ------------
(***************************************************************************)
(* What a transaction over several shards promises, once nothing can be    *)
(* rolled back any more: every shard ends the way one decision says, and   *)
(* a decision to commit needs every shard prepared.                        *)
(***************************************************************************)
CONSTANT Shard

VARIABLES
  outcome,  \* what is durable of the transaction on each shard
  decision  \* the durable decision

Outcome  == {"unprepared", "prepared", "committed", "aborted"}
Decision == {"none", "commit", "abort"}

Init ==
  /\ outcome = [s \in Shard |-> "unprepared"]
  /\ decision = "none"

(* The decision is taken once, and to commit only with all prepared before. *)
Decide ==
  /\ decision = "none"
  /\ decision' = "commit" => \A s \in Shard : outcome[s] = "prepared"

(* A shard prepares, or ends as decided before; it need not prepare for an  *)
(* abort.                                                                   *)
Advance(s) ==
  CASE outcome'[s] = "prepared"  -> outcome[s] = "unprepared"
    [] outcome'[s] = "committed" -> outcome[s] = "prepared" /\ decision = "commit"
    [] outcome'[s] = "aborted"   -> outcome[s] \in {"unprepared", "prepared"} /\ decision = "abort"
    [] OTHER -> FALSE

(* Several of these may become durable together.                            *)
Next ==
  /\ decision' \in Decision /\ outcome' \in [Shard -> Outcome]
  /\ decision' = decision \/ Decide
  /\ \A s \in Shard : outcome'[s] = outcome[s] \/ Advance(s)

Spec == Init /\ [][Next]_<<outcome, decision>>
====================
