------------ MODULE VoteRequester ------------
(***************************************************************************)
(* VoteRequester::Algorithm (src/mongo/db/repl/vote_requester.cpp): how a  *)
(* candidate tallies the answers to one round of replSetRequestVotes.  The *)
(* module has no state of its own: a tally is a record that the Election   *)
(* module keeps per server, and these operators are the class's methods.   *)
(***************************************************************************)
EXTENDS Naturals, FiniteSets

CONSTANTS
  Server,   \* the voting members of the (fixed) replica set configuration
  NoServer  \* "no such member": candidate index -1, no primary host

ASSUME ServerAssumption == IsFiniteSet(Server) /\ NoServer \notin Server

(* ReplSetConfig::getMajorityVoteCount() is  votingMembers / 2 + 1.         *)
IsMajority(S) == 2 * Cardinality(S) > Cardinality(Server)

Phases == {"none", "dryRun", "writeVote", "requestVotes"}

(* One ElectionState together with its VoteRequester.                       *)
(*   phase       where ElectionState is; "none" is a null _electionState    *)
(*   term        the term the votes are requested for                       *)
(*   canceled    _isCanceled                                                *)
(*   primary     _primaryHost: the member whose "yes" a catchup takeover    *)
(*               needs, NoServer in every other round                       *)
(*   primaryVote _primaryVote                                               *)
(*   votes       the members that granted their vote (_votes starts at 1,   *)
(*               the candidate's own)                                       *)
(*   processed   the members counted in _responsesProcessed                 *)
(*   stale       _staleTerm                                                 *)
ElectionState ==
  [phase : Phases, term : Nat, canceled : BOOLEAN,
   primary : Server \cup {NoServer}, primaryVote : {"Pending", "Yes", "No"},
   votes : SUBSET Server, processed : SUBSET Server, stale : BOOLEAN]

(* VoteRequester::start: a fresh tally holding the candidate's own vote.    *)
NewTally(phase, c, t, p) ==
  [phase |-> phase, term |-> t, canceled |-> FALSE,
   primary |-> p, primaryVote |-> "Pending",
   votes |-> {c}, processed |-> {}, stale |-> FALSE]

NoElection == [NewTally("none", NoServer, 0, NoServer) EXCEPT !.votes = {}]

(* hasReceivedSufficientResponses                                           *)
\* mutant: the round is not over when every member has answered
SufficientWithoutLast(e, c) ==
  \/ e.primary # NoServer /\ e.primaryVote = "No"
  \/ /\ e.primary # NoServer => e.primaryVote # "Pending"
     /\ e.stale \/ IsMajority(e.votes)
HasReceivedSufficientResponses(e, c) ==
  \/ e.primary # NoServer /\ e.primaryVote = "No"
  \/ e.processed = Server \ {c}
  \/ /\ e.primary # NoServer => e.primaryVote # "Pending"
     /\ e.stale \/ IsMajority(e.votes)

(* getResult() = kSuccessfullyElected; every other result ends in the loss  *)
(* of the election.                                                         *)
SuccessfullyElected(e) ==
  /\ ~e.stale
  /\ e.primary # NoServer => e.primaryVote = "Yes"
  /\ IsMajority(e.votes)

(* processResponse, behind ScatterGatherRunner::processResponse, which      *)
(* drops what arrives after the round was decided; a member's RPC completes *)
(* once, with an answer or with a failure.                                  *)
ProcessResponse(e, c, v, granted, responseTerm) ==
  IF HasReceivedSufficientResponses(e, c) \/ v \in e.processed
    THEN e
    ELSE [e EXCEPT !.processed = @ \cup {v},
                   !.votes = IF granted THEN @ \cup {v} ELSE @,
                   !.primaryVote = IF v # e.primary THEN @
                                   ELSE IF granted THEN "Yes" ELSE "No",
                   !.stale = @ \/ responseTerm > e.term]

(* processResponse for a response that is not OK: timeout or network error. *)
ProcessFailure(e, v) == [e EXCEPT !.processed = @ \cup {v}]
====================
