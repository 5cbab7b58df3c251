------------ MODULE Election ------------
(***************************************************************************)
(* Replica-set elections as mongod runs them: the ElectionState of a       *)
(* candidate (replication_coordinator_impl_elect_v1.cpp), the voter's side *)
(* of replSetRequestVotes, term updates and the step downs they cause      *)
(* (replication_coordinator_impl*.cpp, topology_coordinator.cpp), and the  *)
(* durable lastVote document.  An action is one critical section of        *)
(* ReplicationCoordinatorImpl::_mutex or one wait-free step of a thread    *)
(* outside it.  The configuration is fixed.                                *)
(***************************************************************************)
EXTENDS VoteRequester, Integers

CONSTANTS
  Arbiter,             \* voting members without data; never candidates
  MaxTerm,             \* bound: no election is started beyond this term
  MaxElections,        \* bound: elections started by all servers together
  MaxDryRuns,          \* bound: how many of them begin with a dry run
  MaxRestarts,         \* bound: crashes of all servers together
  VoteWindows          \* environment: the windows, of "stepDown" and "startup",
                       \* in which a vote request may reach a server

ASSUME ElectionAssumption ==
  /\ Arbiter \subseteq Server
  /\ MaxTerm \in Nat
  /\ {MaxElections, MaxDryRuns, MaxRestarts} \subseteq Nat
  /\ VoteWindows \subseteq {"stepDown", "startup"}

VARIABLES
  started,      \* has _finishLoadLocalConfig restored the term?
  term,         \* TopologyCoordinator::_term
  role,         \* TopologyCoordinator::_role
  leaderMode,   \* TopologyCoordinator::_leaderMode
  stepDownBy,   \* which thread completes the step down in progress
  pendingTerm,  \* _pendingTermUpdateDuringStepDown, 0 when boost::none
  lastVote,     \* TopologyCoordinator::_lastVote
  lastVoteDoc,  \* the document of local.replset.election
  lastApplied,  \* my lastApplied OpTime
  lastDurable,  \* my lastDurable OpTime: what a crash leaves of the oplog
  election,     \* the ElectionState of each server
  rpcs,         \* replSetRequestVotes commands on their way or being run
  used,         \* elections, dry runs, crashes and terms, so far
  cast,         \* history: <<voter, term, candidate>> of votes reported granted
  wins          \* history: <<term, server>> of elections won

topVars   == <<started, term, role, leaderMode, stepDownBy, pendingTerm>>
voteVars  == <<lastVote, lastVoteDoc, cast>>
opVars    == <<lastApplied, lastDurable>>
vars == <<topVars, voteVars, opVars, election, rpcs, used, wins>>

--------------------
(* Data.                                                                    *)

OpTime == [t : Nat, i : Nat]

(* OpTime::operator<  compares the term first, then the timestamp.          *)
OpLess(a, b) == a.t < b.t \/ (a.t = b.t /\ a.i < b.i)

NullOpTime == [t |-> 0, i |-> 0]

LastVote == [term : Nat, cand : Server \cup {NoServer}]

(* A replSetRequestVotes command.  pc: "request" on the network, then in    *)
(* ReplicationCoordinatorImpl::processReplSetRequestVotes "stepDownWait"    *)
(* (in updateTerm, waiting for the step down it triggered), "vote" (about   *)
(* to take _mutex and ask the topology coordinator), "store" (granted in    *)
(* memory, storing the lastVote document).                                  *)
Rpc == [from : Server, to : Server, term : Nat, dry : BOOLEAN, la : OpTime,
        rterm : Nat, pc : {"request", "stepDownWait", "vote", "store"}]

Request(c, v, t, dry) ==
  [from |-> c, to |-> v, term |-> t, dry |-> dry, la |-> lastApplied[c],
   rterm |-> 0, pc |-> "request"]

VoteRequests(c, t, dry) == {Request(c, v, t, dry) : v \in Server \ {c}}

Max2(a, b) == IF a > b THEN a ELSE b

(* OpTime::kInitialTerm, which TopologyCoordinator::updateConfig sets.      *)
UninitializedTerm == -1  \* mutant: OpTime::kUninitializedTerm instead
InitialTerm == 0

--------------------
Init ==
  /\ started     = [n \in Server |-> TRUE]
  /\ term        = [n \in Server |-> InitialTerm]
  /\ role        = [n \in Server |-> "follower"]
  /\ leaderMode  = [n \in Server |-> "NotLeader"]
  /\ stepDownBy  = [n \in Server |-> "none"]
  /\ pendingTerm = [n \in Server |-> 0]
  /\ lastVote    = [n \in Server |-> [term |-> 0, cand |-> NoServer]]
  /\ lastVoteDoc = lastVote
  /\ lastApplied = [n \in Server |->
                      IF n \in Arbiter THEN NullOpTime ELSE [t |-> 0, i |-> 1]]
  /\ lastDurable = lastApplied
  /\ election    = [n \in Server |-> NoElection]
  /\ used = [elections |-> 0, dryRuns |-> 0, restarts |-> 0, terms |-> 0]
  /\ rpcs = {} /\ cast = {} /\ wins = {}

--------------------
(* Terms and step downs.                                                    *)

(* TopologyCoordinator::updateTerm with _updateTerm_inlock around it: a     *)
(* follower or candidate adopts a higher term at once; a leader only        *)
(* remembers it and begins an unconditional step down, if none has begun.   *)
\* mutant: a leader adopts the term at once too
UpdateTermAtOnce(n, t) ==
  /\ term' = [term EXCEPT ![n] = Max2(@, t)]
  /\ UNCHANGED <<started, role, leaderMode, stepDownBy, pendingTerm>>
UpdateTerm(n, t) ==
  IF t <= term[n] THEN UNCHANGED topVars
  ELSE IF role[n] # "leader"
    THEN /\ term' = [term EXCEPT ![n] = t]
         /\ UNCHANGED <<started, role, leaderMode, stepDownBy, pendingTerm>>
  ELSE /\ pendingTerm' = [pendingTerm EXCEPT ![n] = Max2(@, t)]
       /\ leaderMode'  = [leaderMode EXCEPT ![n] = "SteppingDown"]
       /\ stepDownBy'  = [stepDownBy EXCEPT
                            ![n] = IF @ = "none" THEN "callback" ELSE @]
       /\ UNCHANGED <<started, term, role>>

(* A heartbeat request, a heartbeat response or the metadata of a command,  *)
(* however late, brings a term that some server once was in.                *)
LearnTerm(n, t) ==
  /\ t > term[n]
  /\ UpdateTerm(n, t)
  /\ UNCHANGED <<voteVars, opVars, election, rpcs, used, wins>>

(* HeartbeatResponseAction::StepDownSelf: a primary that no longer sees a   *)
(* majority steps down in its current term.                                 *)
StepDownSelf(n) ==
  /\ role[n] = "leader" /\ leaderMode[n] # "SteppingDown"
  /\ leaderMode' = [leaderMode EXCEPT ![n] = "SteppingDown"]
  /\ stepDownBy' = [stepDownBy EXCEPT ![n] = "callback"]
  /\ UNCHANGED <<started, term, role, pendingTerm, voteVars, opVars, election, rpcs,
                 used, wins>>

(* replSetStepDown up to the successful tryToStartStepDown; the command's   *)
(* thread holds the RSTL in mode X from here to StepDownCommandFinish.      *)
StepDownCommand(n) ==
  /\ role[n] = "leader" /\ leaderMode[n] # "SteppingDown"
  /\ leaderMode' = [leaderMode EXCEPT ![n] = "SteppingDown"]
  /\ stepDownBy' = [stepDownBy EXCEPT ![n] = "command"]
  /\ UNCHANGED <<started, term, role, pendingTerm, voteVars, opVars, election, rpcs,
                 used, wins>>

(* finishUnconditionalStepDown at the end of the command: the pending term  *)
(* is neither applied nor cleared.                                          *)
\* mutant: leaves a step down to the callback once a higher term is pending
StepDownCommandYields(n) ==
  /\ leaderMode[n] = "SteppingDown" /\ stepDownBy[n] = "command"
  /\ pendingTerm[n] = 0
  /\ role'       = [role EXCEPT ![n] = "follower"]
  /\ leaderMode' = [leaderMode EXCEPT ![n] = "NotLeader"]
  /\ stepDownBy' = [stepDownBy EXCEPT ![n] = "none"]
  /\ UNCHANGED <<started, term, pendingTerm, voteVars, opVars, election, rpcs, used,
                 wins>>
StepDownCommandFinish(n) ==
  /\ leaderMode[n] = "SteppingDown" /\ stepDownBy[n] = "command"
  /\ role'       = [role EXCEPT ![n] = "follower"]
  /\ leaderMode' = [leaderMode EXCEPT ![n] = "NotLeader"]
  /\ stepDownBy' = [stepDownBy EXCEPT ![n] = "none"]
  /\ UNCHANGED <<started, term, pendingTerm, voteVars, opVars, election, rpcs, used,
                 wins>>

(* finishEvent is signaled: the vote requests that wait in updateTerm go on. *)
WakeNobody(n) == UNCHANGED rpcs  \* mutant: the event is not signaled
WakeHandlers(n) ==
  rpcs' = {IF r.to = n /\ r.pc = "stepDownWait" THEN [r EXCEPT !.pc = "vote"]
                                                ELSE r : r \in rpcs}

(* _stepDownFinish, the scheduled callback: applies the pending term and    *)
(* signals the event that updateTerm's callers wait for.                    *)
StepDownFinish(n) ==
  /\ leaderMode[n] = "SteppingDown" /\ stepDownBy[n] = "callback"
  /\ role'        = [role EXCEPT ![n] = "follower"]
  /\ leaderMode'  = [leaderMode EXCEPT ![n] = "NotLeader"]
  /\ stepDownBy'  = [stepDownBy EXCEPT ![n] = "none"]
  /\ term'        = [term EXCEPT ![n] = Max2(@, pendingTerm[n])]
  /\ pendingTerm' = [pendingTerm EXCEPT ![n] = 0]
  /\ WakeHandlers(n)
  /\ UNCHANGED <<started, voteVars, opVars, election, used, wins>>

--------------------
(* The candidate: ReplicationCoordinatorImpl::ElectionState.                *)

(* becomeCandidateIfElectable.  Seeing a majority and the step down period  *)
(* depend on heartbeats and clocks and may come out either way.             *)
Electable(c) ==
  /\ role[c] = "follower" /\ started[c]
  /\ term[c] < MaxTerm
  /\ c \notin Arbiter
  /\ lastApplied[c] # NullOpTime

(* start(): the dry run in the current term.  p is the primary whose vote a *)
(* catchup takeover needs, NoServer for the other reasons.                  *)
StartDryRun(c, p) ==
  /\ Electable(c)
  /\ p # c
  /\ used.elections < MaxElections /\ used.dryRuns < MaxDryRuns
  /\ used' = [used EXCEPT !.elections = @ + 1, !.dryRuns = @ + 1]
  /\ role'     = [role EXCEPT ![c] = "candidate"]
  /\ election' = [election EXCEPT ![c] = NewTally("dryRun", c, term[c], p)]
  /\ rpcs'     = rpcs \cup VoteRequests(c, term[c], TRUE)
  /\ UNCHANGED <<started, term, leaderMode, stepDownBy, pendingTerm, voteVars, opVars,
                 wins>>

(* _startRealElection: adopt the new term, vote for myself in memory        *)
(* (voteForMyselfV1) and schedule the write of that vote.                   *)
StartRealElection(c, newTerm) ==
  /\ term'     = [term EXCEPT ![c] = newTerm]
  /\ role'     = [role EXCEPT ![c] = "candidate"]
  /\ lastVote' = [lastVote EXCEPT ![c] = [term |-> newTerm, cand |-> c]]
  /\ election' = [election EXCEPT
                    ![c] = NewTally("writeVote", c, newTerm, NoServer)]

(* start() for kStepUpRequestSkipDryRun (election handoff).                 *)
StartSkippingDryRun(c) ==
  /\ Electable(c)
  /\ used.elections < MaxElections
  /\ used' = [used EXCEPT !.elections = @ + 1, !.terms = Max2(@, term[c] + 1)]
  /\ StartRealElection(c, term[c] + 1)
  /\ UNCHANGED <<started, leaderMode, stepDownBy, pendingTerm, lastVoteDoc, cast, opVars,
                 rpcs, wins>>

(* ~LoseElectionGuardV1: processLoseElection and a null _electionState.     *)
LoseElection(c) ==
  /\ role'     = [role EXCEPT ![c] = "follower"]
  /\ election' = [election EXCEPT ![c] = NoElection]

(* _processDryRunResult, succeeding.                                        *)
DryRunSucceeds(c) ==
  LET e == election[c] IN
  /\ e.phase = "dryRun" /\ HasReceivedSufficientResponses(e, c)
  /\ term[c] = e.term /\ SuccessfullyElected(e)
  /\ StartRealElection(c, e.term + 1)
  /\ used' = [used EXCEPT !.terms = Max2(@, e.term + 1)]
  /\ UNCHANGED <<started, leaderMode, stepDownBy, pendingTerm, lastVoteDoc, cast, opVars,
                 rpcs, wins>>

(* _processDryRunResult and _onVoteRequestComplete, giving up: superseded   *)
(* by a higher term, or any result but kSuccessfullyElected.                *)
RoundFails(c) ==
  LET e == election[c] IN
  /\ e.phase \in {"dryRun", "requestVotes"} /\ HasReceivedSufficientResponses(e, c)
  /\ term[c] # e.term \/ e.canceled \/ ~SuccessfullyElected(e)
  /\ LoseElection(c)
  /\ UNCHANGED <<started, term, leaderMode, stepDownBy, pendingTerm, voteVars, opVars,
                 rpcs, used, wins>>

(* ElectionState::cancel.  It ends a round of votes, whose callback then    *)
(* loses the election; while my vote is being written it is only noted, and *)
(* takes effect when the round that follows is over.                        *)
CancelElection(c) ==
  /\ \/ election[c].phase \in {"dryRun", "requestVotes"} /\ LoseElection(c)
     \/ /\ election[c].phase = "writeVote" /\ ~election[c].canceled
        /\ election' = [election EXCEPT ![c].canceled = TRUE]
        /\ UNCHANGED role
  /\ UNCHANGED <<started, term, leaderMode, stepDownBy, pendingTerm, voteVars, opVars,
                 rpcs, used, wins>>

(* storeLocalLastVoteDocument: replaces the document only by a vote of a    *)
(* higher term, then waits for the journal, which covers the oplog too.     *)
\* mutant: the comparison is the wrong way round
StoreOlderLastVote(n, vote) ==
  /\ lastVoteDoc' = [lastVoteDoc EXCEPT
                       ![n] = IF vote.term < @.term THEN vote ELSE @]
  /\ lastDurable' = [lastDurable EXCEPT ![n] = lastApplied[n]]
StoreLocalLastVoteDocument(n, vote) ==
  /\ lastVoteDoc' = [lastVoteDoc EXCEPT
                       ![n] = IF vote.term > @.term THEN vote ELSE @]
  /\ lastDurable' = [lastDurable EXCEPT ![n] = lastApplied[n]]

(* _writeLastVoteForMyElection: once my vote is durable, and if no higher   *)
(* term arrived meanwhile, _requestVotesForRealElection.                    *)
WriteLastVoteForMyElection(c) ==
  LET t == election[c].term IN
  /\ election[c].phase = "writeVote"
  /\ StoreLocalLastVoteDocument(c, [term |-> t, cand |-> c])
  /\ IF term[c] = t
       THEN /\ election' = [election EXCEPT ![c].phase = "requestVotes"]
            /\ rpcs' = rpcs \cup VoteRequests(c, t, FALSE)
            /\ cast' = cast \cup {<<c, t, c>>}
            /\ UNCHANGED role
       ELSE LoseElection(c) /\ UNCHANGED <<rpcs, cast>>
  /\ UNCHANGED <<started, term, leaderMode, stepDownBy, pendingTerm, lastVote, lastApplied,
                 used, wins>>

(* ... and its failure: the callback was canceled or the write failed.      *)
WriteLastVoteFails(c) ==
  /\ election[c].phase = "writeVote"
  /\ LoseElection(c)
  /\ UNCHANGED <<started, term, leaderMode, stepDownBy, pendingTerm, voteVars, opVars,
                 rpcs, used, wins>>

(* _onVoteRequestComplete, winning: processWinElection.                     *)
WinElection(c) ==
  LET e == election[c] IN
  /\ e.phase = "requestVotes" /\ HasReceivedSufficientResponses(e, c)
  /\ term[c] = e.term /\ ~e.canceled /\ SuccessfullyElected(e)
  /\ role'       = [role EXCEPT ![c] = "leader"]
  /\ leaderMode' = [leaderMode EXCEPT ![c] = "LeaderElect"]
  /\ election'   = [election EXCEPT ![c] = NoElection]
  /\ wins'       = wins \cup {<<term[c], c>>}
  /\ UNCHANGED <<started, term, stepDownBy, pendingTerm, voteVars, opVars, rpcs, used>>

(* The RPC to v fails or times out at the candidate, or v answers with an   *)
(* error, as it does when it shuts down or cannot store its vote.           *)
RpcFails(c, v) ==
  LET e == election[c] IN
  /\ e.phase \in {"dryRun", "requestVotes"} /\ ~HasReceivedSufficientResponses(e, c)
  /\ v \notin e.processed \cup {c}
  /\ \/ election' = [election EXCEPT ![c] = ProcessFailure(e, v)]
     \/ election' = [election EXCEPT ![c] = ProcessResponse(e, c, v, FALSE, 0)]
  /\ UNCHANGED <<topVars, voteVars, opVars, rpcs, used, wins>>

--------------------
(* The voter: ReplicationCoordinatorImpl::processReplSetRequestVotes.       *)

(* The answer to r reaches the candidate, if it still runs that round.      *)
Respond(r, granted, responseTerm) ==
  LET e == election[r.from] IN
  election' =
    IF e.phase = (IF r.dry THEN "dryRun" ELSE "requestVotes") /\ e.term = r.term
      THEN [election EXCEPT
              ![r.from] = ProcessResponse(e, r.from, r.to, granted, responseTerm)]
      ELSE election

Advance(r, pc) == (rpcs \ {r}) \cup {[r EXCEPT !.pc = pc]}

(* _updateTerm_inlock begins a step down for the term of the request.       *)
NeverWaits(r) == FALSE  \* mutant: the handler does not wait for it
StartsStepDown(r) ==
  /\ r.term > term[r.to] /\ role[r.to] = "leader"
  /\ leaderMode[r.to] # "SteppingDown"

(* updateTerm(args.getTerm()).  The thread waits for the event of the step  *)
(* down it starts; it does not wait when a step down was already under way. *)
ReceiveVoteRequest(r) ==
  LET v == r.to IN
  /\ r.pc = "request"
  /\ leaderMode[v] = "SteppingDown" => "stepDown" \in VoteWindows
  /\ ~started[v] => "startup" \in VoteWindows
  /\ UpdateTerm(v, r.term)
  /\ rpcs' = Advance(r, IF StartsStepDown(r) THEN "stepDownWait" ELSE "vote")
  /\ UNCHANGED <<voteVars, opVars, election, used, wins>>

(* TopologyCoordinator::processReplSetRequestVotes: why a vote is denied.   *)
VoteDenied(r) ==
  LET v == r.to IN
  \/ r.term < term[v]
  \/ OpLess(r.la, lastApplied[v])
  \/ ~r.dry /\ lastVote[v].term = r.term

(* A vote denied; an arbiter may also deny because it sees a healthy        *)
(* primary of equal or greater priority.                                    *)
DenyVote(r) ==
  /\ r.pc = "vote"
  /\ VoteDenied(r) \/ r.to \in Arbiter
  /\ Respond(r, FALSE, term[r.to])
  /\ rpcs' = rpcs \ {r}
  /\ UNCHANGED <<topVars, voteVars, opVars, used, wins>>

(* A dry run vote granted: nothing is remembered.                           *)
GrantDryRunVote(r) ==
  /\ r.pc = "vote" /\ r.dry
  /\ ~VoteDenied(r)
  /\ Respond(r, TRUE, term[r.to])
  /\ rpcs' = rpcs \ {r}
  /\ UNCHANGED <<topVars, voteVars, opVars, used, wins>>

(* A real vote granted in memory; response->setTerm(_term) happens here.    *)
\* mutant: _lastVote is not set
GrantVoteForgetfully(r) ==
  /\ r.pc = "vote" /\ ~r.dry
  /\ ~VoteDenied(r)
  /\ rpcs' = (rpcs \ {r}) \cup {[r EXCEPT !.pc = "store", !.rterm = term[r.to]]}
  /\ UNCHANGED <<topVars, voteVars, opVars, election, used, wins>>
GrantVote(r) ==
  /\ r.pc = "vote" /\ ~r.dry
  /\ ~VoteDenied(r)
  /\ lastVote' = [lastVote EXCEPT ![r.to] = [term |-> r.term, cand |-> r.from]]
  /\ rpcs' = (rpcs \ {r}) \cup {[r EXCEPT !.pc = "store", !.rterm = term[r.to]]}
  /\ UNCHANGED <<topVars, lastVoteDoc, cast, opVars, election, used, wins>>

(* The lastVote document is stored outside _mutex (it needs the RSTL in     *)
(* mode IX, so it waits for a step down command), then the vote is sent.    *)
StoreVote(r) ==
  /\ r.pc = "store"
  /\ stepDownBy[r.to] # "command"
  /\ StoreLocalLastVoteDocument(r.to, [term |-> r.term, cand |-> r.from])
  /\ cast' = cast \cup {<<r.to, r.term, r.from>>}
  /\ Respond(r, TRUE, r.rterm)
  /\ rpcs' = rpcs \ {r}
  /\ UNCHANGED <<topVars, lastVote, lastApplied, used, wins>>

--------------------
(* The oplog, as far as elections see it, and crashes.                      *)

(* signalDrainComplete: a leader that has not yet written in its term logs  *)
(* the transition to primary; in the middle of a step down only             *)
(* _firstOpTimeOfMyTerm is set.  Needs the RSTL.                            *)
DrainComplete(n) ==
  /\ role[n] = "leader" /\ lastApplied[n].t # term[n]
  /\ stepDownBy[n] # "command"
  /\ lastApplied' = [lastApplied EXCEPT ![n] = [t |-> term[n], i |-> @.i + 1]]
  /\ leaderMode'  = [leaderMode EXCEPT
                       ![n] = IF @ = "LeaderElect" THEN "WritablePrimary" ELSE @]
  /\ UNCHANGED <<started, term, role, stepDownBy, pendingTerm, voteVars, lastDurable,
                 election, rpcs, used, wins>>

(* Oplog application and primary catch-up: n reaches m's lastApplied.       *)
ApplyOps(n, m) ==
  /\ n \notin Arbiter /\ started[n]
  /\ OpLess(lastApplied[n], lastApplied[m])
  /\ role[n] = "leader" => lastApplied[n].t # term[n] /\ lastApplied[m].t < term[n]
  /\ lastApplied' = [lastApplied EXCEPT ![n] = lastApplied[m]]
  /\ UNCHANGED <<topVars, voteVars, lastDurable, election, rpcs, used, wins>>

JournalFlush(n) ==
  /\ lastDurable[n] # lastApplied[n]
  /\ lastDurable' = [lastDurable EXCEPT ![n] = lastApplied[n]]
  /\ UNCHANGED <<topVars, voteVars, lastApplied, election, rpcs, used, wins>>

(* loadLocalLastVoteDocument and TopologyCoordinator::loadLastVote.         *)
LoadNothing(n) == [term |-> 0, cand |-> NoServer]  \* mutant: vote not loaded
LoadLastVote(n) == lastVoteDoc[n]

(* Crash and startup up to _setCurrentRSConfig: the lastVote document and   *)
(* the last oplog entry are loaded, the term is still the initial one.      *)
(* Commands being run are lost, those on the network are not.               *)
Restart(n) ==
  /\ used.restarts < MaxRestarts
  /\ used' = [used EXCEPT !.restarts = @ + 1]
  /\ started'     = [started EXCEPT ![n] = FALSE]
  /\ term'        = [term EXCEPT ![n] = InitialTerm]
  /\ role'        = [role EXCEPT ![n] = "follower"]
  /\ leaderMode'  = [leaderMode EXCEPT ![n] = "NotLeader"]
  /\ stepDownBy'  = [stepDownBy EXCEPT ![n] = "none"]
  /\ pendingTerm' = [pendingTerm EXCEPT ![n] = 0]
  /\ lastVote'    = [lastVote EXCEPT ![n] = LoadLastVote(n)]
  /\ lastApplied' = [lastApplied EXCEPT ![n] = lastDurable[n]]
  /\ election'    = [election EXCEPT ![n] = NoElection]
  /\ rpcs'        = {r \in rpcs : r.to = n => r.pc = "request"}
  /\ UNCHANGED <<lastVoteDoc, cast, lastDurable, wins>>

(* The end of _finishLoadLocalConfig, in a critical section of its own:     *)
(* restore the term from the last oplog entry and the last vote.            *)
FinishStartup(n) ==
  /\ ~started[n]
  /\ started' = [started EXCEPT ![n] = TRUE]
  /\ term' = [term EXCEPT ![n] =
                 Max2(@, Max2(lastDurable[n].t, lastVoteDoc[n].term))]
  /\ UNCHANGED <<role, leaderMode, stepDownBy, pendingTerm, voteVars, opVars,
                 election, rpcs, used, wins>>

--------------------
TermStep(n) ==
  \/ \E t \in 1..used.terms : LearnTerm(n, t)
  \/ StepDownSelf(n)
  \/ StepDownCommand(n)
  \/ StepDownCommandFinish(n)
  \/ StepDownFinish(n)

CandidateStep(n) ==
  \/ \E p \in {NoServer} \cup {w[2] : w \in wins} : StartDryRun(n, p)
  \/ StartSkippingDryRun(n)
  \/ DryRunSucceeds(n)
  \/ RoundFails(n)
  \/ CancelElection(n)
  \/ WriteLastVoteForMyElection(n)
  \/ WriteLastVoteFails(n)
  \/ WinElection(n)
  \/ \E v \in Server : RpcFails(n, v)

VoterStep(r) ==
  \/ ReceiveVoteRequest(r)
  \/ DenyVote(r)
  \/ GrantDryRunVote(r)
  \/ GrantVote(r)
  \/ StoreVote(r)

OplogStep(n) ==
  \/ DrainComplete(n)
  \/ \E m \in Server : ApplyOps(n, m)
  \/ JournalFlush(n)

CrashStep(n) == Restart(n) \/ FinishStartup(n)

Next ==
  \/ \E n \in Server : TermStep(n) \/ CandidateStep(n) \/ OplogStep(n) \/ CrashStep(n)
  \/ \E r \in rpcs : VoterStep(r)

Spec == Init /\ [][Next]_vars

--------------------
(* Properties.                                                              *)

(* Type correctness.                                                        *)
TypeOK ==
  /\ started \in [Server -> BOOLEAN]
  /\ term \in [Server -> Nat]
  /\ role \in [Server -> {"follower", "candidate", "leader"}]
  /\ leaderMode \in [Server -> {"NotLeader", "LeaderElect", "WritablePrimary",
                                "SteppingDown"}]
  /\ stepDownBy \in [Server -> {"none", "callback", "command"}]
  /\ pendingTerm \in [Server -> Nat]
  /\ lastVote \in [Server -> LastVote]
  /\ lastVoteDoc \in [Server -> LastVote]
  /\ lastApplied \in [Server -> OpTime]
  /\ lastDurable \in [Server -> OpTime]
  /\ election \in [Server -> ElectionState]
  /\ rpcs \subseteq Rpc
  /\ used \in [elections : Nat, dryRuns : Nat, restarts : Nat, terms : Nat]
  /\ cast \subseteq Server \X Nat \X Server
  /\ wins \subseteq Nat \X Server

(* No two servers are ever elected in one term (db/repl/README.md), over    *)
(* the whole history and not only among the leaders of one moment.          *)
ElectionSafety ==
  \A a, b \in wins : a[1] = b[1] => a[2] = b[2]

(* "The topology coordinator grants only one vote per term": no voter ever  *)
(* reports its vote of one term to two candidates, itself included.         *)
OneVotePerTerm ==
  \A a, b \in cast : a[1] = b[1] /\ a[2] = b[2] => a[3] = b[3]

(* A vote that a candidate may count survives a crash of the voter: the     *)
(* lastVote document is at the vote's term before the vote is reported.     *)
VoteDurableBeforeReply ==
  \A a \in cast : a[2] <= lastVoteDoc[a[1]].term

(* A leader's term is one it was elected in: on hearing of a higher term it *)
(* must stop being leader before it adopts the term, because "we don't want *)
(* to report that we are primary in the new term" (updateTerm).             *)
LeaderWonItsTerm ==
  \A n \in Server : role[n] = "leader" => <<term[n], n>> \in wins

--------------------
(* The inductive invariant behind ElectionSafety.  It needs VoteWindows={}. *)

(* What v has promised to <<term, candidate>>, in memory or on disk.        *)
Promises(v) ==
     {<<a[2], a[3]>> : a \in {b \in cast : b[1] = v}}
  \cup {<<r.term, r.from>> : r \in {q \in rpcs : q.to = v /\ q.pc = "store"}}
  \cup {<<lastVote[v].term, lastVote[v].cand>>}
  \cup {<<lastVoteDoc[v].term, lastVoteDoc[v].cand>>}
  \cup (IF election[v].phase = "writeVote" THEN {<<election[v].term, v>>} ELSE {})

(* Two promises of one term are to one candidate, and none is newer than    *)
(* the vote in memory, which is what the next request is compared with.     *)
PromisesConsistent ==
  \A v \in Server :
    /\ \A p, q \in Promises(v) : p[1] = q[1] => p[2] = q[2]
    /\ \A p \in Promises(v) : p[1] <= lastVote[v].term

(* The term in memory is never behind the vote in memory, except while the  *)
(* server starts up, when both votes are the one just loaded.               *)
VoteNotAheadOfTerm ==
  \A v \in Server :
    IF started[v] THEN lastVote[v].term <= term[v]
    ELSE /\ lastVote[v] = lastVoteDoc[v]
         /\ role[v] = "follower"

(* A handler that has got past updateTerm has made its server reach the     *)
(* request's term; one that waits will find it reached.                     *)
HandlersReachTerm ==
  \A r \in rpcs :
    /\ r.pc # "request" => started[r.to]
    /\ r.pc \in {"vote", "store"} => r.term <= term[r.to]
    /\ r.pc = "stepDownWait" =>
         stepDownBy[r.to] = "callback" /\ r.term <= pendingTerm[r.to]
    /\ r.pc = "store" => ~r.dry

(* Role, leader mode, step down and election state agree, as the invariant  *)
(* checks of processWinElection, processLoseElection and                    *)
(* finishUnconditionalStepDown demand.                                      *)
RolesConsistent ==
  \A n \in Server :
    /\ role[n] = "candidate" <=> election[n].phase # "none"
    /\ role[n] = "leader" <=> leaderMode[n] # "NotLeader"
    /\ stepDownBy[n] # "none" <=> leaderMode[n] = "SteppingDown"

(* Every vote a candidate counts was reported to it in this very term.      *)
TalliesBacked ==
  \A c \in Server :
    /\ election[c].phase = "writeVote" => election[c].votes = {c}
    /\ election[c].phase = "requestVotes" =>
         \A v \in election[c].votes : <<v, election[c].term, c>> \in cast

WinsBacked ==
  \A w \in wins : \E Q \in SUBSET Server :
    IsMajority(Q) /\ \A v \in Q : <<v, w[1], w[2]>> \in cast

ElectionInv ==
  /\ PromisesConsistent
  /\ VoteDurableBeforeReply
  /\ VoteNotAheadOfTerm
  /\ HandlersReachTerm
  /\ RolesConsistent
  /\ TalliesBacked
  /\ WinsBacked
  /\ LeaderWonItsTerm

--------------------
(* Liveness.  The executor runs the callbacks scheduled on it, an RPC ends  *)
(* in an answer or in its timeout, and command threads are not starved.     *)
Fairness ==
  \A n \in Server :
    /\ WF_vars(StepDownFinish(n)) /\ WF_vars(StepDownCommandFinish(n))
    /\ WF_vars(DryRunSucceeds(n)) /\ WF_vars(RoundFails(n))
    /\ WF_vars(WriteLastVoteForMyElection(n)) /\ WF_vars(WinElection(n))
    /\ \A v \in Server : WF_vars(RpcFails(n, v))
    /\ WF_vars(\E r \in rpcs : r.to = n /\ r.pc # "request" /\ VoterStep(r))

FairSpec == Spec /\ Fairness

(* A candidacy ends, won or lost: no answer, timeout, cancellation or term  *)
(* change leaves _electionState behind, which would bar later elections.    *)
CandidacyEnds ==
  \A n \in Server : role[n] = "candidate" ~> role[n] # "candidate"

(* An unconditional step down that has begun completes.                     *)
StepDownEnds ==
  \A n \in Server : leaderMode[n] = "SteppingDown" ~> leaderMode[n] = "NotLeader"

(* A vote request that a server began to handle is answered or dropped: the *)
(* thread does not wait forever for the event of a step down.               *)
HandlersEnd ==
  \A n \in Server :
    (\E r \in rpcs : r.to = n /\ r.pc = "stepDownWait")
      ~> ~(\E r \in rpcs : r.to = n /\ r.pc = "stepDownWait")
====================
