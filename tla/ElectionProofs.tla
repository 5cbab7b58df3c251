------------ MODULE ElectionProofs ------------
(***************************************************************************)
(* Proofs about Election, for every set of servers and every bound.  Type  *)
(* correctness holds in every environment; ElectionInv, and with it        *)
(* election safety, when no vote request arrives in one of the two windows *)
(* of VoteWindows.                                                         *)
(***************************************************************************)
EXTENDS Election, TLAPS, FiniteSetTheorems

USE ServerAssumption, ElectionAssumption

--------------------
(* The tally operators stay within ElectionState.                           *)

(* NewTally and NoElection are election states.                             *)
LEMMA TallyType ==
  /\ \A ph \in Phases, c \in Server, t \in Nat, p \in Server \cup {NoServer} :
       NewTally(ph, c, t, p) \in ElectionState
  /\ NoElection \in ElectionState
  BY DEF NewTally, NoElection, ElectionState, Phases

(* Answers and failures keep an election state one.                         *)
LEMMA ResponseType ==
  ASSUME NEW e \in ElectionState, NEW c, NEW v \in Server, NEW g \in BOOLEAN,
         NEW t \in Nat
  PROVE  /\ ProcessResponse(e, c, v, g, t) \in ElectionState
         /\ ProcessFailure(e, v) \in ElectionState
  BY DEF ProcessResponse, ProcessFailure, ElectionState

(* The response to a vote request keeps election well typed.                *)
LEMMA RespondType ==
  ASSUME TypeOK, NEW r \in rpcs, NEW g \in BOOLEAN, NEW t \in Nat,
         Respond(r, g, t)
  PROVE  election' \in [Server -> ElectionState]
<1>1. r.from \in Server /\ r.to \in Server
  BY DEF TypeOK, Rpc
<1>2. election[r.from] \in ElectionState
  BY <1>1 DEF TypeOK
<1>3. ProcessResponse(election[r.from], r.from, r.to, g, t) \in ElectionState
  BY <1>1, <1>2, ResponseType
<1>4. election \in [Server -> ElectionState]
  BY DEF TypeOK
<1> QED
  BY <1>1, <1>3, <1>4 DEF Respond

(* UpdateTerm keeps the variables of the topology coordinator well typed.   *)
LEMMA UpdateTermType ==
  ASSUME TypeOK, NEW n \in Server, NEW t \in Nat, UpdateTerm(n, t)
  PROVE  /\ started' \in [Server -> BOOLEAN]
         /\ term' \in [Server -> Nat]
         /\ role' \in [Server -> {"follower", "candidate", "leader"}]
         /\ leaderMode' \in [Server -> {"NotLeader", "LeaderElect",
                                        "WritablePrimary", "SteppingDown"}]
         /\ stepDownBy' \in [Server -> {"none", "callback", "command"}]
         /\ pendingTerm' \in [Server -> Nat]
<1>1. CASE t <= term[n]
  BY <1>1 DEF UpdateTerm, TypeOK, topVars
<1>2. CASE ~(t <= term[n]) /\ role[n] # "leader"
  BY <1>2 DEF UpdateTerm, TypeOK
<1>3. CASE ~(t <= term[n]) /\ role[n] = "leader"
  BY <1>3 DEF UpdateTerm, TypeOK, Max2
<1> QED
  BY <1>1, <1>2, <1>3

--------------------
(* A vote request is a well-typed command.                                  *)
LEMMA RequestType ==
  ASSUME TypeOK, NEW c \in Server, NEW t \in Nat, NEW dry \in BOOLEAN
  PROVE  VoteRequests(c, t, dry) \subseteq Rpc
  BY DEF TypeOK, VoteRequests, Request, Rpc

(* A handler that advances is still a well-typed command.                   *)
LEMMA AdvanceType ==
  ASSUME TypeOK, NEW r \in rpcs, NEW t \in Nat,
         NEW pc \in {"request", "stepDownWait", "vote", "store"}
  PROVE  /\ [r EXCEPT !.pc = pc] \in Rpc
         /\ [[r EXCEPT !.pc = pc] EXCEPT !.rterm = t] \in Rpc
         /\ Advance(r, pc) \subseteq Rpc
  BY DEF TypeOK, Advance, Rpc

(* Terms and step downs preserve the types.                                 *)
LEMMA TermStepType ==
  ASSUME TypeOK, NEW n \in Server, TermStep(n)
  PROVE  TypeOK'
<1>1. CASE \E t \in 1..used.terms : LearnTerm(n, t)
  <2>1. PICK t \in 1..used.terms : LearnTerm(n, t)
    BY <1>1
  <2>2. t \in Nat
    BY DEF TypeOK
  <2>3. UpdateTerm(n, t)
    BY <2>1 DEF LearnTerm
  <2> QED
    BY <2>1, <2>2, <2>3, UpdateTermType DEF LearnTerm, TypeOK, voteVars, opVars
<1>2. CASE StepDownSelf(n)
  BY <1>2 DEF StepDownSelf, TypeOK, voteVars, opVars
<1>3. CASE StepDownCommand(n)
  BY <1>3 DEF StepDownCommand, TypeOK, voteVars, opVars
<1>4. CASE StepDownCommandFinish(n)
  BY <1>4 DEF StepDownCommandFinish, TypeOK, voteVars, opVars
<1>5. CASE StepDownFinish(n)
  <2>1. rpcs' \subseteq Rpc
    <3>1. \A r \in rpcs : [r EXCEPT !.pc = "vote"] \in Rpc
      BY AdvanceType
    <3> QED
      BY <1>5, <3>1 DEF StepDownFinish, WakeHandlers, TypeOK
  <2> QED
    BY <1>5, <2>1 DEF StepDownFinish, WakeHandlers, TypeOK, voteVars, opVars, Max2
<1> QED
  BY <1>1, <1>2, <1>3, <1>4, <1>5 DEF TermStep

(* The counters of what was used of the bounds stay counters.               *)
LEMMA UsedType ==
  ASSUME NEW u \in [elections : Nat, dryRuns : Nat, restarts : Nat, terms : Nat],
         NEW i \in Nat, NEW j \in Nat
  PROVE  /\ [[u EXCEPT !.elections = i] EXCEPT !.dryRuns = j]
              \in [elections : Nat, dryRuns : Nat, restarts : Nat, terms : Nat]
         /\ [[u EXCEPT !.elections = i] EXCEPT !.terms = j]
              \in [elections : Nat, dryRuns : Nat, restarts : Nat, terms : Nat]
  OBVIOUS

(* So do the steps of a candidate.                                          *)
LEMMA CandidateStepType ==
  ASSUME TypeOK, NEW c \in Server, CandidateStep(c)
  PROVE  TypeOK'
<1> DEFINE e == election[c]
<1>0. e \in ElectionState /\ e.term \in Nat
  BY DEF TypeOK, ElectionState
<1>a. ASSUME NEW t \in Nat, StartRealElection(c, t)
      PROVE  /\ term' \in [Server -> Nat]
             /\ role' \in [Server -> {"follower", "candidate", "leader"}]
             /\ lastVote' \in [Server -> LastVote]
             /\ election' \in [Server -> ElectionState]
  BY <1>a, TallyType DEF StartRealElection, TypeOK, LastVote, Phases
<1>b. ASSUME LoseElection(c)
      PROVE  /\ role' \in [Server -> {"follower", "candidate", "leader"}]
             /\ election' \in [Server -> ElectionState]
  BY <1>b, TallyType DEF LoseElection, TypeOK
<1>1. CASE \E p \in {NoServer} \cup {w[2] : w \in wins} : StartDryRun(c, p)
  <2>1. PICK p \in {NoServer} \cup {w[2] : w \in wins} : StartDryRun(c, p)
    BY <1>1
  <2>2. p \in Server \cup {NoServer}
    BY DEF TypeOK
  <2>3. term[c] \in Nat
    BY DEF TypeOK
  <2>4. election' \in [Server -> ElectionState]
    BY <2>1, <2>2, <2>3, TallyType DEF StartDryRun, TypeOK, Phases
  <2>5. rpcs' \subseteq Rpc
    BY <2>1, <2>3, RequestType DEF StartDryRun, TypeOK
  <2>6. used' \in [elections : Nat, dryRuns : Nat, restarts : Nat, terms : Nat]
    <3>1. used.elections + 1 \in Nat /\ used.dryRuns + 1 \in Nat
      BY DEF TypeOK
    <3> QED
      BY <2>1, <3>1, UsedType, Zenon DEF StartDryRun, TypeOK
  <2> QED
    BY <2>1, <2>4, <2>5, <2>6 DEF StartDryRun, TypeOK, voteVars, opVars
<1>2. CASE StartSkippingDryRun(c)
  <2>1. term[c] + 1 \in Nat /\ StartRealElection(c, term[c] + 1)
    BY <1>2 DEF StartSkippingDryRun, TypeOK
  <2>2. used' \in [elections : Nat, dryRuns : Nat, restarts : Nat, terms : Nat]
    <3>1. used.elections + 1 \in Nat /\ Max2(used.terms, term[c] + 1) \in Nat
      BY DEF TypeOK, Max2
    <3> QED
      BY <1>2, <3>1, UsedType, Zenon DEF StartSkippingDryRun, TypeOK
  <2>3. /\ term' \in [Server -> Nat]
        /\ role' \in [Server -> {"follower", "candidate", "leader"}]
        /\ lastVote' \in [Server -> LastVote]
        /\ election' \in [Server -> ElectionState]
    BY <1>a, <2>1
  <2> QED
    BY <1>2, <2>2, <2>3 DEF StartSkippingDryRun, TypeOK, opVars
<1>3. CASE DryRunSucceeds(c)
  <2>1. e.term + 1 \in Nat /\ StartRealElection(c, e.term + 1)
    BY <1>0, <1>3 DEF DryRunSucceeds
  <2>2. used' \in [elections : Nat, dryRuns : Nat, restarts : Nat, terms : Nat]
    <3>1. used' = [used EXCEPT !.terms = Max2(@, e.term + 1)]
      BY <1>3 DEF DryRunSucceeds
    <3> HIDE DEF e
    <3> QED
      BY <1>0, <3>1 DEF TypeOK, Max2
  <2>3. /\ term' \in [Server -> Nat]
        /\ role' \in [Server -> {"follower", "candidate", "leader"}]
        /\ lastVote' \in [Server -> LastVote]
        /\ election' \in [Server -> ElectionState]
    BY <1>a, <2>1
  <2> QED
    BY <1>3, <2>2, <2>3 DEF DryRunSucceeds, TypeOK, opVars
<1>4. CASE RoundFails(c)
  BY <1>4, <1>b DEF RoundFails, TypeOK, voteVars, opVars
<1>5. CASE CancelElection(c)
  <2>1. [e EXCEPT !.canceled = TRUE] \in ElectionState
    BY <1>0 DEF ElectionState
  <2>2. election' \in [Server -> ElectionState]
    BY <1>5, <1>b, <2>1 DEF CancelElection, TypeOK
  <2> QED
    BY <1>5, <1>b, <2>2 DEF CancelElection, TypeOK, voteVars, opVars
<1>6. CASE WriteLastVoteForMyElection(c)
  <2>1. /\ lastVoteDoc' \in [Server -> LastVote]
        /\ lastDurable' \in [Server -> OpTime]
    BY <1>0, <1>6 DEF WriteLastVoteForMyElection, StoreLocalLastVoteDocument,
                      TypeOK, LastVote
  <2>2. [e EXCEPT !.phase = "requestVotes"] \in ElectionState
    BY <1>0 DEF ElectionState, Phases
  <2>3. /\ election' \in [Server -> ElectionState]
        /\ role' \in [Server -> {"follower", "candidate", "leader"}]
    <3>1. CASE term[c] = e.term
      BY <1>6, <2>2, <3>1 DEF WriteLastVoteForMyElection, TypeOK
    <3>2. CASE term[c] # e.term
      BY <1>6, <1>b, <3>2 DEF WriteLastVoteForMyElection
    <3> QED
      BY <3>1, <3>2
  <2>4. rpcs' \subseteq Rpc
    BY <1>0, <1>6, RequestType DEF WriteLastVoteForMyElection, TypeOK
  <2>5. cast' \subseteq Server \X Nat \X Server
    <3>1. cast' = cast \cup {<<c, e.term, c>>} \/ cast' = cast
      BY <1>6 DEF WriteLastVoteForMyElection
    <3>2. cast \subseteq Server \X Nat \X Server
      BY DEF TypeOK
    <3> HIDE DEF e
    <3> QED
      BY <1>0, <3>1, <3>2
  <2> QED
    BY <1>6, <2>1, <2>3, <2>4, <2>5 DEF WriteLastVoteForMyElection, TypeOK
<1>7. CASE WriteLastVoteFails(c)
  BY <1>7, <1>b DEF WriteLastVoteFails, TypeOK, voteVars, opVars
<1>8. CASE WinElection(c)
  BY <1>8, TallyType DEF WinElection, TypeOK, voteVars, opVars
<1>9. CASE \E v \in Server : RpcFails(c, v)
  <2>1. PICK v \in Server : RpcFails(c, v)
    BY <1>9
  <2>2. /\ ProcessFailure(e, v) \in ElectionState
        /\ ProcessResponse(e, c, v, FALSE, 0) \in ElectionState
    BY <1>0, ResponseType
  <2>3. election' \in [Server -> ElectionState]
    BY <2>1, <2>2 DEF RpcFails, TypeOK
  <2> QED
    BY <2>1, <2>3 DEF RpcFails, TypeOK, topVars, voteVars, opVars
<1> QED
  BY <1>1, <1>2, <1>3, <1>4, <1>5, <1>6, <1>7, <1>8, <1>9 DEF CandidateStep

(* And those of a voter.                                                    *)
LEMMA VoterStepType ==
  ASSUME TypeOK, NEW r \in rpcs, VoterStep(r)
  PROVE  TypeOK'
<1>0. /\ r.from \in Server /\ r.to \in Server
      /\ r.term \in Nat /\ r.rterm \in Nat /\ term[r.to] \in Nat
  BY DEF TypeOK, Rpc
<1>1. CASE ReceiveVoteRequest(r)
  <2>1. UpdateTerm(r.to, r.term)
    BY <1>1 DEF ReceiveVoteRequest, StartsStepDown
  <2>2. rpcs' \subseteq Rpc
    BY <1>1, AdvanceType DEF ReceiveVoteRequest, StartsStepDown
  <2> QED
    BY <1>0, <1>1, <2>1, <2>2, UpdateTermType
    DEF ReceiveVoteRequest, StartsStepDown, TypeOK, voteVars, opVars
<1>2. CASE DenyVote(r) \/ GrantDryRunVote(r)
  <2>1. election' \in [Server -> ElectionState]
    BY <1>0, <1>2, RespondType DEF DenyVote, GrantDryRunVote
  <2> QED
    BY <1>2, <2>1 DEF DenyVote, GrantDryRunVote, TypeOK, topVars, voteVars, opVars
<1>3. CASE GrantVote(r)
  <2>1. [[r EXCEPT !.pc = "store"] EXCEPT !.rterm = term[r.to]] \in Rpc
    BY <1>0, AdvanceType
  <2>2. rpcs' \subseteq Rpc
    BY <1>3, <2>1 DEF GrantVote, TypeOK
  <2> QED
    BY <1>0, <1>3, <2>2 DEF GrantVote, TypeOK, LastVote, topVars, opVars
<1>4. CASE StoreVote(r)
  <2>1. election' \in [Server -> ElectionState]
    BY <1>0, <1>4, RespondType DEF StoreVote
  <2>2. /\ lastVoteDoc' \in [Server -> LastVote]
        /\ lastDurable' \in [Server -> OpTime]
    BY <1>0, <1>4 DEF StoreVote, StoreLocalLastVoteDocument, TypeOK, LastVote
  <2> QED
    BY <1>0, <1>4, <2>1, <2>2 DEF StoreVote, TypeOK, topVars
<1> QED
  BY <1>1, <1>2, <1>3, <1>4 DEF VoterStep

(* And the oplog, crashes and startup.                                      *)
LEMMA ServerStepType ==
  ASSUME TypeOK, NEW n \in Server, OplogStep(n) \/ CrashStep(n)
  PROVE  TypeOK'
<1>1. CASE DrainComplete(n)
  <2>1. lastApplied' \in [Server -> OpTime]
    BY <1>1 DEF DrainComplete, TypeOK, OpTime
  <2> QED
    BY <1>1, <2>1 DEF DrainComplete, TypeOK, voteVars
<1>2. CASE \E m \in Server : ApplyOps(n, m)
  BY <1>2 DEF ApplyOps, TypeOK, topVars, voteVars
<1>3. CASE JournalFlush(n)
  BY <1>3 DEF JournalFlush, TypeOK, topVars, voteVars
<1>4. CASE Restart(n)
  BY <1>4, TallyType DEF Restart, InitialTerm, LoadLastVote, TypeOK
<1>5. CASE FinishStartup(n)
  <2>1. lastDurable[n].t \in Nat /\ lastVoteDoc[n].term \in Nat
    BY DEF TypeOK, OpTime, LastVote
  <2> QED
    BY <1>5, <2>1 DEF FinishStartup, TypeOK, voteVars, opVars, Max2
<1> QED
  BY <1>1, <1>2, <1>3, <1>4, <1>5 DEF OplogStep, CrashStep

(* Type correctness: in every reachable state, whatever the number of       *)
(* servers, elections and crashes, each variable of the coordinators has    *)
(* its type.                                                                *)
THEOREM TypeCorrect == Spec => []TypeOK
<1>1. Init => TypeOK
  <2> SUFFICES ASSUME Init PROVE TypeOK
    OBVIOUS
  <2>1. lastApplied \in [Server -> OpTime]
    BY DEF Init, InitialTerm, OpTime, NullOpTime
  <2> QED
    BY <2>1, TallyType DEF Init, InitialTerm, TypeOK, LastVote
<1>2. TypeOK /\ [Next]_vars => TypeOK'
  <2> SUFFICES ASSUME TypeOK, [Next]_vars PROVE TypeOK'
    OBVIOUS
  <2>1. CASE Next
    BY <2>1, TermStepType, CandidateStepType, VoterStepType, ServerStepType
    DEF Next
  <2>2. CASE UNCHANGED vars
    BY <2>2 DEF TypeOK, vars, topVars, voteVars, opVars
  <2> QED
    BY <2>1, <2>2
<1> QED
  BY <1>1, <1>2, PTL DEF Spec

--------------------
(* Frame lemmas: what a step must respect so that a conjunct of ElectionInv *)
(* it does not aim at is kept.                                              *)

(* A step that makes no new promise and keeps the votes in memory.          *)
LEMMA PromisesKept ==
  ASSUME TypeOK, PromisesConsistent, lastVote' = lastVote,
         \A v \in Server : Promises(v)' \subseteq Promises(v)
  PROVE  PromisesConsistent'
  BY DEF PromisesConsistent

(* A step that makes one new promise, of a term above the vote in memory,   *)
(* which it replaces.                                                       *)
LEMMA PromiseMade ==
  ASSUME TypeOK, PromisesConsistent, NEW v \in Server, NEW t \in Nat, NEW c,
         t > lastVote[v].term, lastVote'[v].term = t,
         Promises(v)' \subseteq Promises(v) \cup {<<t, c>>},
         \A u \in Server \ {v} : /\ Promises(u)' \subseteq Promises(u)
                                 /\ lastVote'[u] = lastVote[u]
  PROVE  PromisesConsistent'
<1>0. lastVote[v].term \in Nat
  BY DEF TypeOK, LastVote
<1>1. \A p \in Promises(v) : p[1] <= lastVote[v].term
  BY DEF PromisesConsistent
<1>2. \A p \in Promises(v) : p[1] # t
  <2>1. TAKE p \in Promises(v)
  <2>2. p[1] <= lastVote[v].term
    BY <1>1
  <2>3. p[1] \in Nat
    BY DEF Promises, TypeOK, LastVote, Rpc, ElectionState
  <2> QED
    BY <1>0, <2>2, <2>3
<1>3. \A p \in Promises(v) : p[1] <= t
  <2>1. TAKE p \in Promises(v)
  <2>2. p[1] <= lastVote[v].term
    BY <1>1
  <2>3. p[1] \in Nat
    BY DEF Promises, TypeOK, LastVote, Rpc, ElectionState
  <2> QED
    BY <1>0, <2>2, <2>3
<1>4. ASSUME NEW p \in Promises(v)', NEW q \in Promises(v)', p[1] = q[1]
      PROVE  p[2] = q[2]
  <2>1. p \in Promises(v) \/ p = <<t, c>>
    OBVIOUS
  <2>2. q \in Promises(v) \/ q = <<t, c>>
    OBVIOUS
  <2> QED
    BY <1>2, <1>4, <2>1, <2>2 DEF PromisesConsistent
<1>5. \A p \in Promises(v)' : p[1] <= t
  BY <1>3
<1>6. \A u \in Server \ {v} :
        /\ \A p, q \in Promises(u)' : p[1] = q[1] => p[2] = q[2]
        /\ \A p \in Promises(u)' : p[1] <= lastVote'[u].term
  BY DEF PromisesConsistent
<1> QED
  BY <1>4, <1>5, <1>6 DEF PromisesConsistent

(* Elections once won keep the votes they were won with.                    *)
LEMMA WinsKept ==
  ASSUME WinsBacked, cast \subseteq cast', wins' = wins
  PROVE  WinsBacked'
<1> SUFFICES ASSUME NEW w \in wins
             PROVE  \E Q \in SUBSET Server :
                      IsMajority(Q) /\ \A v \in Q : <<v, w[1], w[2]>> \in cast'
  BY DEF WinsBacked
<1>1. PICK Q \in SUBSET Server :
        IsMajority(Q) /\ \A v \in Q : <<v, w[1], w[2]>> \in cast
  BY DEF WinsBacked
<1> QED
  BY <1>1

(* What a response leaves alone, and the one vote it may add.               *)
LEMMA RespondFrame ==
  ASSUME TypeOK, NEW r \in rpcs, NEW g \in BOOLEAN, NEW t \in Nat,
         Respond(r, g, t), NEW c \in Server
  PROVE  /\ election'[c].phase = election[c].phase
         /\ election'[c].term = election[c].term
         /\ \/ election'[c].votes = election[c].votes
            \/ /\ election'[c].votes = election[c].votes \cup {r.to}
               /\ g /\ c = r.from /\ election[c].term = r.term
               /\ election[c].phase = IF r.dry THEN "dryRun" ELSE "requestVotes"
<1> DEFINE e == election[r.from]
           x == ProcessResponse(e, r.from, r.to, g, t)
<1>1. r.from \in Server /\ election \in [Server -> ElectionState]
  BY DEF TypeOK, Rpc
<1>2. e \in ElectionState
  BY <1>1
<1>3. /\ x.phase = e.phase /\ x.term = e.term
      /\ x.votes = e.votes \/ (g /\ x.votes = e.votes \cup {r.to})
  <2> HIDE DEF e
  <2> QED
    BY <1>2 DEF ProcessResponse, ElectionState
<1>4. CASE election' = election
  BY <1>4
<1>5. CASE /\ e.phase = (IF r.dry THEN "dryRun" ELSE "requestVotes")
           /\ e.term = r.term
           /\ election' = [election EXCEPT ![r.from] = x]
  <2> HIDE DEF x
  <2>1. election'[c] = IF c = r.from THEN x ELSE election[c]
    BY <1>1, <1>5
  <2> QED
    BY <1>3, <1>5, <2>1
<1> QED
  BY <1>4, <1>5 DEF Respond

(* What a term update leaves alone, and what it guarantees.                 *)
LEMMA UpdateTermFrame ==
  ASSUME TypeOK, RolesConsistent, NEW n \in Server, NEW t \in Nat,
         UpdateTerm(n, t)
  PROVE  /\ started' = started /\ role' = role
         /\ \A m \in Server :
              /\ term[m] <= term'[m]
              /\ role[m] = "leader" => term'[m] = term[m]
              /\ pendingTerm[m] <= pendingTerm'[m]
              /\ stepDownBy[m] = "callback" => stepDownBy'[m] = "callback"
              /\ role[m] = "leader" <=> leaderMode'[m] # "NotLeader"
              /\ stepDownBy'[m] # "none" <=> leaderMode'[m] = "SteppingDown"
         /\ role[n] # "leader" => t <= term'[n]
         /\ role[n] = "leader" /\ t > term[n] => t <= pendingTerm'[n]
         /\ role[n] = "leader" /\ t > term[n] /\ leaderMode[n] # "SteppingDown"
              => stepDownBy'[n] = "callback"
<1>0. \A m \in Server : term[m] \in Nat /\ pendingTerm[m] \in Nat
  BY DEF TypeOK
<1>1. CASE t <= term[n]
  BY <1>0, <1>1 DEF UpdateTerm, TypeOK, topVars, RolesConsistent
<1>2. CASE ~(t <= term[n]) /\ role[n] # "leader"
  BY <1>0, <1>2 DEF UpdateTerm, TypeOK, RolesConsistent
<1>3. CASE ~(t <= term[n]) /\ role[n] = "leader"
  BY <1>0, <1>3 DEF UpdateTerm, TypeOK, RolesConsistent, Max2
<1> QED
  BY <1>1, <1>2, <1>3

--------------------
(* Every step preserves ElectionInv.                                        *)

(* Steps that leave the votes, the tallies and the handlers alone, and      *)
(* change terms and roles only as UpdateTermFrame allows.                   *)
LEMMA TermStepInv ==
  ASSUME TypeOK, TypeOK', ElectionInv, NEW n \in Server, TermStep(n)
  PROVE  ElectionInv'
<1> USE DEF ElectionInv
<1>0. \A m \in Server : term[m] \in Nat /\ pendingTerm[m] \in Nat
                       /\ lastVote[m].term \in Nat
  BY DEF TypeOK, LastVote
<1>1. ASSUME NEW t \in 1..used.terms, LearnTerm(n, t)
      PROVE  ElectionInv'
  <2>0. t \in Nat /\ UpdateTerm(n, t) /\ UNCHANGED <<voteVars, election, rpcs, wins>>
    BY <1>1 DEF LearnTerm, TypeOK
  <2>a. term' \in [Server -> Nat] /\ pendingTerm' \in [Server -> Nat]
    BY DEF TypeOK
  <2>1. PromisesConsistent'
    BY <2>0 DEF PromisesConsistent, Promises, voteVars
  <2>2. VoteDurableBeforeReply'
    BY <2>0 DEF VoteDurableBeforeReply, voteVars
  <2>3. VoteNotAheadOfTerm'
    BY <1>0, <2>0, <2>a, UpdateTermFrame DEF VoteNotAheadOfTerm, voteVars
  <2>4. HandlersReachTerm'
    <3> SUFFICES ASSUME NEW r \in rpcs
                 PROVE  /\ r.pc # "request" => started'[r.to]
                        /\ r.pc \in {"vote", "store"} => r.term <= term'[r.to]
                        /\ r.pc = "stepDownWait" =>
                             /\ stepDownBy'[r.to] = "callback"
                             /\ r.term <= pendingTerm'[r.to]
                        /\ r.pc = "store" => ~r.dry
      BY <2>0 DEF HandlersReachTerm
    <3>1. r.to \in Server /\ r.term \in Nat
      BY DEF TypeOK, Rpc
    <3> QED
      BY <1>0, <2>0, <2>a, <3>1, UpdateTermFrame DEF HandlersReachTerm
  <2>5. RolesConsistent'
    BY <2>0, UpdateTermFrame DEF RolesConsistent
  <2>6. TalliesBacked'
    BY <2>0 DEF TalliesBacked, voteVars
  <2>7. WinsBacked'
    BY <2>0, WinsKept DEF voteVars
  <2>8. LeaderWonItsTerm'
    BY <2>0, UpdateTermFrame DEF LeaderWonItsTerm
  <2> QED
    BY <2>1, <2>2, <2>3, <2>4, <2>5, <2>6, <2>7, <2>8
<1>2. ASSUME StepDownSelf(n) \/ StepDownCommand(n)
      PROVE  ElectionInv'
  <2> USE <1>2 DEF StepDownSelf, StepDownCommand
  <2>1. PromisesConsistent'
    BY DEF PromisesConsistent, Promises, voteVars
  <2>2. VoteDurableBeforeReply' /\ VoteNotAheadOfTerm'
    BY DEF VoteDurableBeforeReply, VoteNotAheadOfTerm, voteVars
  <2>3. RolesConsistent'
    BY DEF RolesConsistent, TypeOK
  <2>4. HandlersReachTerm'
    <3>1. stepDownBy[n] = "none"
      BY DEF RolesConsistent
    <3>2. stepDownBy \in [Server -> {"none", "callback", "command"}]
      BY DEF TypeOK
    <3>3. \A r \in rpcs : r.to \in Server
      BY DEF TypeOK, Rpc
    <3> QED
      BY <3>1, <3>2, <3>3 DEF HandlersReachTerm
  <2>5. TalliesBacked' /\ LeaderWonItsTerm'
    BY DEF TalliesBacked, LeaderWonItsTerm, voteVars
  <2>6. WinsBacked'
    BY WinsKept DEF voteVars
  <2> QED
    BY <2>1, <2>2, <2>3, <2>4, <2>5, <2>6
<1>3. ASSUME StepDownCommandFinish(n)
      PROVE  ElectionInv'
  <2> USE <1>3 DEF StepDownCommandFinish
  <2>1. PromisesConsistent'
    BY DEF PromisesConsistent, Promises, voteVars
  <2>2. VoteDurableBeforeReply' /\ VoteNotAheadOfTerm'
    BY DEF VoteDurableBeforeReply, VoteNotAheadOfTerm, voteVars, TypeOK
  <2>3. RolesConsistent'
    BY DEF RolesConsistent, TypeOK
  <2>4. HandlersReachTerm'
    <3>1. stepDownBy \in [Server -> {"none", "callback", "command"}]
      BY DEF TypeOK
    <3>2. \A r \in rpcs : r.to \in Server
      BY DEF TypeOK, Rpc
    <3> QED
      BY <3>1, <3>2 DEF HandlersReachTerm
  <2>5. TalliesBacked' /\ LeaderWonItsTerm'
    BY DEF TalliesBacked, LeaderWonItsTerm, voteVars, TypeOK
  <2>6. WinsBacked'
    BY WinsKept DEF voteVars
  <2> QED
    BY <2>1, <2>2, <2>3, <2>4, <2>5, <2>6
<1>4. ASSUME StepDownFinish(n)
      PROVE  ElectionInv'
  <2> USE <1>4 DEF StepDownFinish, WakeHandlers
  <2>0. \A m \in Server : term[m] <= term'[m]
    BY <1>0 DEF TypeOK, Max2
  <2>a. term' \in [Server -> Nat] /\ role' \in [Server -> {"follower", "candidate", "leader"}]
    BY DEF TypeOK
  <2>1. PromisesConsistent'
    <3>1. ASSUME NEW v \in Server PROVE Promises(v)' = Promises(v)
      <4>1. {q \in rpcs' : q.to = v /\ q.pc = "store"}
              = {q \in rpcs : q.to = v /\ q.pc = "store"}
        <5>1. \A r \in rpcs : [r EXCEPT !.pc = "vote"].pc = "vote"
          BY DEF TypeOK, Rpc
        <5> QED
          BY <5>1
      <4> QED
        BY <4>1 DEF Promises, voteVars
    <3> QED
      BY <3>1, PromisesKept DEF voteVars
  <2>2. VoteDurableBeforeReply' /\ VoteNotAheadOfTerm'
    BY <1>0, <2>0, <2>a DEF VoteDurableBeforeReply, VoteNotAheadOfTerm, voteVars, TypeOK
  <2>3. RolesConsistent'
    BY DEF RolesConsistent, TypeOK
  <2>4. HandlersReachTerm'
    <3> SUFFICES ASSUME NEW r \in rpcs'
                 PROVE  /\ r.pc # "request" => started'[r.to]
                        /\ r.pc \in {"vote", "store"} => r.term <= term'[r.to]
                        /\ r.pc = "stepDownWait" =>
                             /\ stepDownBy'[r.to] = "callback"
                             /\ r.term <= pendingTerm'[r.to]
                        /\ r.pc = "store" => ~r.dry
      BY DEF HandlersReachTerm
    <3>1. PICK q \in rpcs : r = IF q.to = n /\ q.pc = "stepDownWait"
                                  THEN [q EXCEPT !.pc = "vote"] ELSE q
      OBVIOUS
    <3>2. q \in Rpc /\ q.to \in Server /\ q.term \in Nat
      BY DEF TypeOK, Rpc
    <3>3. CASE q.to = n /\ q.pc = "stepDownWait"
      <4>1. r.to = n /\ r.pc = "vote" /\ r.term = q.term
        BY <3>1, <3>2, <3>3 DEF Rpc
      <4>2. q.term <= pendingTerm[n] /\ started[n]
        BY <3>3 DEF HandlersReachTerm
      <4>3. term'[n] = Max2(term[n], pendingTerm[n])
        BY DEF TypeOK
      <4> QED
        BY <1>0, <3>2, <4>1, <4>2, <4>3 DEF Max2
    <3>4. CASE q.to # n \/ q.pc # "stepDownWait"
      BY <1>0, <2>0, <2>a, <3>1, <3>2, <3>4 DEF HandlersReachTerm, TypeOK
    <3> QED
      BY <3>3, <3>4
  <2>5. TalliesBacked' /\ LeaderWonItsTerm'
    BY DEF TalliesBacked, LeaderWonItsTerm, voteVars, TypeOK
  <2>6. WinsBacked'
    BY WinsKept DEF voteVars
  <2> QED
    BY <2>1, <2>2, <2>3, <2>4, <2>5, <2>6
<1> QED
  BY <1>1, <1>2, <1>3, <1>4 DEF TermStep

(* _startRealElection: the candidate's own vote is a new promise, of a term *)
(* above every earlier one.                                                 *)
LEMMA StartRealElectionInv ==
  ASSUME TypeOK, TypeOK', ElectionInv, NEW c \in Server, NEW t \in Nat,
         StartRealElection(c, t), t > term[c], role[c] # "leader", started[c],
         UNCHANGED <<started, leaderMode, stepDownBy, pendingTerm, lastVoteDoc, cast,
                     rpcs, wins>>
  PROVE  ElectionInv'
<1> USE DEF ElectionInv, StartRealElection
<1>0. /\ \A m \in Server : /\ term[m] \in Nat /\ lastVote[m].term \in Nat
                          /\ term'[m] \in Nat /\ term[m] <= term'[m]
      /\ election \in [Server -> ElectionState]
  BY DEF TypeOK, LastVote
<1>a. /\ election'[c] = NewTally("writeVote", c, t, NoServer)
      /\ \A m \in Server \ {c} : election'[m] = election[m]
      /\ lastVote'[c] = [term |-> t, cand |-> c]
      /\ \A m \in Server \ {c} : lastVote'[m] = lastVote[m]
  BY DEF TypeOK
<1>b. /\ election'[c].phase = "writeVote" /\ election'[c].term = t
      /\ election'[c].votes = {c}
  BY <1>a DEF NewTally
<1>1. PromisesConsistent'
  <2>1. t > lastVote[c].term
    BY <1>0 DEF VoteNotAheadOfTerm
  <2>2. Promises(c)' \subseteq Promises(c) \cup {<<t, c>>}
    BY <1>a, <1>b DEF Promises
  <2>3. \A u \in Server \ {c} : Promises(u)' \subseteq Promises(u)
    BY <1>a DEF Promises
  <2> QED
    BY <1>a, <2>1, <2>2, <2>3, PromiseMade
<1>2. VoteDurableBeforeReply'
  BY DEF VoteDurableBeforeReply
<1>3. VoteNotAheadOfTerm'
  BY <1>0, <1>a DEF VoteNotAheadOfTerm, TypeOK
<1>4. HandlersReachTerm'
  <2>1. \A r \in rpcs : r.to \in Server /\ r.term \in Nat
    BY DEF TypeOK, Rpc
  <2> QED
    BY <1>0, <2>1 DEF HandlersReachTerm
<1>5. RolesConsistent'
  BY <1>a, <1>b DEF RolesConsistent, TypeOK
<1>6. TalliesBacked'
  BY <1>a, <1>b DEF TalliesBacked
<1>7. WinsBacked'
  BY WinsKept
<1>8. LeaderWonItsTerm'
  BY DEF LeaderWonItsTerm, TypeOK
<1> QED
  BY <1>1, <1>2, <1>3, <1>4, <1>5, <1>6, <1>7, <1>8

(* Losing an election only forgets.                                         *)
LEMMA LoseElectionInv ==
  ASSUME TypeOK, TypeOK', ElectionInv, NEW c \in Server, LoseElection(c),
         election[c].phase # "none",
         UNCHANGED <<started, term, leaderMode, stepDownBy, pendingTerm, voteVars,
                     rpcs, wins>>
  PROVE  ElectionInv'
<1> USE DEF ElectionInv, LoseElection, voteVars
<1>a. /\ election'[c].phase = "none"
      /\ \A m \in Server \ {c} : election'[m] = election[m]
  BY DEF TypeOK, NoElection, NewTally
<1>1. PromisesConsistent'
  <2>1. \A u \in Server : Promises(u)' \subseteq Promises(u)
    BY <1>a DEF Promises
  <2> QED
    BY <2>1, PromisesKept
<1>2. VoteDurableBeforeReply' /\ HandlersReachTerm'
  BY DEF VoteDurableBeforeReply, HandlersReachTerm
<1>3. VoteNotAheadOfTerm' /\ LeaderWonItsTerm'
  BY DEF VoteNotAheadOfTerm, LeaderWonItsTerm, TypeOK
<1>4. RolesConsistent'
  BY <1>a DEF RolesConsistent, TypeOK
<1>5. TalliesBacked'
  BY <1>a DEF TalliesBacked
<1>6. WinsBacked'
  BY WinsKept
<1> QED
  BY <1>1, <1>2, <1>3, <1>4, <1>5, <1>6

(* The steps of a candidate.                                                *)
LEMMA CandidateStepInv ==
  ASSUME TypeOK, TypeOK', ElectionInv, NEW c \in Server, CandidateStep(c)
  PROVE  ElectionInv'
<1> DEFINE e == election[c]
<1>0. /\ e \in ElectionState /\ e.term \in Nat /\ term[c] \in Nat
      /\ election \in [Server -> ElectionState]
  BY DEF TypeOK, ElectionState
<1>e. e.phase # "none" => role[c] = "candidate" /\ started[c]
  BY DEF ElectionInv, RolesConsistent, VoteNotAheadOfTerm
<1>1. ASSUME NEW p \in {NoServer} \cup {w[2] : w \in wins}, StartDryRun(c, p)
      PROVE  ElectionInv'
  <2> USE <1>1 DEF StartDryRun, ElectionInv
  <2>a. /\ election'[c].phase = "dryRun"
        /\ \A m \in Server \ {c} : election'[m] = election[m]
    BY DEF TypeOK, NewTally
  <2>b. role[c] = "follower" /\ election[c].phase = "none"
    BY DEF Electable, RolesConsistent
  <2>c. \A r \in rpcs' : r \in rpcs \/ r.pc = "request"
    BY DEF VoteRequests, Request
  <2>1. PromisesConsistent'
    <3>1. \A u \in Server : Promises(u)' \subseteq Promises(u)
      <4>1. \A u \in Server : {q \in rpcs' : q.to = u /\ q.pc = "store"}
                               \subseteq {q \in rpcs : q.to = u /\ q.pc = "store"}
        BY <2>c
      <4>2. \A u \in Server : election'[u].phase = "writeVote" =>
                               election'[u] = election[u]
        BY <2>a
      <4>3. cast' = cast /\ lastVote' = lastVote /\ lastVoteDoc' = lastVoteDoc
        BY DEF voteVars
      <4> HIDE <1>1
      <4> QED
        BY <4>1, <4>2, <4>3 DEF Promises
    <3> QED
      BY <3>1, PromisesKept DEF voteVars
  <2>2. VoteDurableBeforeReply'
    BY DEF VoteDurableBeforeReply, voteVars
  <2>3. VoteNotAheadOfTerm' /\ LeaderWonItsTerm'
    BY DEF VoteNotAheadOfTerm, LeaderWonItsTerm, voteVars, TypeOK, Electable
  <2>4. HandlersReachTerm'
    BY <2>c DEF HandlersReachTerm
  <2>5. RolesConsistent'
    BY <2>a, <2>b DEF RolesConsistent, TypeOK
  <2>6. TalliesBacked'
    BY <2>a DEF TalliesBacked, voteVars
  <2>7. WinsBacked'
    BY WinsKept DEF voteVars
  <2> QED
    BY <2>1, <2>2, <2>3, <2>4, <2>5, <2>6, <2>7
<1>2. CASE StartSkippingDryRun(c)
  <2>1. StartRealElection(c, term[c] + 1) /\ term[c] + 1 \in Nat
    BY <1>0, <1>2 DEF StartSkippingDryRun
  <2>2. role[c] # "leader" /\ started[c]
    BY <1>2 DEF StartSkippingDryRun, Electable
  <2>3. term[c] + 1 > term[c]
    BY <1>0
  <2> QED
    BY <1>2, <2>1, <2>2, <2>3, StartRealElectionInv DEF StartSkippingDryRun
<1>3. CASE DryRunSucceeds(c)
  <2>1. StartRealElection(c, e.term + 1) /\ e.term + 1 \in Nat
    BY <1>0, <1>3 DEF DryRunSucceeds
  <2>2. role[c] # "leader" /\ started[c]
    BY <1>3, <1>e DEF DryRunSucceeds
  <2>3. e.term + 1 > term[c]
    BY <1>0, <1>3 DEF DryRunSucceeds
  <2> QED
    BY <1>3, <2>1, <2>2, <2>3, StartRealElectionInv DEF DryRunSucceeds
<1>4. CASE RoundFails(c)
  BY <1>4, LoseElectionInv DEF RoundFails
<1>5. CASE CancelElection(c)
  <2>1. CASE LoseElection(c) /\ e.phase # "none"
    BY <1>5, <2>1, LoseElectionInv DEF CancelElection
  <2>2. CASE /\ e.phase = "writeVote"
             /\ election' = [election EXCEPT ![c].canceled = TRUE]
             /\ UNCHANGED role
    <3> USE DEF ElectionInv, voteVars
    <3>0. UNCHANGED <<started, term, role, leaderMode, stepDownBy, pendingTerm,
                      voteVars, rpcs, wins>>
      BY <1>5, <2>2 DEF CancelElection
    <3>1. \A m \in Server : /\ election'[m].phase = election[m].phase
                           /\ election'[m].term = election[m].term
                           /\ election'[m].votes = election[m].votes
      BY <1>0, <2>2 DEF ElectionState
    <3>2. PromisesConsistent'
      <4>1. \A u \in Server : Promises(u)' \subseteq Promises(u)
        BY <3>0, <3>1 DEF Promises
      <4> QED
        BY <3>0, <4>1, PromisesKept
    <3>3. /\ VoteDurableBeforeReply' /\ VoteNotAheadOfTerm' /\ HandlersReachTerm'
          /\ LeaderWonItsTerm'
      BY <3>0 DEF VoteDurableBeforeReply, VoteNotAheadOfTerm, HandlersReachTerm,
                  LeaderWonItsTerm
    <3>4. RolesConsistent' /\ TalliesBacked'
      BY <3>0, <3>1 DEF RolesConsistent, TalliesBacked
    <3>5. WinsBacked'
      BY <3>0, WinsKept
    <3> QED
      BY <3>2, <3>3, <3>4, <3>5
  <2> QED
    BY <1>5, <2>1, <2>2 DEF CancelElection
<1>7. CASE WriteLastVoteFails(c)
  BY <1>7, LoseElectionInv DEF WriteLastVoteFails
<1>8. CASE WinElection(c)
  <2> USE <1>8 DEF WinElection, ElectionInv, voteVars
  <2>a. /\ election'[c].phase = "none"
        /\ \A m \in Server \ {c} : election'[m] = election[m]
    BY DEF TypeOK, NoElection, NewTally
  <2>1. PromisesConsistent'
    <3>1. \A u \in Server : Promises(u)' \subseteq Promises(u)
      BY <2>a DEF Promises
    <3> QED
      BY <3>1, PromisesKept
  <2>2. VoteDurableBeforeReply' /\ HandlersReachTerm'
    BY DEF VoteDurableBeforeReply, HandlersReachTerm
  <2>3. VoteNotAheadOfTerm' /\ LeaderWonItsTerm'
    BY <1>e DEF VoteNotAheadOfTerm, LeaderWonItsTerm, TypeOK
  <2>4. RolesConsistent'
    BY <1>e, <2>a DEF RolesConsistent, TypeOK
  <2>5. TalliesBacked'
    BY <2>a DEF TalliesBacked
  <2>6. WinsBacked'
    <3> SUFFICES ASSUME NEW w \in wins'
                 PROVE  \E Q \in SUBSET Server :
                          IsMajority(Q) /\ \A v \in Q : <<v, w[1], w[2]>> \in cast'
      BY DEF WinsBacked
    <3>1. CASE w \in wins
      BY <3>1 DEF WinsBacked
    <3>2. CASE w = <<term[c], c>>
      <4>1. e.votes \in SUBSET Server /\ IsMajority(e.votes)
        BY <1>0 DEF SuccessfullyElected, ElectionState
      <4>2. \A v \in e.votes : <<v, w[1], w[2]>> \in cast'
        BY <3>2 DEF TalliesBacked
      <4> QED
        BY <4>1, <4>2
    <3> QED
      BY <3>1, <3>2
  <2> QED
    BY <2>1, <2>2, <2>3, <2>4, <2>5, <2>6
<1>6. CASE WriteLastVoteForMyElection(c)
  <2> USE <1>6 DEF ElectionInv
  <2>0. /\ e.phase = "writeVote"
        /\ StoreLocalLastVoteDocument(c, [term |-> e.term, cand |-> c])
        /\ UNCHANGED <<started, term, leaderMode, stepDownBy, pendingTerm, lastVote,
                       wins>>
    BY DEF WriteLastVoteForMyElection
  <2>a. /\ lastVoteDoc'[c] = lastVoteDoc[c] \/ lastVoteDoc'[c] = [term |-> e.term, cand |-> c]
        /\ lastVoteDoc[c].term <= lastVoteDoc'[c].term
        /\ e.term <= lastVoteDoc'[c].term
        /\ \A m \in Server \ {c} : lastVoteDoc'[m] = lastVoteDoc[m]
    <3>1. lastVoteDoc \in [Server -> LastVote] /\ lastVoteDoc[c].term \in Nat
      BY DEF TypeOK, LastVote
    <3> HIDE DEF e
    <3> QED
      BY <1>0, <2>0, <3>1 DEF StoreLocalLastVoteDocument
  <2>b. \/ /\ cast' = cast \cup {<<c, e.term, c>>} /\ role' = role
           /\ election' = [election EXCEPT ![c].phase = "requestVotes"]
           /\ rpcs' = rpcs \cup VoteRequests(c, e.term, FALSE)
        \/ cast' = cast /\ LoseElection(c) /\ rpcs' = rpcs
    BY DEF WriteLastVoteForMyElection
  <2>r. role[c] = "candidate" /\ role \in [Server -> {"follower", "candidate", "leader"}]
    BY <1>e, <2>0 DEF TypeOK
  <2>c. /\ \/ /\ election'[c].phase = "requestVotes" /\ election'[c].term = e.term
              /\ election'[c].votes = e.votes /\ role'[c] = "candidate"
              /\ <<c, e.term, c>> \in cast'
           \/ election'[c].phase = "none" /\ role'[c] = "follower"
        /\ \A m \in Server \ {c} : election'[m] = election[m] /\ role'[m] = role[m]
    <3>1. CASE /\ cast' = cast \cup {<<c, e.term, c>>} /\ role' = role
               /\ election' = [election EXCEPT ![c].phase = "requestVotes"]
      BY <1>0, <2>r, <3>1 DEF ElectionState
    <3>2. CASE LoseElection(c)
      BY <1>0, <2>r, <3>2 DEF LoseElection, NoElection, NewTally
    <3> QED
      BY <2>b, <3>1, <3>2
  <2>d. \A r \in rpcs' : r \in rpcs \/ r.pc = "request"
    BY <2>b DEF VoteRequests, Request
  <2>e. <<e.term, c>> \in Promises(c)
    BY <2>0 DEF Promises
  <2>f. cast \subseteq cast' /\ cast' \subseteq cast \cup {<<c, e.term, c>>}
    BY <2>b
  <2>1. PromisesConsistent'
    <3>1. ASSUME NEW u \in Server PROVE Promises(u)' \subseteq Promises(u)
      <4>1. CASE u = c
        <5> SUFFICES ASSUME NEW p \in Promises(c)' PROVE p \in Promises(c)
          BY <4>1
        <5>1. election'[c].phase # "writeVote"
          BY <2>c
        <5>2. lastVote' = lastVote
          BY <2>0
        <5> HIDE DEF e
        <5> HIDE <1>6
        <5> QED
          BY <2>a, <2>d, <2>e, <2>f, <5>1, <5>2 DEF Promises
      <4>2. CASE u # c
        BY <2>0, <2>a, <2>c, <2>d, <2>f, <4>2 DEF Promises
      <4> QED
        BY <4>1, <4>2
    <3> QED
      BY <2>0, <3>1, PromisesKept
  <2>2. VoteDurableBeforeReply'
    <3> SUFFICES ASSUME NEW a \in cast' PROVE a[2] <= lastVoteDoc'[a[1]].term
      BY DEF VoteDurableBeforeReply
    <3>0. \A m \in Server : lastVoteDoc[m].term \in Nat /\ lastVoteDoc'[m].term \in Nat
      BY DEF TypeOK, LastVote
    <3>1. CASE a \in cast
      <4>1. a[1] \in Server /\ a[2] \in Nat
        BY <3>1 DEF TypeOK
      <4>2. a[2] <= lastVoteDoc[a[1]].term
        BY <3>1 DEF VoteDurableBeforeReply
      <4>3. lastVoteDoc[a[1]].term <= lastVoteDoc'[a[1]].term
        BY <2>a, <3>0, <4>1
      <4> QED
        BY <3>0, <4>1, <4>2, <4>3
    <3>2. CASE a = <<c, e.term, c>>
      BY <2>a, <3>2
    <3> QED
      BY <2>f, <3>1, <3>2
  <2>3. VoteNotAheadOfTerm' /\ LeaderWonItsTerm'
    BY <1>e, <2>0, <2>a, <2>c DEF VoteNotAheadOfTerm, LeaderWonItsTerm
  <2>4. HandlersReachTerm'
    BY <2>0, <2>d DEF HandlersReachTerm
  <2>5. RolesConsistent'
    BY <2>0, <2>c, <2>r DEF RolesConsistent
  <2>6. TalliesBacked'
    <3>1. e.votes = {c}
      BY <2>0 DEF TalliesBacked
    <3> QED
      BY <2>c, <2>f, <3>1 DEF TalliesBacked
  <2>7. WinsBacked'
    BY <2>0, <2>f, WinsKept
  <2> QED
    BY <2>1, <2>2, <2>3, <2>4, <2>5, <2>6, <2>7
<1>9. ASSUME NEW v \in Server, RpcFails(c, v)
      PROVE  ElectionInv'
  <2> USE <1>9 DEF ElectionInv, voteVars, topVars
  <2>0. UNCHANGED <<topVars, voteVars, rpcs, wins>> /\ e.phase \in {"dryRun", "requestVotes"}
    BY DEF RpcFails
  <2>1. \A m \in Server : /\ election'[m].phase = election[m].phase
                         /\ election'[m].term = election[m].term
                         /\ election'[m].votes = election[m].votes
    <3>1. \A x \in {ProcessFailure(e, v), ProcessResponse(e, c, v, FALSE, 0)} :
            x.phase = e.phase /\ x.term = e.term /\ x.votes = e.votes
      <4> HIDE DEF e
      <4> QED
        BY <1>0 DEF ProcessFailure, ProcessResponse, ElectionState
    <3>2. PICK x \in {ProcessFailure(e, v), ProcessResponse(e, c, v, FALSE, 0)} :
            election' = [election EXCEPT ![c] = x]
      BY DEF RpcFails
    <3> QED
      BY <1>0, <3>1, <3>2
  <2>2. PromisesConsistent'
    <3>1. \A u \in Server : Promises(u)' \subseteq Promises(u)
      BY <2>0, <2>1 DEF Promises
    <3> QED
      BY <2>0, <3>1, PromisesKept
  <2>3. /\ VoteDurableBeforeReply' /\ VoteNotAheadOfTerm' /\ HandlersReachTerm'
        /\ LeaderWonItsTerm'
    BY <2>0 DEF VoteDurableBeforeReply, VoteNotAheadOfTerm, HandlersReachTerm,
                LeaderWonItsTerm
  <2>4. RolesConsistent' /\ TalliesBacked'
    BY <2>0, <2>1 DEF RolesConsistent, TalliesBacked
  <2>5. WinsBacked'
    BY <2>0, WinsKept
  <2> QED
    BY <2>2, <2>3, <2>4, <2>5
<1> QED
  BY <1>1, <1>2, <1>3, <1>4, <1>5, <1>6, <1>7, <1>8, <1>9 DEF CandidateStep

(* The steps of a voter.  This is where the windows matter: a request of a  *)
(* higher term must not get past updateTerm while the term stays behind.    *)
LEMMA VoterStepInv ==
  ASSUME TypeOK, TypeOK', ElectionInv, VoteWindows = {}, NEW r \in rpcs, VoterStep(r)
  PROVE  ElectionInv'
<1> DEFINE v == r.to
           c == r.from
<1>0. /\ r \in Rpc /\ v \in Server /\ c \in Server
      /\ r.term \in Nat /\ r.rterm \in Nat
      /\ \A q \in rpcs : q \in Rpc /\ q.to \in Server /\ q.term \in Nat
      /\ \A m \in Server : term[m] \in Nat /\ lastVote[m].term \in Nat
  BY DEF TypeOK, Rpc, LastVote
<1>1. CASE ReceiveVoteRequest(r)
  <2> USE DEF ElectionInv
  <2>0. /\ r.pc = "request" /\ UpdateTerm(v, r.term)
        /\ leaderMode[v] # "SteppingDown" /\ started[v]
        /\ UNCHANGED <<voteVars, election, wins>>
    BY <1>1 DEF ReceiveVoteRequest, StartsStepDown
  <2>a. PICK pc \in {"stepDownWait", "vote"} :
          /\ rpcs' = (rpcs \ {r}) \cup {[r EXCEPT !.pc = pc]}
          /\ pc = "stepDownWait" <=> r.term > term[v] /\ role[v] = "leader"
    BY <1>1, <2>0 DEF ReceiveVoteRequest, StartsStepDown, Advance
  <2> DEFINE x == [r EXCEPT !.pc = pc]
  <2>x. x.to = v /\ x.pc = pc /\ x.term = r.term
    BY <1>0 DEF Rpc
  <2>b. term' \in [Server -> Nat] /\ pendingTerm \in [Server -> Nat]
        /\ pendingTerm' \in [Server -> Nat]
    BY DEF TypeOK
  <2>1. PromisesConsistent'
    <3>1. \A u \in Server : {q \in rpcs' : q.to = u /\ q.pc = "store"}
                               \subseteq {q \in rpcs : q.to = u /\ q.pc = "store"}
      BY <2>a, <2>x
    <3>2. \A u \in Server : Promises(u)' \subseteq Promises(u)
      BY <2>0, <3>1 DEF Promises, voteVars
    <3> QED
      BY <2>0, <3>2, PromisesKept DEF voteVars
  <2>2. VoteDurableBeforeReply'
    BY <2>0 DEF VoteDurableBeforeReply, voteVars
  <2>3. VoteNotAheadOfTerm'
    BY <1>0, <2>0, <2>b, UpdateTermFrame DEF VoteNotAheadOfTerm, voteVars
  <2>4. HandlersReachTerm'
    <3> SUFFICES ASSUME NEW q \in rpcs'
                 PROVE  /\ q.pc # "request" => started'[q.to]
                        /\ q.pc \in {"vote", "store"} => q.term <= term'[q.to]
                        /\ q.pc = "stepDownWait" =>
                             /\ stepDownBy'[q.to] = "callback"
                             /\ q.term <= pendingTerm'[q.to]
                        /\ q.pc = "store" => ~q.dry
      BY DEF HandlersReachTerm
    <3>1. CASE q \in rpcs
      <4>1. q.to \in Server /\ q.term \in Nat
        BY <1>0, <3>1
      <4> QED
        BY <1>0, <2>0, <2>b, <3>1, <4>1, UpdateTermFrame DEF HandlersReachTerm
    <3>2. CASE q = x
      <4>1. CASE r.term > term[v] /\ role[v] = "leader"
        BY <1>0, <2>0, <2>a, <2>x, <3>2, <4>1, UpdateTermFrame
      <4>2. CASE r.term <= term[v]
        <5>1. term[v] <= term'[v] /\ started'[v]
          BY <1>0, <2>0, UpdateTermFrame
        <5> QED
          BY <1>0, <2>a, <2>b, <2>x, <3>2, <4>2, <5>1
      <4>3. CASE role[v] # "leader"
        BY <1>0, <2>0, <2>a, <2>x, <3>2, <4>3, UpdateTermFrame
      <4> QED
        BY <1>0, <4>1, <4>2, <4>3
    <3> QED
      BY <2>a, <3>1, <3>2
  <2>5. RolesConsistent'
    BY <1>0, <2>0, UpdateTermFrame DEF RolesConsistent
  <2>6. TalliesBacked'
    BY <2>0 DEF TalliesBacked, voteVars
  <2>7. WinsBacked'
    BY <2>0, WinsKept DEF voteVars
  <2>8. LeaderWonItsTerm'
    BY <1>0, <2>0, UpdateTermFrame DEF LeaderWonItsTerm
  <2> QED
    BY <2>1, <2>2, <2>3, <2>4, <2>5, <2>6, <2>7, <2>8
<1>2. CASE DenyVote(r) \/ GrantDryRunVote(r)
  <2> USE DEF ElectionInv, voteVars, topVars
  <2>0. /\ UNCHANGED <<topVars, voteVars, wins>> /\ rpcs' = rpcs \ {r}
        /\ \E g \in BOOLEAN : Respond(r, g, term[v]) /\ (g => r.dry)
    BY <1>2 DEF DenyVote, GrantDryRunVote
  <2>1. PICK g \in BOOLEAN : Respond(r, g, term[v]) /\ (g => r.dry)
    BY <2>0
  <2>2. \A m \in Server : /\ election'[m].phase = election[m].phase
                         /\ election'[m].term = election[m].term
                         /\ \/ election'[m].votes = election[m].votes
                            \/ election[m].phase = "dryRun"
    BY <1>0, <2>1, RespondFrame
  <2>3. PromisesConsistent'
    <3>1. \A u \in Server : Promises(u)' \subseteq Promises(u)
      BY <2>0, <2>2 DEF Promises
    <3> QED
      BY <2>0, <3>1, PromisesKept
  <2>4. /\ VoteDurableBeforeReply' /\ VoteNotAheadOfTerm' /\ HandlersReachTerm'
        /\ LeaderWonItsTerm'
    BY <2>0 DEF VoteDurableBeforeReply, VoteNotAheadOfTerm, HandlersReachTerm,
                LeaderWonItsTerm
  <2>5. RolesConsistent' /\ TalliesBacked'
    BY <2>0, <2>2 DEF RolesConsistent, TalliesBacked
  <2>6. WinsBacked'
    BY <2>0, WinsKept
  <2> QED
    BY <2>3, <2>4, <2>5, <2>6
<1>3. CASE GrantVote(r)
  <2> USE DEF ElectionInv
  <2>0. /\ r.pc = "vote" /\ ~r.dry
        /\ term[v] <= r.term /\ lastVote[v].term # r.term
        /\ lastVote' = [lastVote EXCEPT ![v] = [term |-> r.term, cand |-> c]]
        /\ rpcs' = (rpcs \ {r}) \cup {[[r EXCEPT !.pc = "store"] EXCEPT !.rterm = term[v]]}
        /\ UNCHANGED <<started, term, role, leaderMode, stepDownBy, pendingTerm,
                       lastVoteDoc, cast, election, wins>>
    BY <1>0, <1>3 DEF GrantVote, VoteDenied, topVars
  <2>v. /\ lastVote'[v] = [term |-> r.term, cand |-> c]
        /\ \A m \in Server \ {v} : lastVote'[m] = lastVote[m]
    BY <1>0, <2>0 DEF TypeOK
  <2> DEFINE x == [[r EXCEPT !.pc = "store"] EXCEPT !.rterm = term[v]]
  <2>x. x.to = v /\ x.pc = "store" /\ x.term = r.term /\ x.from = c /\ x.dry = r.dry
    BY <1>0 DEF Rpc
  <2>r. r.term <= term[v] /\ started[v]
    BY <2>0 DEF HandlersReachTerm
  <2>1. PromisesConsistent'
    <3>1. r.term > lastVote[v].term
      BY <1>0, <2>0, <2>r DEF VoteNotAheadOfTerm
    <3> HIDE DEF x
    <3>2. \A q \in rpcs' : q \in rpcs \/ q = x
      BY <2>0 DEF x
    <3>3. Promises(v)' \subseteq Promises(v) \cup {<<r.term, c>>}
      <4>1. ASSUME NEW p \in Promises(v)'
            PROVE  p \in Promises(v) \cup {<<r.term, c>>}
        <5>1. CASE p \in {<<q.term, q.from>> : q \in {y \in rpcs' : y.to = v /\ y.pc = "store"}}
          BY <2>x, <3>2, <5>1 DEF Promises
        <5>2. CASE p \notin {<<q.term, q.from>> : q \in {y \in rpcs' : y.to = v /\ y.pc = "store"}}
          BY <2>0, <2>v, <5>2, <4>1 DEF Promises
        <5> QED
          BY <5>1, <5>2
      <4> QED
        BY <4>1
    <3>4. \A u \in Server \ {v} : Promises(u)' \subseteq Promises(u)
      BY <2>0, <2>v, <2>x, <3>2 DEF Promises
    <3>5. /\ TypeOK /\ PromisesConsistent /\ v \in Server /\ r.term \in Nat
          /\ lastVote'[v].term = r.term
      BY <1>0, <2>v DEF Rpc
    <3>6. \A u \in Server \ {v} : Promises(u)' \subseteq Promises(u) /\ lastVote'[u] = lastVote[u]
      BY <2>v, <3>4
    <3> HIDE DEF ElectionInv, v, c
    <3> QED
      BY <3>1, <3>3, <3>5, <3>6, PromiseMade
  <2>2. VoteDurableBeforeReply' /\ LeaderWonItsTerm' /\ RolesConsistent' /\ TalliesBacked'
    BY <2>0 DEF VoteDurableBeforeReply, LeaderWonItsTerm, RolesConsistent, TalliesBacked
  <2>3. VoteNotAheadOfTerm'
    BY <1>0, <2>0, <2>v, <2>r DEF VoteNotAheadOfTerm
  <2>4. HandlersReachTerm'
    BY <2>0, <2>x, <2>r DEF HandlersReachTerm
  <2>5. WinsBacked'
    BY <2>0, WinsKept
  <2> QED
    BY <2>1, <2>2, <2>3, <2>4, <2>5
<1>4. CASE StoreVote(r)
  <2> USE DEF ElectionInv
  <2>0. /\ r.pc = "store"
        /\ StoreLocalLastVoteDocument(v, [term |-> r.term, cand |-> c])
        /\ cast' = cast \cup {<<v, r.term, c>>}
        /\ Respond(r, TRUE, r.rterm)
        /\ rpcs' = rpcs \ {r}
        /\ UNCHANGED <<started, term, role, leaderMode, stepDownBy, pendingTerm,
                       lastVote, wins>>
    BY <1>4 DEF StoreVote, topVars
  <2>r. started[v] /\ ~r.dry
    BY <2>0 DEF HandlersReachTerm
  <2>a. /\ lastVoteDoc'[v] = lastVoteDoc[v] \/ lastVoteDoc'[v] = [term |-> r.term, cand |-> c]
        /\ lastVoteDoc[v].term <= lastVoteDoc'[v].term
        /\ r.term <= lastVoteDoc'[v].term
        /\ \A m \in Server \ {v} : lastVoteDoc'[m] = lastVoteDoc[m]
    <3>1. lastVoteDoc \in [Server -> LastVote] /\ lastVoteDoc[v].term \in Nat
      BY <1>0 DEF TypeOK, LastVote
    <3> QED
      BY <1>0, <2>0, <3>1 DEF StoreLocalLastVoteDocument
  <2>b. \A m \in Server :
          /\ election'[m].phase = election[m].phase
          /\ election'[m].term = election[m].term
          /\ \/ election'[m].votes = election[m].votes
             \/ /\ election'[m].votes = election[m].votes \cup {v}
                /\ m = c /\ election[m].term = r.term
                /\ election[m].phase = "requestVotes"
    BY <1>0, <2>0, <2>r, RespondFrame
  <2>1. PromisesConsistent'
    <3>1. <<r.term, c>> \in Promises(v)
      BY <2>0 DEF Promises
    <3>2. ASSUME NEW u \in Server PROVE Promises(u)' \subseteq Promises(u)
      <4>1. CASE u = v
        BY <2>0, <2>a, <2>b, <3>1, <4>1 DEF Promises
      <4>2. CASE u # v
        BY <2>0, <2>a, <2>b, <4>2 DEF Promises
      <4> QED
        BY <4>1, <4>2
    <3> QED
      BY <2>0, <3>2, PromisesKept
  <2>2. VoteDurableBeforeReply'
    <3> SUFFICES ASSUME NEW a \in cast' PROVE a[2] <= lastVoteDoc'[a[1]].term
      BY DEF VoteDurableBeforeReply
    <3>0. \A m \in Server : lastVoteDoc[m].term \in Nat /\ lastVoteDoc'[m].term \in Nat
      BY DEF TypeOK, LastVote
    <3>1. CASE a \in cast
      <4>1. a[1] \in Server /\ a[2] \in Nat
        BY <3>1 DEF TypeOK
      <4>2. a[2] <= lastVoteDoc[a[1]].term
        BY <3>1 DEF VoteDurableBeforeReply
      <4>3. lastVoteDoc[a[1]].term <= lastVoteDoc'[a[1]].term
        BY <2>a, <3>0, <4>1
      <4> QED
        BY <3>0, <4>1, <4>2, <4>3
    <3>2. CASE a = <<v, r.term, c>>
      BY <2>a, <3>2
    <3> QED
      BY <2>0, <3>1, <3>2
  <2>3. VoteNotAheadOfTerm'
    BY <2>0, <2>a, <2>r DEF VoteNotAheadOfTerm
  <2>4. HandlersReachTerm' /\ LeaderWonItsTerm'
    BY <2>0 DEF HandlersReachTerm, LeaderWonItsTerm
  <2>5. RolesConsistent'
    BY <2>0, <2>b DEF RolesConsistent
  <2>6. TalliesBacked'
    BY <1>0, <2>0, <2>b DEF TalliesBacked
  <2>7. WinsBacked'
    BY <2>0, WinsKept
  <2> QED
    BY <2>1, <2>2, <2>3, <2>4, <2>5, <2>6, <2>7
<1> QED
  BY <1>1, <1>2, <1>3, <1>4 DEF VoterStep

(* The oplog, crashes and startup.                                          *)
LEMMA ServerStepInv ==
  ASSUME TypeOK, TypeOK', ElectionInv, NEW n \in Server, OplogStep(n) \/ CrashStep(n)
  PROVE  ElectionInv'
<1> USE DEF ElectionInv
<1>0. \A m \in Server : /\ term[m] \in Nat /\ lastVote[m].term \in Nat
                       /\ lastVoteDoc[m].term \in Nat /\ lastDurable[m].t \in Nat
  BY DEF TypeOK, LastVote, OpTime
<1>1. CASE OplogStep(n)
  <2>0. UNCHANGED <<started, term, role, stepDownBy, pendingTerm, voteVars, election,
                    rpcs, wins>>
    BY <1>1 DEF OplogStep, DrainComplete, ApplyOps, JournalFlush, topVars
  <2>1. \A m \in Server :
          \/ leaderMode'[m] = leaderMode[m]
          \/ leaderMode[m] = "LeaderElect" /\ leaderMode'[m] = "WritablePrimary"
    <3>1. \/ leaderMode' = leaderMode
          \/ leaderMode' = [leaderMode EXCEPT
                 ![n] = IF @ = "LeaderElect" THEN "WritablePrimary" ELSE @]
      BY <1>1 DEF OplogStep, DrainComplete, ApplyOps, JournalFlush, topVars
    <3>2. leaderMode \in [Server -> {"NotLeader", "LeaderElect", "WritablePrimary",
                                    "SteppingDown"}]
      BY DEF TypeOK
    <3>3. CASE leaderMode' = leaderMode
      BY <3>3
    <3>4. CASE leaderMode' = [leaderMode EXCEPT
                 ![n] = IF @ = "LeaderElect" THEN "WritablePrimary" ELSE @]
      <4> TAKE m \in Server
      <4>1. CASE m = n
        BY <3>2, <3>4, <4>1
      <4>2. CASE m # n
        BY <3>2, <3>4, <4>2
      <4> QED
        BY <4>1, <4>2
    <3> QED
      BY <3>1, <3>3, <3>4
  <2>2. PromisesConsistent'
    BY <2>0 DEF PromisesConsistent, Promises, voteVars
  <2>3. /\ VoteDurableBeforeReply' /\ VoteNotAheadOfTerm' /\ HandlersReachTerm'
        /\ TalliesBacked' /\ LeaderWonItsTerm'
    BY <2>0 DEF VoteDurableBeforeReply, VoteNotAheadOfTerm, HandlersReachTerm,
                TalliesBacked, LeaderWonItsTerm, voteVars
  <2>4. RolesConsistent'
    BY <2>0, <2>1 DEF RolesConsistent
  <2>5. WinsBacked'
    BY <2>0, WinsKept DEF voteVars
  <2> QED
    BY <2>2, <2>3, <2>4, <2>5
<1>2. CASE Restart(n)
  <2> USE <1>2 DEF Restart, InitialTerm, LoadLastVote
  <2>e. /\ election'[n].phase = "none"
        /\ \A m \in Server \ {n} : election'[m] = election[m]
    BY DEF TypeOK, NoElection, NewTally
  <2>v. /\ lastVote'[n] = lastVoteDoc[n]
        /\ \A m \in Server \ {n} : lastVote'[m] = lastVote[m]
    BY DEF TypeOK
  <2>1. PromisesConsistent'
    <3>0. \A u \in Server : Promises(u)' \subseteq Promises(u)
      <4>1. \A u \in Server : <<lastVote'[u].term, lastVote'[u].cand>> \in Promises(u)
        BY <2>v DEF Promises
      <4> QED
        BY <2>e, <4>1 DEF Promises
    <3>1. \A p \in Promises(n)' : p[1] <= lastVoteDoc[n].term
      <4>1. {q \in rpcs' : q.to = n /\ q.pc = "store"} = {}
        OBVIOUS
      <4>2. \A a \in cast : a[1] = n => a[2] <= lastVoteDoc[n].term
        BY DEF VoteDurableBeforeReply
      <4> HIDE <1>2
      <4>3. cast' = cast /\ lastVoteDoc' = lastVoteDoc
        BY <1>2
      <4>4. ASSUME NEW p \in Promises(n)' PROVE p[1] <= lastVoteDoc[n].term
        <5>1. \/ \E a \in cast : a[1] = n /\ p = <<a[2], a[3]>>
              \/ p = <<lastVoteDoc[n].term, lastVoteDoc[n].cand>>
          BY <2>e, <2>v, <4>1, <4>3 DEF Promises
        <5> QED
          BY <1>0, <4>2, <5>1
      <4> QED
        BY <4>4
    <3>2. ASSUME NEW u \in Server
          PROVE  /\ \A p, q \in Promises(u)' : p[1] = q[1] => p[2] = q[2]
                 /\ \A p \in Promises(u)' : p[1] <= lastVote'[u].term
      BY <2>v, <3>0, <3>1 DEF PromisesConsistent
    <3> QED
      BY <3>2 DEF PromisesConsistent
  <2>2. VoteDurableBeforeReply'
    BY DEF VoteDurableBeforeReply
  <2>3. VoteNotAheadOfTerm' /\ LeaderWonItsTerm'
    BY <2>v DEF VoteNotAheadOfTerm, LeaderWonItsTerm, TypeOK
  <2>4. HandlersReachTerm'
    <3>1. \A r \in rpcs : r.to \in Server
      BY DEF TypeOK, Rpc
    <3> QED
      BY <3>1 DEF HandlersReachTerm, TypeOK
  <2>5. RolesConsistent'
    BY <2>e DEF RolesConsistent, TypeOK
  <2>6. TalliesBacked'
    BY <2>e DEF TalliesBacked
  <2>7. WinsBacked'
    BY WinsKept
  <2> QED
    BY <2>1, <2>2, <2>3, <2>4, <2>5, <2>6, <2>7
<1>3. CASE FinishStartup(n)
  <2> USE <1>3 DEF FinishStartup, voteVars
  <2>0. /\ \A m \in Server : term[m] <= term'[m] /\ term'[m] \in Nat
        /\ lastVoteDoc[n].term <= term'[n]
        /\ \A m \in Server : m # n => term'[m] = term[m]
    BY <1>0 DEF TypeOK, Max2
  <2>1. PromisesConsistent'
    BY DEF PromisesConsistent, Promises
  <2>2. VoteDurableBeforeReply' /\ RolesConsistent' /\ TalliesBacked'
    BY DEF VoteDurableBeforeReply, RolesConsistent, TalliesBacked
  <2>3. VoteNotAheadOfTerm'
    BY <2>0 DEF VoteNotAheadOfTerm, TypeOK
  <2>4. HandlersReachTerm'
    <3>1. \A r \in rpcs : r.to \in Server /\ r.term \in Nat
      BY DEF TypeOK, Rpc
    <3> QED
      BY <1>0, <2>0, <3>1 DEF HandlersReachTerm, TypeOK
  <2>5. LeaderWonItsTerm'
    BY <2>0 DEF LeaderWonItsTerm, VoteNotAheadOfTerm
  <2>6. WinsBacked'
    BY WinsKept
  <2> QED
    BY <2>1, <2>2, <2>3, <2>4, <2>5, <2>6
<1> QED
  BY <1>1, <1>2, <1>3 DEF CrashStep

--------------------
(* The inductive invariant holds in every reachable state, provided no vote *)
(* request reaches a server in the middle of an unconditional step down or  *)
(* between the two critical sections of its startup.                        *)
THEOREM ElectionInvariant ==
  ASSUME VoteWindows = {}
  PROVE  Spec => []ElectionInv
<1>1. Init => ElectionInv
  <2> SUFFICES ASSUME Init PROVE ElectionInv
    OBVIOUS
  <2> USE DEF Init, InitialTerm, ElectionInv
  <2>1. PromisesConsistent
    BY DEF PromisesConsistent, Promises, NoElection, NewTally
  <2>2. /\ VoteDurableBeforeReply /\ VoteNotAheadOfTerm /\ HandlersReachTerm
        /\ WinsBacked /\ LeaderWonItsTerm
    BY DEF VoteDurableBeforeReply, VoteNotAheadOfTerm, HandlersReachTerm,
           WinsBacked, LeaderWonItsTerm
  <2>3. RolesConsistent /\ TalliesBacked
    BY DEF RolesConsistent, TalliesBacked, NoElection, NewTally
  <2> QED
    BY <2>1, <2>2, <2>3
<1>2. TypeOK /\ TypeOK' /\ ElectionInv /\ [Next]_vars => ElectionInv'
  <2> SUFFICES ASSUME TypeOK, TypeOK', ElectionInv, [Next]_vars PROVE ElectionInv'
    OBVIOUS
  <2>1. CASE Next
    BY <2>1, TermStepInv, CandidateStepInv, VoterStepInv, ServerStepInv DEF Next
  <2>2. CASE UNCHANGED vars
    BY <2>2 DEF ElectionInv, vars, topVars, voteVars, opVars, PromisesConsistent,
        Promises, VoteDurableBeforeReply, VoteNotAheadOfTerm, HandlersReachTerm,
        RolesConsistent, TalliesBacked, WinsBacked, LeaderWonItsTerm
  <2> QED
    BY <2>1, <2>2
<1> QED
  BY <1>1, <1>2, TypeCorrect, PTL DEF Spec

(* Two majorities of the voting members share a member.                     *)
LEMMA MajoritiesMeet ==
  ASSUME NEW P \in SUBSET Server, NEW Q \in SUBSET Server,
         IsMajority(P), IsMajority(Q)
  PROVE  P \cap Q # {}
<1>1. /\ IsFiniteSet(P) /\ IsFiniteSet(Q) /\ IsFiniteSet(P \cup Q)
      /\ Cardinality(P \cup Q) <= Cardinality(Server)
  <2>1. P \cup Q \subseteq Server
    OBVIOUS
  <2> QED
    BY <2>1, FS_Subset
<1>2. Cardinality(P \cup Q) = Cardinality(P) + Cardinality(Q) - Cardinality(P \cap Q)
  BY <1>1, FS_Union
<1>3. /\ Cardinality(P) \in Nat /\ Cardinality(Q) \in Nat
      /\ Cardinality(P \cup Q) \in Nat /\ Cardinality(Server) \in Nat
  BY <1>1, FS_CardinalityType
<1>4. CASE P \cap Q = {}
  <2>1. Cardinality(P \cap Q) = 0
    BY <1>4, FS_EmptySet
  <2> QED
    BY <1>1, <1>2, <1>3, <2>1 DEF IsMajority
<1> QED
  BY <1>4

(* What the voters promise makes elections safe.                            *)
LEMMA InvariantGivesSafety ==
  ASSUME TypeOK, ElectionInv
  PROVE  ElectionSafety /\ OneVotePerTerm
<1>1. OneVotePerTerm
  <2> SUFFICES ASSUME NEW a \in cast, NEW b \in cast, a[1] = b[1], a[2] = b[2]
               PROVE  a[3] = b[3]
    BY DEF OneVotePerTerm
  <2>1. a[1] \in Server
    BY DEF TypeOK
  <2>2. <<a[2], a[3]>> \in Promises(a[1]) /\ <<b[2], b[3]>> \in Promises(a[1])
    BY DEF Promises
  <2> QED
    BY <2>1, <2>2 DEF ElectionInv, PromisesConsistent
<1>2. ElectionSafety
  <2> SUFFICES ASSUME NEW a \in wins, NEW b \in wins, a[1] = b[1]
               PROVE  a[2] = b[2]
    BY DEF ElectionSafety
  <2>1. PICK P \in SUBSET Server :
          IsMajority(P) /\ \A v \in P : <<v, a[1], a[2]>> \in cast
    BY DEF ElectionInv, WinsBacked
  <2>2. PICK Q \in SUBSET Server :
          IsMajority(Q) /\ \A v \in Q : <<v, b[1], b[2]>> \in cast
    BY DEF ElectionInv, WinsBacked
  <2>3. PICK v \in Server : v \in P /\ v \in Q
    BY <2>1, <2>2, MajoritiesMeet
  <2>4. <<v, a[1], a[2]>> \in cast /\ <<v, b[1], b[2]>> \in cast
    BY <2>1, <2>2, <2>3
  <2> QED
    BY <1>1, <2>4 DEF OneVotePerTerm
<1> QED
  BY <1>1, <1>2

(* Outside the two windows, no two servers are ever elected in one term,    *)
(* for any number of servers, elections, crashes and delayed messages.      *)
THEOREM ElectionSafe ==
  ASSUME VoteWindows = {}
  PROVE  Spec => []ElectionSafety
  BY TypeCorrect, ElectionInvariant, InvariantGivesSafety, PTL

(* And no voter's vote of one term is ever reported to two candidates.      *)
THEOREM VotesOnce ==
  ASSUME VoteWindows = {}
  PROVE  Spec => []OneVotePerTerm
  BY TypeCorrect, ElectionInvariant, InvariantGivesSafety, PTL

(* A vote that was granted is on disk before the answer leaves: whatever    *)
(* crash comes next, the voter remembers it.                                *)
THEOREM VotesDurable ==
  ASSUME VoteWindows = {}
  PROVE  Spec => []VoteDurableBeforeReply
<1>1. ElectionInv => VoteDurableBeforeReply
  BY DEF ElectionInv
<1> QED
  BY <1>1, ElectionInvariant, PTL

(* A server is leader only in terms whose election it won, through step     *)
(* downs, restarts and late answers to earlier elections.                   *)
THEOREM LeadersWon ==
  ASSUME VoteWindows = {}
  PROVE  Spec => []LeaderWonItsTerm
<1>1. ElectionInv => LeaderWonItsTerm
  BY DEF ElectionInv
<1> QED
  BY <1>1, ElectionInvariant, PTL

====================
