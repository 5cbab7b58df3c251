------------ MODULE PrimaryOnlyService ------------
(***************************************************************************)
(* A PrimaryOnlyService (src/mongo/db/repl/primary_only_service.cpp) of    *)
(* one node: tasks that run only while the node is primary and go on after *)
(* a failover from their state documents.  An action is one critical       *)
(* section of _mutex, one wait that comes to an end, or one step of a task *)
(* on the service's executor.                                              *)
(*                                                                         *)
(* The node steps up and down under the RSTL in mode X, so onStepUp and    *)
(* onStepDown exclude each other; the rebuild that onStepUp schedules,     *)
(* shutdown, the instances and the clients run beside them.                *)
(***************************************************************************)
EXTENDS Integers, Sequences, FiniteSets

CONSTANTS
  InstanceID,    \* the ids of state documents
  MaxTerm,       \* bound: how often the node becomes primary
  MaxCreated     \* bound: how many instances the clients create

ASSUME ServiceAssumption ==
  /\ MaxTerm \in Nat /\ MaxCreated \in Nat
  /\ IsFiniteSet(InstanceID)

Term == 1 .. MaxTerm

VARIABLES
  state,      \* _state
  term,       \* _term: the number of the step up
  active,     \* _activeInstances: which object of each id, 0 for none
  instance,   \* the Instance objects of each id, in the order they were made
  created,    \* how many of them the clients created
  executor,   \* the ScopedTaskExecutor of each term
  rebuild,    \* the chain of futures that each onStepUp schedules
  documents,  \* the ids in the state document collection of this node
  stepUp,     \* the thread in onStepUp, which holds the RSTL
  shutdown,   \* the thread in shutdown
  blocked     \* does a client wait on _stateChangeCV?

serviceVars == <<state, term, active, blocked>>
instanceVars == <<instance, created>>
threadVars == <<stepUp, shutdown>>
vars == <<serviceVars, instanceVars, executor, rebuild, documents, threadVars>>

State == {"kPaused", "kRebuilding", "kRunning", "kRebuildFailed", "kShutdown"}

(* "none", a task the service lets go on, or a task it has interrupted.     *)
OpCtx == {"none", "live", "killed"}

(* scheduled, running: a task on the scoped executor.  waiting: a future    *)
(* the instance waits for.  cleanup: a task on the parent executor.         *)
(* document: how far the instance is with its document.  interrupted:       *)
(* interrupt() was called.  released: why the service let go of the object. *)
Instance ==
  [term : Term, op : OpCtx, interrupted : BOOLEAN,
   document : {"unwritten", "stored", "deleted"},
   phase : {"scheduled", "running", "waiting", "cleanup", "complete"},
   released : {"no", "deleted", "dropped"}]

(* majority: waitUntilMajority.  service: _rebuildService.  instances, query *)
(* and found: _rebuildInstances before its check of the state, at the query, *)
(* and with the ids it found.                                                *)
Rebuild ==
  [at : {"none", "majority", "service", "serviceFailed", "instances", "query", "found", "done"},
   op : OpCtx, ids : SUBSET InstanceID]

NoRebuild == [at |-> "none", op |-> "none", ids |-> {}]

Made(id) == 1 .. Len(instance[id])

NoInstances == [id \in InstanceID |-> 0]

(* After startup: the node has never been primary.                          *)
Init ==
  /\ state = "kPaused" /\ term = 0 /\ active = NoInstances /\ blocked = FALSE
  /\ instance = [id \in InstanceID |-> <<>>] /\ created = 0
  /\ executor = [t \in Term |-> "none"]
  /\ rebuild = [t \in Term |-> NoRebuild]
  /\ documents \in SUBSET InstanceID
  /\ stepUp = [pc |-> "idle", saved |-> NoInstances]
  /\ shutdown = [pc |-> "idle", saved |-> NoInstances]

--------------------
(* notify_all on _stateChangeCV: a client that wakes up looks at the state.  *)
NotifyAll == blocked' = (blocked /\ state' = "kRebuilding")

(* _setState.                                                               *)
SetState(s) ==
  /\ state' = s
  /\ IF state # s THEN NotifyAll ELSE UNCHANGED blocked

\* mutant: an OpCtx made while the service is not running is not interrupted
RegisterOpCtx_Always(allowWhileRebuilding) == "live"

(* registerOpCtx: what becomes of a new OpCtx.                              *)
RegisterOpCtx(allowWhileRebuilding) ==
  IF state = "kRunning" \/ (state = "kRebuilding" /\ allowWhileRebuilding)
  THEN "live" ELSE "killed"

Killed(op) == IF op = "none" THEN "none" ELSE "killed"

\* mutant: only the operations are killed, the instances are not told
InterruptInstances_NotTold ==
  /\ executor' = [t \in Term |-> IF t = term THEN "shutdown" ELSE executor[t]]
  /\ instance' = [id \in InstanceID |-> [i \in Made(id) |->
       [instance[id][i] EXCEPT !.op = Killed(@)]]]
  /\ rebuild' = [t \in Term |-> [rebuild[t] EXCEPT !.op = Killed(@)]]

(* _interruptInstances: the executor of the term is shut down, the active   *)
(* instances are interrupted and every registered OpCtx is killed.          *)
InterruptInstances ==
  /\ executor' = [t \in Term |-> IF t = term THEN "shutdown" ELSE executor[t]]
  /\ instance' = [id \in InstanceID |-> [i \in Made(id) |->
       [instance[id][i] EXCEPT !.op = Killed(@), !.interrupted = @ \/ i = active[id]]]]
  /\ rebuild' = [t \in Term |-> [rebuild[t] EXCEPT !.op = Killed(@)]]

NewInstance(document) ==
  [term |-> term, op |-> "none", document |-> document, interrupted |-> FALSE,
   phase |-> "scheduled", released |-> "no"]

(* _insertNewInstance for each of the ids, on the executor of this term.    *)
InsertNewInstances(ids, document) ==
  /\ instance' = [id \in InstanceID |->
       IF id \in ids THEN Append(instance[id], NewInstance(document)) ELSE instance[id]]
  /\ active' = [id \in InstanceID |->
       IF id \in ids THEN Len(instance[id]) + 1 ELSE active[id]]

--------------------
\* mutant: the instances of the earlier term stay in the map
OnStepUp_KeepsInstances ==
  /\ state = "kPaused" /\ stepUp.pc = "idle" /\ term < MaxTerm
  /\ term' = term + 1 /\ SetState("kRebuilding")
  /\ executor' = [executor EXCEPT ![term + 1] = "open"]
  /\ stepUp' = [pc |-> "joining", saved |-> active]
  /\ UNCHANGED <<active, instanceVars, rebuild, documents, shutdown>>

(* onStepUp up to the first unlock: the executor and the instances of the   *)
(* earlier term change place with new ones.  A service that is shut down    *)
(* returns.                                                                 *)
OnStepUp ==
  /\ state = "kPaused" /\ stepUp.pc = "idle" /\ term < MaxTerm
  /\ term' = term + 1 /\ SetState("kRebuilding")
  /\ executor' = [executor EXCEPT ![term + 1] = "open"]
  /\ stepUp' = [pc |-> "joining", saved |-> active]
  /\ active' = NoInstances
  /\ UNCHANGED <<instanceVars, rebuild, documents, shutdown>>

RebuildTasks == {"service", "instances", "query", "found"}

(* join() of the executor of term t: it is shut down and its tasks are over. *)
Joined(t) ==
  /\ executor[t] = "shutdown"
  /\ rebuild[t].at \notin RebuildTasks
  /\ \A id \in InstanceID : \A i \in Made(id) :
       instance[id][i].term = t => instance[id][i].phase \notin {"scheduled", "running"}

Completed(saved) ==
  \A id \in InstanceID : saved[id] # 0 => instance[id][saved[id]].phase = "complete"

JoinLastTerm ==
  /\ stepUp.pc = "joining"
  /\ term > 1 => Joined(term - 1)
  /\ stepUp' = [stepUp EXCEPT !.pc = "instances"]
  /\ UNCHANGED <<serviceVars, instanceVars, executor, rebuild, documents, shutdown>>

\* mutant: the executor is joined, the instances are not
LaunchRebuild_NoWait ==
  /\ stepUp.pc = "instances"
  /\ stepUp' = [pc |-> "idle", saved |-> NoInstances]
  /\ rebuild' = [rebuild EXCEPT ![term].at = "majority"]
  /\ UNCHANGED <<serviceVars, instanceVars, executor, documents, shutdown>>

(* The instances of the earlier term have completed: onStepUp schedules the *)
(* rebuild and returns, and the RSTL is released.                           *)
LaunchRebuild ==
  /\ stepUp.pc = "instances" /\ Completed(stepUp.saved)
  /\ stepUp' = [pc |-> "idle", saved |-> NoInstances]
  /\ rebuild' = [rebuild EXCEPT ![term].at = "majority"]
  /\ UNCHANGED <<serviceVars, instanceVars, executor, documents, shutdown>>

(* onStepDown.                                                              *)
OnStepDown ==
  /\ state \notin {"kPaused", "kShutdown"} /\ stepUp.pc = "idle"
  /\ InterruptInstances /\ SetState("kPaused")
  /\ UNCHANGED <<term, active, created, documents, threadVars>>

\* mutant: the test for a paused service is the wrong way round
BeginShutdown_Inverted ==
  /\ shutdown.pc = "idle"
  /\ IF state = "kPaused" THEN InterruptInstances ELSE UNCHANGED <<executor, instance, rebuild>>
  /\ SetState("kShutdown")
  /\ shutdown' = [pc |-> "joining", saved |-> active]
  /\ active' = NoInstances
  /\ UNCHANGED <<term, created, documents, stepUp>>

(* shutdown under _mutex; it may meet a step up that is joining.            *)
BeginShutdown ==
  /\ shutdown.pc = "idle"
  /\ IF state # "kPaused" THEN InterruptInstances ELSE UNCHANGED <<executor, instance, rebuild>>
  /\ SetState("kShutdown")
  /\ shutdown' = [pc |-> "joining", saved |-> active]
  /\ active' = NoInstances
  /\ UNCHANGED <<term, created, documents, stepUp>>

ShutdownJoins ==
  /\ shutdown.pc = "joining"
  /\ term > 0 => Joined(term)
  /\ shutdown' = [shutdown EXCEPT !.pc = "instances"]
  /\ UNCHANGED <<serviceVars, instanceVars, executor, rebuild, documents, stepUp>>

\* mutant: the parent executor is shut down without the wait
ShutdownExecutor_NoWait ==
  /\ shutdown.pc = "instances"
  /\ shutdown' = [pc |-> "executor", saved |-> NoInstances]
  /\ UNCHANGED <<serviceVars, instanceVars, executor, rebuild, documents, stepUp>>

(* The instances have completed and the parent executor is shut down.       *)
ShutdownExecutor ==
  /\ shutdown.pc = "instances" /\ Completed(shutdown.saved)
  /\ shutdown' = [pc |-> "executor", saved |-> NoInstances]
  /\ UNCHANGED <<serviceVars, instanceVars, executor, rebuild, documents, stepUp>>

ExecutorShutDown == shutdown.pc \in {"executor", "done"}

(* join() of the parent executor: no task of the service is left.           *)
EndShutdown ==
  /\ shutdown.pc = "executor"
  /\ \A t \in Term : rebuild[t].at \notin RebuildTasks
  /\ \A id \in InstanceID : \A i \in Made(id) :
       instance[id][i].phase \notin {"scheduled", "running", "cleanup"}
  /\ shutdown' = [shutdown EXCEPT !.pc = "done"]
  /\ UNCHANGED <<serviceVars, instanceVars, executor, rebuild, documents, stepUp>>
--------------------
(* The chain of onStepUp.  A continuation that the executor refuses, or that *)
(* finds another state or term, ends it.                                     *)
Stale(t) == state # "kRebuilding" \/ term # t

Chain(t, step) ==
  /\ rebuild' = [rebuild EXCEPT ![t] = step]
  /\ UNCHANGED <<instanceVars, executor, documents, threadVars>>

RebuildDone == [NoRebuild EXCEPT !.at = "done"]

(* The first write of the term is majority committed, or the wait for it is *)
(* canceled.                                                                *)
MajorityReached(t) ==
  /\ rebuild[t].at = "majority"
  /\ Chain(t, IF executor[t] = "shutdown" \/ Stale(t) THEN RebuildDone
              ELSE [rebuild[t] EXCEPT !.at = "service"])
  /\ UNCHANGED serviceVars

(* _rebuildService and _rebuildInstances make an OpCtx in an                *)
(* AllowOpCtxWhenServiceRebuildingBlock.                                    *)
RebuildOpCtx(t) ==
  /\ rebuild[t].at \in {"service", "query"} /\ rebuild[t].op = "none"
  /\ Chain(t, [rebuild[t] EXCEPT !.op = RegisterOpCtx(TRUE)])
  /\ UNCHANGED serviceVars

(* _rebuildService, which counts the documents, or creates indexes.  It may *)
(* fail, and then nothing comes after it; the services that try again until *)
(* they succeed fail less.                                                  *)
RebuildServiceEnds(t) ==
  /\ rebuild[t].at = "service"
  /\ \/ /\ rebuild[t].op = "live"
        /\ \E at \in {"instances", "serviceFailed"} :
             Chain(t, IF executor[t] = "shutdown" THEN RebuildDone
                      ELSE [NoRebuild EXCEPT !.at = at])
     \/ rebuild[t].op = "killed" /\ Chain(t, [NoRebuild EXCEPT !.at = "serviceFailed"])
  /\ UNCHANGED serviceVars

BeginRebuildInstances(t) ==
  /\ rebuild[t].at = "instances"
  /\ Chain(t, IF Stale(t) THEN RebuildDone ELSE [rebuild[t] EXCEPT !.at = "query"])
  /\ UNCHANGED serviceVars

(* The query, a read that takes no RSTL and may finish before it notices    *)
(* that it is interrupted.                                                  *)
FindDocuments(t) ==
  /\ rebuild[t].at = "query" /\ rebuild[t].op # "none"
  /\ Chain(t, [at |-> "found", op |-> "none", ids |-> documents])
  /\ UNCHANGED serviceVars

\* mutant: the failure is not made known
FindFails_Silent(t) ==
  /\ rebuild[t].at = "query" /\ rebuild[t].op # "none"
  /\ Chain(t, RebuildDone)
  /\ UNCHANGED serviceVars

FindFails(t) ==
  /\ rebuild[t].at = "query" /\ rebuild[t].op # "none"
  /\ Chain(t, RebuildDone)
  /\ IF Stale(t) THEN UNCHANGED state /\ NotifyAll ELSE SetState("kRebuildFailed")
  /\ UNCHANGED <<term, active>>

\* mutant: the term is not compared
RebuildInstances_AnyTerm(t) ==
  /\ rebuild[t].at = "found"
  /\ rebuild' = [rebuild EXCEPT ![t] = RebuildDone]
  /\ IF state # "kRebuilding" THEN UNCHANGED <<state, active, instance>> /\ NotifyAll
     ELSE SetState("kRunning") /\ InsertNewInstances(rebuild[t].ids, "stored")
  /\ UNCHANGED <<term, created, executor, documents, threadVars>>

(* The end of _rebuildInstances, under _mutex.                              *)
RebuildInstances(t) ==
  /\ rebuild[t].at = "found"
  /\ rebuild' = [rebuild EXCEPT ![t] = RebuildDone]
  /\ IF Stale(t) THEN UNCHANGED <<state, active, instance>> /\ NotifyAll
     ELSE SetState("kRunning") /\ InsertNewInstances(rebuild[t].ids, "stored")
  /\ UNCHANGED <<term, created, executor, documents, threadVars>>

RebuildStep(t) ==
  \/ MajorityReached(t) \/ RebuildOpCtx(t) \/ RebuildServiceEnds(t)
  \/ BeginRebuildInstances(t) \/ FindDocuments(t) \/ FindFails(t) \/ RebuildInstances(t)

--------------------
(* An instance: run() and the tasks it schedules.  Only what the service    *)
(* relies on is here, as TestService of primary_only_service_test.cpp does  *)
(* it.                                                                      *)
Step(id, i, changed) ==
  /\ instance' = [instance EXCEPT ![id][i] = changed]
  /\ UNCHANGED <<created, executor, rebuild, threadVars>>

Proceed(id, i, phase) ==
  /\ Step(id, i, [instance[id][i] EXCEPT !.phase = phase, !.op = "none"])
  /\ UNCHANGED <<serviceVars, documents>>

(* What a future chain of the instance may come to next.                    *)
Ending == {"complete"} \cup IF ExecutorShutDown THEN {} ELSE {"cleanup"}

(* A scheduled instance whose executor is shut down never runs.             *)
RunInstance(id, i) ==
  /\ instance[id][i].phase = "scheduled"
  /\ Proceed(id, i, IF executor[instance[id][i].term] = "open" THEN "running" ELSE "complete")

MakeOpCtx(id, i) ==
  /\ instance[id][i].phase \in {"running", "cleanup"} /\ instance[id][i].op = "none"
  /\ Step(id, i, [instance[id][i] EXCEPT !.op = RegisterOpCtx(FALSE)])
  /\ UNCHANGED <<serviceVars, documents>>

(* An operation ends; one that is interrupted ends the task.                *)
OpEnds(id, i) ==
  /\ instance[id][i].op = "live"
  /\ Proceed(id, i, instance[id][i].phase)

TaskEnds(id, i) ==
  /\ instance[id][i].op # "live"
  /\ \/ /\ instance[id][i].phase = "running"
        /\ \E next \in {"waiting"} \cup Ending : Proceed(id, i, next)
     \/ instance[id][i].phase = "cleanup" /\ Proceed(id, i, "complete")

(* The future is ready: the next task is scheduled, if the executor takes   *)
(* it.                                                                      *)
WaitEnds(id, i) ==
  /\ instance[id][i].phase = "waiting"
  /\ \E next \in Ending \cup IF executor[instance[id][i].term] = "open" THEN {"running"} ELSE {} :
       Proceed(id, i, next)

StoreDocument(id, i) ==
  /\ instance[id][i].phase = "running" /\ instance[id][i].op = "live" /\ instance[id][i].document = "unwritten"
  /\ documents' = documents \cup {id}
  /\ Step(id, i, [instance[id][i] EXCEPT !.document = "stored"])
  /\ UNCHANGED serviceVars

\* mutant: the instance is marked released and stays in the map
ReleaseInstance_Kept(id, objs) ==
  /\ UNCHANGED active
  /\ instance' = IF active[id] = 0 THEN objs ELSE [objs EXCEPT ![id][active[id]].released = "deleted"]

(* releaseInstance, when the delete of a document commits: the object of    *)
(* that id, whichever it is, leaves the map.                                *)
ReleaseInstance(id, objs) ==
  /\ active' = [active EXCEPT ![id] = 0]
  /\ instance' = IF active[id] = 0 THEN objs ELSE [objs EXCEPT ![id][active[id]].released = "deleted"]

DeleteDocument(id, i) ==
  /\ instance[id][i].phase \in {"running", "cleanup"} /\ instance[id][i].op = "live"
  /\ instance[id][i].document = "stored" /\ id \in documents
  /\ documents' = documents \ {id}
  /\ ReleaseInstance(id, [instance EXCEPT ![id][i].document = "deleted"])
  /\ UNCHANGED <<state, term, blocked, created, executor, rebuild, threadVars>>

InstanceStep(id, i) ==
  \/ RunInstance(id, i) \/ MakeOpCtx(id, i) \/ OpEnds(id, i) \/ TaskEnds(id, i) \/ WaitEnds(id, i)
  \/ StoreDocument(id, i) \/ DeleteDocument(id, i)

--------------------
(* getOrCreateInstance; lookupInstance and getAllInstances wait likewise    *)
(* and change nothing.                                                      *)
GetOrCreateInstance(id) ==
  /\ state = "kRunning" /\ active[id] = 0 /\ created < MaxCreated
  /\ InsertNewInstances({id}, "unwritten")
  /\ created' = created + 1
  /\ UNCHANGED <<state, term, blocked, executor, rebuild, documents, threadVars>>

WaitForStateNotRebuilding ==
  /\ state = "kRebuilding" /\ ~blocked
  /\ blocked' = TRUE
  /\ UNCHANGED <<state, term, active, instanceVars, executor, rebuild, documents, threadVars>>

(* The collection is dropped, by a user or by the oplog: releaseAllInstances. *)
DropCollection ==
  /\ state # "kShutdown" /\ stepUp.pc = "idle"
  /\ documents' = {} /\ active' = NoInstances
  /\ instance' = [id \in InstanceID |-> [i \in Made(id) |-> IF i = active[id]
       THEN [instance[id][i] EXCEPT !.released = "dropped", !.interrupted = TRUE]
       ELSE instance[id][i]]]
  /\ UNCHANGED <<state, term, blocked, created, executor, rebuild, threadVars>>

(* While another node is primary its writes arrive, and a rollback may undo *)
(* a write of this node: any document may come or go.  Only an applied      *)
(* delete is seen by the service, whose onDelete releases the instance.     *)
Replicated(id) ==
  /\ state = "kPaused" /\ stepUp.pc = "idle"
  /\ \/ id \notin documents /\ documents' = documents \cup {id} /\ UNCHANGED <<active, instance>>
     \/ id \in documents /\ documents' = documents \ {id} /\ UNCHANGED <<active, instance>>
     \/ id \in documents /\ documents' = documents \ {id} /\ ReleaseInstance(id, instance)
  /\ UNCHANGED <<state, term, blocked, created, executor, rebuild, threadVars>>

StepUpThread == JoinLastTerm \/ LaunchRebuild
ShutdownThread == ShutdownJoins \/ ShutdownExecutor \/ EndShutdown

Next ==
  \/ OnStepUp \/ StepUpThread \/ OnStepDown
  \/ BeginShutdown \/ ShutdownThread
  \/ \E t \in Term : RebuildStep(t)
  \/ \E id \in InstanceID :
       (\E i \in Made(id) : InstanceStep(id, i)) \/ GetOrCreateInstance(id) \/ Replicated(id)
  \/ WaitForStateNotRebuilding \/ DropCollection

Spec == Init /\ [][Next]_vars

(* The executor runs what is scheduled on it; a task ends unless it is in   *)
(* an operation that nobody interrupts; an instance that is told to stop    *)
(* stops waiting; a majority is reached; and the threads in onStepUp and    *)
(* shutdown wake up.  A _rebuildService that is not interrupted may need    *)
(* the RSTL, so nothing is assumed of it while onStepUp holds that; nor is  *)
(* anything of live operations of instances, of clients, or of the node's   *)
(* elections.                                                               *)
RebuildProgress(t) ==
  /\ rebuild[t].at = "service" /\ rebuild[t].op = "live" => stepUp.pc = "idle"
  /\ RebuildStep(t)

InstanceProgress(id, i) ==
  /\ i \in Made(id)
  /\ \/ RunInstance(id, i) \/ TaskEnds(id, i)
     \/ instance[id][i].interrupted /\ WaitEnds(id, i)

FairSpec ==
  /\ Spec
  /\ WF_vars(StepUpThread) /\ WF_vars(ShutdownThread)
  /\ \A t \in Term : WF_vars(RebuildProgress(t))
  /\ \A id \in InstanceID : \A i \in 1 .. MaxCreated + MaxTerm : WF_vars(InstanceProgress(id, i))

--------------------
(* Type correctness; an id leads to an object of that id that is not        *)
(* released.                                                                *)
TypeOK ==
  /\ state \in State /\ term \in 0 .. MaxTerm /\ blocked \in BOOLEAN
  /\ instance \in [InstanceID -> Seq(Instance)] /\ created \in 0 .. MaxCreated
  /\ active \in [InstanceID -> Nat]
  /\ \A id \in InstanceID : active[id] # 0 =>
       active[id] \in Made(id) /\ instance[id][active[id]].released = "no"
  /\ executor \in [Term -> {"none", "open", "shutdown"}]
  /\ rebuild \in [Term -> Rebuild]
  /\ documents \subseteq InstanceID
  /\ stepUp \in [pc : {"idle", "joining", "instances"}, saved : [InstanceID -> Nat]]
  /\ shutdown \in [pc : {"idle", "joining", "instances", "executor", "done"},
                   saved : [InstanceID -> Nat]]
  /\ \A id \in InstanceID : {stepUp.saved[id], shutdown.saved[id]} \subseteq {0} \cup Made(id)

Unfinished(id, i) == instance[id][i].phase # "complete"

Released(id, i) == instance[id][i].released # "no"

(* Two Instance objects of one id are never at work together, whatever the  *)
(* failovers, unless the service has let go of one of them because its      *)
(* document was deleted or dropped.                                         *)
OneInstance ==
  \A id \in InstanceID : \A i, j \in Made(id) :
    i # j /\ Unfinished(id, i) /\ Unfinished(id, j) => Released(id, i) \/ Released(id, j)

(* A running service has an instance for every state document: no task is   *)
(* forgotten by a failover, a rollback or a rebuild that comes too late.    *)
(* Only an instance that stores its document although the collection was    *)
(* dropped under it leaves one behind.                                      *)
EveryDocumentResumed ==
  state = "kRunning" =>
    \A id \in documents :
      \/ active[id] # 0
      \/ \E i \in Made(id) :
           instance[id][i].term = term /\ instance[id][i].released = "dropped"

(* An instance works with an OpCtx that nobody has interrupted only while   *)
(* the service runs, in the term of the instance: after a step down all of  *)
(* them are interrupted, those made later included.  An instance the        *)
(* service has let go of may go on into a later term.                       *)
InterruptedAtStepDown ==
  \A id \in InstanceID : \A i \in Made(id) : instance[id][i].op = "live" =>
    state = "kRunning" /\ (instance[id][i].term = term \/ Released(id, i))

(* A rebuild that passes the check of state and term finds no instance: the *)
(* assertion of _rebuildInstances.                                          *)
RebuildFindsNoInstance ==
  \A t \in Term : rebuild[t].at = "found" /\ ~Stale(t) => active = NoInstances

(* The parent executor is shut down only when the instances have completed, *)
(* their cleanup included; those a concurrent onStepUp waits for are the    *)
(* exception, besides those let go of.                                      *)
CleanupBeforeShutdown ==
  ExecutorShutDown =>
    \A id \in InstanceID : \A i \in Made(id) :
      Unfinished(id, i) => Released(id, i) \/ i = stepUp.saved[id]

(* A rebuild of an earlier term that passed its check before the step down  *)
(* and made its OpCtx after the next step up: it is not interrupted, and    *)
(* waits for the RSTL if it needs that.                                     *)
LateRebuild ==
  \E t \in Term : t < term /\ rebuild[t].at = "service" /\ rebuild[t].op = "live"

(* onStepUp, which holds the RSTL, returns: what it joins has been          *)
(* interrupted.  A late rebuild is the only thing that can stop it.         *)
StepUpReturns == (stepUp.pc # "idle") ~> (stepUp.pc = "idle" \/ LateRebuild)

(* shutdown comes to its end, whatever it meets.                            *)
ShutdownReturns == (shutdown.pc = "joining") ~> (shutdown.pc = "done")

(* _rebuildService has failed in the term that is still being rebuilt.      *)
RebuildServiceFailed ==
  \E t \in Term : ~Stale(t) /\ rebuild[t].at = "serviceFailed"

(* A client that waits for the rebuild gets its answer, unless              *)
(* _rebuildService of the same term has failed, which nobody notices, or a  *)
(* late rebuild stops onStepUp.                                             *)
CallsReturn == blocked ~> (~blocked \/ LateRebuild \/ RebuildServiceFailed)
====================
