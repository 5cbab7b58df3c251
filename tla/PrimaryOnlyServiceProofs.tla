------------ MODULE PrimaryOnlyServiceProofs ------------
(***************************************************************************)
(* Proofs of the safety properties of PrimaryOnlyService, for every set of *)
(* ids, any number of terms and any number of created instances.           *)
(***************************************************************************)
EXTENDS PrimaryOnlyService, SequenceTheorems, TLAPS

(* What is unfinished and not released is held by the service: in its map,  *)
(* by the thread in onStepUp or by the thread in shutdown.                  *)
Held ==
  \A id \in InstanceID : \A i \in Made(id) :
    Unfinished(id, i) /\ ~Released(id, i) =>
      i \in {active[id], stepUp.saved[id], shutdown.saved[id]}

(* Where the two threads can be in each state: at most one of the three     *)
(* holders has an instance of any id.                                       *)
Threads ==
  /\ stepUp.pc # "idle" =>
       /\ state \in {"kRebuilding", "kShutdown"} /\ shutdown.saved = NoInstances
       /\ term > 0 /\ rebuild[term].at = "none"
  /\ stepUp.pc = "idle" => stepUp.saved = NoInstances
  /\ shutdown.pc \notin {"joining", "instances"} => shutdown.saved = NoInstances
  /\ shutdown.pc # "idle" <=> state = "kShutdown"
  /\ state \in {"kRebuilding", "kShutdown"} => active = NoInstances
  /\ \A t \in Term : t > term => rebuild[t].at = "none"
  /\ term = 0 => state \in {"kPaused", "kShutdown"}

(* The instances in the map of a running service are of its term.           *)
OfThisTerm ==
  state = "kRunning" =>
    \A id \in InstanceID : active[id] # 0 => instance[id][active[id]].term = term

(* The inductive invariant.                                                 *)
ServiceInv == TypeOK /\ Held /\ Threads /\ OfThisTerm /\ InterruptedAtStepDown

--------------------
(* A function on 1 .. n is a sequence of length n.                          *)
LEMMA FunctionIsSeq ==
  ASSUME NEW S, NEW n \in Nat, NEW f \in [1 .. n -> S]
  PROVE  f \in Seq(S) /\ Len(f) = n
BY IsASeq

(* What Append yields, element by element.                                  *)
LEMMA AppendSeq ==
  ASSUME NEW S, NEW q \in Seq(S), NEW x \in S
  PROVE  /\ Append(q, x) \in Seq(S) /\ Len(Append(q, x)) = Len(q) + 1
         /\ \A i \in 1 .. Len(q) : Append(q, x)[i] = q[i]
         /\ Append(q, x)[Len(q) + 1] = x
BY AppendProperties

(* The objects of all ids.                                                  *)
Objects == [InstanceID -> Seq(Instance)]

(* An action that rewrites the objects of every id one by one keeps their   *)
(* number, as _interruptInstances and releaseAllInstances do.               *)
LEMMA MapChanges ==
  ASSUME NEW objs \in Objects, NEW new, new = [k \in InstanceID |-> new[k]],
         \A k \in InstanceID : new[k] \in [1 .. Len(objs[k]) -> Instance]
  PROVE  new \in Objects /\ \A k \in InstanceID : Len(new[k]) = Len(objs[k])
<1>1. ASSUME NEW k \in InstanceID
      PROVE  new[k] \in Seq(Instance) /\ Len(new[k]) = Len(objs[k])
  <2>1. objs[k] \in Seq(Instance) BY DEF Objects
  <2>2. Len(objs[k]) \in Nat BY <2>1, LenProperties
  <2> QED BY <2>2, FunctionIsSeq
<1> QED BY <1>1 DEF Objects

(* One object replaced by another.                                          *)
Updated(objs, id, i, x) == [objs EXCEPT ![id][i] = x]

(* An action that rewrites one object leaves all the others alone.          *)
LEMMA StepChanges ==
  ASSUME NEW objs \in Objects, NEW id \in InstanceID, NEW i \in 1 .. Len(objs[id]),
         NEW x \in Instance
  PROVE  /\ Updated(objs, id, i, x) \in Objects
         /\ \A k \in InstanceID : /\ Len(Updated(objs, id, i, x)[k]) = Len(objs[k])
              /\ \A j \in 1 .. Len(objs[k]) : Updated(objs, id, i, x)[k][j] =
                   IF k = id /\ j = i THEN x ELSE objs[k][j]
<1> DEFINE new == Updated(objs, id, i, x)
<1>1. \A k \in InstanceID : objs[k] \in Seq(Instance) BY DEF Objects
<1>2. \A k \in InstanceID : objs[k] \in [1 .. Len(objs[k]) -> Instance]
  BY <1>1, LenProperties
<1>3. new = [k \in InstanceID |-> new[k]] BY DEF Objects, Updated
<1>4. \A k \in InstanceID : new[k] = IF k = id THEN [objs[id] EXCEPT ![i] = x] ELSE objs[k]
  BY DEF Objects, Updated
<1> HIDE DEF new
<1>5. \A k \in InstanceID : new[k] \in [1 .. Len(objs[k]) -> Instance] BY <1>2, <1>4
<1>6. new \in Objects /\ \A k \in InstanceID : Len(new[k]) = Len(objs[k])
  BY <1>3, <1>5, MapChanges
<1>7. \A k \in InstanceID : \A j \in 1 .. Len(objs[k]) :
        new[k][j] = IF k = id /\ j = i THEN x ELSE objs[k][j]
  BY <1>2, <1>4
<1> QED BY <1>6, <1>7 DEF new

--------------------
(* The state after startup is well typed.                                   *)
LEMMA TypeInit == ASSUME ServiceAssumption, Init PROVE TypeOK
<1>1. instance \in [InstanceID -> Seq(Instance)] BY EmptySeq DEF Init
<1>2. /\ state \in State /\ term \in 0 .. MaxTerm
      /\ created \in 0 .. MaxCreated /\ documents \subseteq InstanceID
  BY DEF ServiceAssumption, Init, State
<1>7. blocked \in BOOLEAN BY DEF Init
<1>3. rebuild \in [Term -> Rebuild] BY DEF Init, NoRebuild, Rebuild, OpCtx
<1>4. executor \in [Term -> {"none", "open", "shutdown"}] BY DEF Init
<1>5. NoInstances \in [InstanceID -> Nat] /\ \A id \in InstanceID : NoInstances[id] = 0
  BY DEF NoInstances
<1>6. /\ stepUp \in [pc : {"idle", "joining", "instances"}, saved : [InstanceID -> Nat]]
      /\ shutdown \in [pc : {"idle", "joining", "instances", "executor", "done"},
                       saved : [InstanceID -> Nat]]
      /\ stepUp.saved = NoInstances /\ shutdown.saved = NoInstances /\ active = NoInstances
  BY <1>5 DEF Init
<1> QED BY <1>1, <1>2, <1>3, <1>4, <1>5, <1>6, <1>7 DEF TypeOK

USE DEF Made

(* An OpCtx that is killed is an OpCtx.                                     *)
LEMMA KilledType == ASSUME NEW op \in OpCtx PROVE Killed(op) \in OpCtx
BY DEF OpCtx, Killed

(* An object that is interrupted is still an Instance.                      *)
LEMMA InterruptedObject ==
  ASSUME NEW r \in Instance, NEW op \in OpCtx, NEW b \in BOOLEAN
  PROVE  [r EXCEPT !.op = op, !.interrupted = b] \in Instance
BY DEF Instance

(* _interruptInstances keeps the types, and changes of each object only its *)
(* OpCtx and whether it is interrupted.                                     *)
LEMMA InterruptType ==
  ASSUME TypeOK, InterruptInstances
  PROVE  /\ executor' \in [Term -> {"none", "open", "shutdown"}]
         /\ rebuild' \in [Term -> Rebuild]
         /\ instance' \in Objects
         /\ \A k \in InstanceID : /\ Len(instance'[k]) = Len(instance[k])
              /\ \A j \in Made(k) : instance'[k][j] =
                   [instance[k][j] EXCEPT !.op = Killed(instance[k][j].op),
                                          !.interrupted = instance[k][j].interrupted \/ j = active[k]]
<1>1. instance \in Objects BY DEF TypeOK, Objects
<1>2. \A k \in InstanceID : instance[k] \in Seq(Instance) BY DEF TypeOK
<1>3. \A k \in InstanceID : \A j \in Made(k) : instance[k][j] \in Instance
  BY <1>2, ElementOfSeq
<1>4. \A k \in InstanceID : \A j \in Made(k) : instance'[k][j] =
        [instance[k][j] EXCEPT !.op = Killed(instance[k][j].op),
                               !.interrupted = instance[k][j].interrupted \/ j = active[k]]
  BY DEF InterruptInstances
<1>5. \A k \in InstanceID : \A j \in Made(k) : instance'[k][j] \in Instance
  <2> TAKE k \in InstanceID
  <2> TAKE j \in Made(k)
  <2> DEFINE b == instance[k][j].interrupted \/ j = active[k]
  <2>1. instance[k][j] \in Instance BY <1>3
  <2>2. Killed(instance[k][j].op) \in OpCtx BY <2>1, KilledType DEF Instance
  <2>3. b \in BOOLEAN OBVIOUS
  <2> HIDE DEF b
  <2>4. [instance[k][j] EXCEPT !.op = Killed(instance[k][j].op), !.interrupted = b] \in Instance
    BY <2>1, <2>2, <2>3, InterruptedObject
  <2>5. instance'[k][j] = [instance[k][j] EXCEPT !.op = Killed(instance[k][j].op), !.interrupted = b]
    BY <1>4, Zenon DEF b
  <2> QED BY <2>4, <2>5
<1>6. instance' = [k \in InstanceID |-> instance'[k]] BY DEF InterruptInstances
<1>7. \A k \in InstanceID : instance'[k] \in [1 .. Len(instance[k]) -> Instance]
  BY <1>5 DEF InterruptInstances
<1>8. instance' \in Objects /\ \A k \in InstanceID : Len(instance'[k]) = Len(instance[k])
  BY <1>1, <1>6, <1>7, MapChanges
<1>9. executor' \in [Term -> {"none", "open", "shutdown"}] BY DEF InterruptInstances, TypeOK
<1>10. rebuild' \in [Term -> Rebuild]
  <2>1. ASSUME NEW t \in Term PROVE [rebuild[t] EXCEPT !.op = Killed(rebuild[t].op)] \in Rebuild
    <3>1. rebuild[t] \in Rebuild BY DEF TypeOK
    <3>2. Killed(rebuild[t].op) \in OpCtx BY <3>1, KilledType DEF Rebuild
    <3> QED BY <3>1, <3>2 DEF Rebuild
  <2> QED BY <2>1 DEF InterruptInstances
<1> QED BY <1>4, <1>8, <1>9, <1>10

(* The objects of a well typed state are Instances.                         *)
LEMMA ObjectType ==
  ASSUME TypeOK
  PROVE  /\ instance \in Objects
         /\ \A k \in InstanceID : Len(instance[k]) \in Nat
         /\ \A k \in InstanceID : \A j \in Made(k) : instance[k][j] \in Instance
<1>1. \A k \in InstanceID : instance[k] \in Seq(Instance) BY DEF TypeOK
<1> QED BY <1>1, ElementOfSeq, LenProperties DEF TypeOK, Objects

(* A step of one instance changes that object only.                         *)
LEMMA StepType ==
  ASSUME TypeOK, NEW id \in InstanceID, NEW i \in Made(id), NEW changed \in Instance,
         Step(id, i, changed)
  PROVE  /\ instance' \in Objects
         /\ \A k \in InstanceID : /\ Len(instance'[k]) = Len(instance[k])
              /\ \A j \in Made(k) :
                   instance'[k][j] = IF k = id /\ j = i THEN changed ELSE instance[k][j]
<1>1. instance \in Objects BY ObjectType
<1>2. instance' = Updated(instance, id, i, changed) BY DEF Step, Updated
<1>3. /\ Updated(instance, id, i, changed) \in Objects
      /\ \A k \in InstanceID : /\ Len(Updated(instance, id, i, changed)[k]) = Len(instance[k])
           /\ \A j \in Made(k) : Updated(instance, id, i, changed)[k][j] =
                IF k = id /\ j = i THEN changed ELSE instance[k][j]
  BY <1>1, StepChanges
<1> QED BY <1>2, <1>3

(* releaseInstance takes one object out of the map and marks it released.   *)
LEMMA ReleaseType ==
  ASSUME TypeOK, NEW objs \in Objects, \A k \in InstanceID : Len(objs[k]) = Len(instance[k]),
         NEW id \in InstanceID, ReleaseInstance(id, objs)
  PROVE  /\ instance' \in Objects
         /\ active' = [active EXCEPT ![id] = 0]
         /\ \A k \in InstanceID : /\ Len(instance'[k]) = Len(instance[k])
              /\ \A j \in Made(k) : instance'[k][j] =
                   IF k = id /\ j = active[id] THEN [objs[k][j] EXCEPT !.released = "deleted"]
                                               ELSE objs[k][j]
<1>1. CASE active[id] = 0 BY <1>1 DEF ReleaseInstance
<1>2. CASE active[id] # 0
  <2> DEFINE a == active[id]
             x == [objs[id][a] EXCEPT !.released = "deleted"]
  <2>1. a \in 1 .. Len(objs[id]) BY <1>2 DEF TypeOK
  <2>2. objs[id] \in Seq(Instance) BY DEF Objects
  <2>3. objs[id][a] \in Instance BY <2>1, <2>2, ElementOfSeq
  <2>4. x \in Instance BY <2>3 DEF Instance
  <2>5. instance' = Updated(objs, id, a, x) BY <1>2 DEF ReleaseInstance, Updated
  <2> HIDE DEF a, x
  <2>6. /\ instance' \in Objects
        /\ \A k \in InstanceID : /\ Len(instance'[k]) = Len(objs[k])
             /\ \A j \in 1 .. Len(objs[k]) :
                  instance'[k][j] = IF k = id /\ j = a THEN x ELSE objs[k][j]
    <3>1. /\ Updated(objs, id, a, x) \in Objects
          /\ \A k \in InstanceID : /\ Len(Updated(objs, id, a, x)[k]) = Len(objs[k])
               /\ \A j \in 1 .. Len(objs[k]) : Updated(objs, id, a, x)[k][j] =
                    IF k = id /\ j = a THEN x ELSE objs[k][j]
      BY <2>1, <2>4, StepChanges
    <3> QED BY <2>5, <3>1
  <2>7. active' = [active EXCEPT ![id] = 0] BY DEF ReleaseInstance
  <2> QED BY <2>6, <2>7 DEF a, x
<1> QED BY <1>1, <1>2

(* releaseAllInstances marks the objects in the map released and            *)
(* interrupted, and no others.                                              *)
LEMMA DropType ==
  ASSUME TypeOK, DropCollection
  PROVE  /\ instance' \in Objects
         /\ \A k \in InstanceID : /\ Len(instance'[k]) = Len(instance[k])
              /\ \A j \in Made(k) : instance'[k][j] = IF j = active[k]
                   THEN [instance[k][j] EXCEPT !.released = "dropped", !.interrupted = TRUE]
                   ELSE instance[k][j]
<1>1. \A k \in InstanceID : \A j \in Made(k) : instance'[k][j] = IF j = active[k]
        THEN [instance[k][j] EXCEPT !.released = "dropped", !.interrupted = TRUE]
        ELSE instance[k][j]
  BY DEF DropCollection
<1>2. \A k \in InstanceID : \A j \in Made(k) : instance'[k][j] \in Instance
  <2> TAKE k \in InstanceID
  <2> TAKE j \in Made(k)
  <2>1. instance[k][j] \in Instance BY ObjectType
  <2>2. [instance[k][j] EXCEPT !.released = "dropped", !.interrupted = TRUE] \in Instance
    BY <2>1 DEF Instance
  <2> QED BY <1>1, <2>1, <2>2
<1>3. instance' = [k \in InstanceID |-> instance'[k]] BY DEF DropCollection
<1>4. \A k \in InstanceID : instance'[k] \in [1 .. Len(instance[k]) -> Instance]
  BY <1>2 DEF DropCollection
<1>5. instance' \in Objects /\ \A k \in InstanceID : Len(instance'[k]) = Len(instance[k])
  BY <1>3, <1>4, ObjectType, MapChanges
<1> QED BY <1>1, <1>5

(* _insertNewInstance adds one object for each id, which the map then leads *)
(* to, and leaves the others alone.                                         *)
LEMMA InsertType ==
  ASSUME TypeOK, term \in Term, NEW ids \in SUBSET InstanceID,
         NEW document \in {"unwritten", "stored", "deleted"}, InsertNewInstances(ids, document)
  PROVE  /\ instance' \in Objects
         /\ active' \in [InstanceID -> Nat]
         /\ \A k \in InstanceID : \A j \in Made(k) : instance'[k][j] = instance[k][j]
         /\ \A k \in ids :
              /\ active'[k] = Len(instance[k]) + 1
              /\ Len(instance'[k]) = Len(instance[k]) + 1
              /\ instance'[k][Len(instance[k]) + 1] = NewInstance(document)
         /\ \A k \in InstanceID \ ids :
              /\ active'[k] = active[k]
              /\ instance'[k] = instance[k]
<1>1. NewInstance(document) \in Instance BY DEF NewInstance, Instance, OpCtx
<1>2. \A k \in InstanceID : instance[k] \in Seq(Instance) BY DEF TypeOK
<1>3. ASSUME NEW k \in ids
      PROVE  /\ instance'[k] = Append(instance[k], NewInstance(document))
             /\ instance'[k] \in Seq(Instance)
             /\ active'[k] = Len(instance[k]) + 1
             /\ Len(instance'[k]) = Len(instance[k]) + 1
             /\ instance'[k][Len(instance[k]) + 1] = NewInstance(document)
             /\ \A j \in Made(k) : instance'[k][j] = instance[k][j]
  <2>1. instance'[k] = Append(instance[k], NewInstance(document))
    BY DEF InsertNewInstances
  <2>2. active'[k] = Len(instance[k]) + 1 BY DEF InsertNewInstances
  <2>3. instance[k] \in Seq(Instance) BY <1>2
  <2> QED BY <1>1, <2>1, <2>2, <2>3, AppendSeq
<1>4. ASSUME NEW k \in InstanceID \ ids
      PROVE  instance'[k] = instance[k] /\ active'[k] = active[k]
  BY DEF InsertNewInstances
<1>5. instance' \in Objects
  <2>1. instance' = [k \in InstanceID |-> instance'[k]] BY DEF InsertNewInstances
  <2>2. \A k \in InstanceID : instance'[k] \in Seq(Instance) BY <1>2, <1>3, <1>4
  <2> QED BY <2>1, <2>2 DEF Objects
<1>6. active' \in [InstanceID -> Nat]
  <2>1. active' = [k \in InstanceID |-> active'[k]] BY DEF InsertNewInstances
  <2>2. ASSUME NEW k \in InstanceID PROVE active'[k] \in Nat
    <3>1. Len(instance[k]) \in Nat BY ObjectType
    <3>2. active[k] \in Nat BY DEF TypeOK
    <3> QED BY <1>3, <1>4, <3>1, <3>2
  <2> QED BY <2>1, <2>2
<1> QED BY <1>3, <1>4, <1>5, <1>6

--------------------
(* What any step does to an object that exists: its term stays, it is not   *)
(* taken back once released, a completed one stays completed, and it gets a *)
(* live operation only from a running service.                              *)
Evolves(k, j) ==
  /\ instance'[k][j].term = instance[k][j].term
  /\ instance[k][j].released # "no" => instance'[k][j].released # "no"
  /\ instance[k][j].phase = "complete" => instance'[k][j].phase = "complete"
  /\ instance'[k][j].op = "live" =>
       \/ instance[k][j].op = "live"
       \/ state = "kRunning" /\ instance[k][j].phase # "complete"

(* The phases of an instance.                                               *)
Phase == {"scheduled", "running", "waiting", "cleanup", "complete"}

(* A step from one task of an instance to the next only moves that object   *)
(* on, and a completed one stays completed.                                 *)
LEMMA ProceedEffect ==
  ASSUME TypeOK, NEW id \in InstanceID, NEW i \in Made(id), NEW phase \in Phase,
         instance[id][i].phase = "complete" => phase = "complete",
         Proceed(id, i, phase)
  PROVE  /\ UNCHANGED <<serviceVars, created, executor, rebuild, threadVars, documents>>
         /\ instance' \in Objects
         /\ \A k \in InstanceID : /\ Len(instance'[k]) = Len(instance[k])
              /\ \A j \in Made(k) : Evolves(k, j) /\ instance'[k][j].released = instance[k][j].released
<1> DEFINE x == [instance[id][i] EXCEPT !.phase = phase, !.op = "none"]
<1>1. instance[id][i] \in Instance BY ObjectType
<1>2. x \in Instance BY <1>1 DEF Instance, Phase, OpCtx
<1>3. /\ x.term = instance[id][i].term /\ x.released = instance[id][i].released
      /\ x.phase = phase /\ x.op = "none"
  BY <1>1 DEF Instance
<1>4. Step(id, i, x) BY DEF Proceed
<1> HIDE DEF x
<1>5. /\ instance' \in Objects
      /\ \A k \in InstanceID : /\ Len(instance'[k]) = Len(instance[k])
           /\ \A j \in Made(k) : instance'[k][j] = IF k = id /\ j = i THEN x ELSE instance[k][j]
  BY <1>2, <1>4, StepType
<1>6. UNCHANGED <<serviceVars, created, executor, rebuild, threadVars, documents>>
  BY <1>4 DEF Proceed, Step
<1> QED BY <1>3, <1>5, <1>6 DEF Evolves

(* No step of an instance changes the state of the service, and an object   *)
(* leaves the map exactly when it is released.                              *)
LEMMA InstanceStepEffect ==
  ASSUME TypeOK, NEW id \in InstanceID, NEW i \in Made(id), InstanceStep(id, i)
  PROVE  /\ UNCHANGED <<state, term, blocked, created, executor, rebuild, threadVars>>
         /\ documents' \subseteq InstanceID
         /\ instance' \in Objects
         /\ \A k \in InstanceID : /\ Len(instance'[k]) = Len(instance[k])
              /\ \A j \in Made(k) :
                   /\ Evolves(k, j)
                   /\ instance'[k][j].released # instance[k][j].released =>
                        j = active[k] /\ active'[k] = 0
         /\ active' \in [InstanceID -> Nat]
         /\ \A k \in InstanceID : active'[k] # active[k] =>
              active'[k] = 0 /\ instance'[k][active[k]].released # "no"
<1> DEFINE Goal ==
      /\ UNCHANGED <<serviceVars, created, executor, rebuild, threadVars>>
      /\ documents' \subseteq InstanceID
      /\ instance' \in Objects
      /\ \A k \in InstanceID : /\ Len(instance'[k]) = Len(instance[k])
           /\ \A j \in Made(k) :
                Evolves(k, j) /\ instance'[k][j].released = instance[k][j].released
<1>1. instance[id][i] \in Instance BY ObjectType
<1>2. documents \subseteq InstanceID BY DEF TypeOK
<1>3. active \in [InstanceID -> Nat] BY DEF TypeOK
<1>4. ASSUME NEW phase \in Phase, instance[id][i].phase = "complete" => phase = "complete",
             Proceed(id, i, phase)
      PROVE  Goal
  BY <1>2, <1>4, ProceedEffect
<1>5. Ending \subseteq Phase BY DEF Ending, Phase
<1>6. ASSUME RunInstance(id, i) PROVE Goal
  BY <1>4, <1>6 DEF RunInstance, Phase
<1>7. ASSUME OpEnds(id, i) PROVE Goal
  BY <1>1, <1>4, <1>7 DEF OpEnds, Phase, Instance
<1>8. ASSUME TaskEnds(id, i) PROVE Goal
  <2>1. CASE instance[id][i].phase = "running" /\ \E next \in {"waiting"} \cup Ending : Proceed(id, i, next)
    <3>1. PICK next \in {"waiting"} \cup Ending : Proceed(id, i, next) BY <2>1
    <3>2. next \in Phase BY <1>5 DEF Phase
    <3> QED BY <1>4, <2>1, <3>1, <3>2
  <2>2. CASE instance[id][i].phase = "cleanup" /\ Proceed(id, i, "complete")
    BY <1>4, <2>2 DEF Phase
  <2> QED BY <1>8, <2>1, <2>2 DEF TaskEnds
<1>9. ASSUME WaitEnds(id, i) PROVE Goal
  <2>1. PICK next \in Ending \cup (IF executor[instance[id][i].term] = "open" THEN {"running"} ELSE {}) :
          Proceed(id, i, next)
    BY <1>9 DEF WaitEnds
  <2>2. next \in Phase BY <1>5 DEF Phase
  <2>3. instance[id][i].phase = "waiting" BY <1>9 DEF WaitEnds
  <2> QED BY <1>4, <2>1, <2>2, <2>3
<1>10. ASSUME MakeOpCtx(id, i) PROVE Goal
  <2> DEFINE x == [instance[id][i] EXCEPT !.op = RegisterOpCtx(FALSE)]
  <2>1. RegisterOpCtx(FALSE) \in OpCtx /\ (RegisterOpCtx(FALSE) = "live" => state = "kRunning")
    BY DEF RegisterOpCtx, OpCtx
  <2>2. /\ x \in Instance /\ x.op = RegisterOpCtx(FALSE)
        /\ x.term = instance[id][i].term /\ x.released = instance[id][i].released
        /\ x.phase = instance[id][i].phase
    BY <1>1, <2>1 DEF Instance
  <2>3. Step(id, i, x) BY <1>10 DEF MakeOpCtx
  <2> HIDE DEF x
  <2>4. /\ instance' \in Objects
        /\ \A k \in InstanceID : /\ Len(instance'[k]) = Len(instance[k])
             /\ \A j \in Made(k) : instance'[k][j] = IF k = id /\ j = i THEN x ELSE instance[k][j]
    BY <2>2, <2>3, StepType
  <2>5. UNCHANGED <<serviceVars, created, executor, rebuild, threadVars, documents>>
    BY <1>10, <2>3 DEF MakeOpCtx, Step
  <2>6. instance[id][i].phase # "complete" BY <1>10 DEF MakeOpCtx
  <2> QED BY <1>2, <2>1, <2>2, <2>4, <2>5, <2>6 DEF Evolves
<1>11. ASSUME StoreDocument(id, i) PROVE Goal
  <2> DEFINE x == [instance[id][i] EXCEPT !.document = "stored"]
  <2>1. /\ x \in Instance /\ x.op = instance[id][i].op
        /\ x.term = instance[id][i].term /\ x.released = instance[id][i].released
        /\ x.phase = instance[id][i].phase
    BY <1>1 DEF Instance
  <2>2. Step(id, i, x) BY <1>11 DEF StoreDocument
  <2> HIDE DEF x
  <2>3. /\ instance' \in Objects
        /\ \A k \in InstanceID : /\ Len(instance'[k]) = Len(instance[k])
             /\ \A j \in Made(k) : instance'[k][j] = IF k = id /\ j = i THEN x ELSE instance[k][j]
    BY <2>1, <2>2, StepType
  <2>4. UNCHANGED <<serviceVars, created, executor, rebuild, threadVars>>
    BY <1>11, <2>2 DEF StoreDocument, Step
  <2>5. documents' \subseteq InstanceID BY <1>2, <1>11 DEF StoreDocument
  <2> QED BY <2>1, <2>3, <2>4, <2>5 DEF Evolves
<1>12. CASE DeleteDocument(id, i)
  <2> DEFINE x == [instance[id][i] EXCEPT !.document = "deleted"]
             objs == Updated(instance, id, i, x)
  <2>1. /\ x \in Instance /\ x.op = instance[id][i].op
        /\ x.term = instance[id][i].term /\ x.released = instance[id][i].released
        /\ x.phase = instance[id][i].phase
    BY <1>1 DEF Instance
  <2>2. ReleaseInstance(id, objs) BY <1>12 DEF DeleteDocument, Updated
  <2> HIDE DEF x
  <2>3. /\ objs \in Objects
        /\ \A k \in InstanceID : /\ Len(objs[k]) = Len(instance[k])
             /\ \A j \in Made(k) : objs[k][j] = IF k = id /\ j = i THEN x ELSE instance[k][j]
    BY <2>1, ObjectType, StepChanges
  <2> HIDE DEF objs
  <2>4. /\ instance' \in Objects
        /\ active' = [active EXCEPT ![id] = 0]
        /\ \A k \in InstanceID : /\ Len(instance'[k]) = Len(instance[k])
             /\ \A j \in Made(k) : instance'[k][j] =
                  IF k = id /\ j = active[id] THEN [objs[k][j] EXCEPT !.released = "deleted"]
                                              ELSE objs[k][j]
    BY <2>2, <2>3, ReleaseType
  <2>5. UNCHANGED <<state, term, blocked, created, executor, rebuild, threadVars>>
    BY <1>12 DEF DeleteDocument
  <2>6. documents' \subseteq InstanceID BY <1>2, <1>12 DEF DeleteDocument
  <2>7. active' \in [InstanceID -> Nat] /\ \A k \in InstanceID : active'[k] = IF k = id THEN 0 ELSE active[k]
    BY <1>3, <2>4
  <2>8. \A k \in InstanceID : \A j \in Made(k) :
          /\ objs[k][j] \in Instance
          /\ objs[k][j].term = instance[k][j].term /\ objs[k][j].op = instance[k][j].op
          /\ objs[k][j].phase = instance[k][j].phase /\ objs[k][j].released = instance[k][j].released
    BY <2>1, <2>3, ObjectType
  <2>9. \A k \in InstanceID : \A j \in Made(k) :
          /\ instance'[k][j].term = instance[k][j].term /\ instance'[k][j].op = instance[k][j].op
          /\ instance'[k][j].phase = instance[k][j].phase
          /\ instance'[k][j].released = IF k = id /\ j = active[id] THEN "deleted" ELSE instance[k][j].released
    <3> TAKE k \in InstanceID
    <3> TAKE j \in Made(k)
    <3> DEFINE o == objs[k][j]
    <3>1. o \in Instance BY <2>8
    <3>2. /\ [o EXCEPT !.released = "deleted"].term = o.term
          /\ [o EXCEPT !.released = "deleted"].op = o.op
          /\ [o EXCEPT !.released = "deleted"].phase = o.phase
          /\ [o EXCEPT !.released = "deleted"].released = "deleted"
      BY <3>1 DEF Instance
    <3>3. CASE k = id /\ j = active[id]
      <4>1. instance'[k][j] = [o EXCEPT !.released = "deleted"] BY <2>4, <3>3
      <4> QED BY <2>8, <3>2, <3>3, <4>1
    <3>4. CASE ~(k = id /\ j = active[id])
      <4>1. instance'[k][j] = o BY <2>4, <3>4
      <4> QED BY <2>8, <3>4, <4>1
    <3> QED BY <3>3, <3>4
  <2>10. active[id] # 0 => active[id] \in Made(id) BY DEF TypeOK
  <2>11. \A k \in InstanceID : \A j \in Made(k) :
           /\ Evolves(k, j)
           /\ instance'[k][j].released # instance[k][j].released => j = active[k] /\ active'[k] = 0
    BY <2>7, <2>9 DEF Evolves
  <2>12. \A k \in InstanceID : active'[k] # active[k] =>
           active'[k] = 0 /\ instance'[k][active[k]].released # "no"
    BY <2>7, <2>9, <2>10
  <2> QED BY <2>4, <2>5, <2>6, <2>7, <2>11, <2>12
<1>13. CASE Goal BY <1>3, <1>13 DEF serviceVars
<1> HIDE DEF Goal
<1> QED BY <1>6, <1>7, <1>8, <1>9, <1>10, <1>11, <1>12, <1>13 DEF InstanceStep

--------------------
(* A map without instances leads nowhere.                                   *)
LEMMA NoneActive ==
  /\ NoInstances \in [InstanceID -> Nat]
  /\ \A k \in InstanceID : NoInstances[k] = 0
BY DEF NoInstances

(* While neither onStepUp nor shutdown can be at work, whatever is          *)
(* unfinished and not released is in the map.                               *)
LEMMA RunningAlone ==
  ASSUME ServiceInv, state \notin {"kRebuilding", "kShutdown"}
  PROVE  /\ stepUp.pc = "idle" /\ stepUp.saved = NoInstances
         /\ shutdown.saved = NoInstances
         /\ \A k \in InstanceID : \A j \in Made(k) :
              Unfinished(k, j) /\ ~Released(k, j) => j = active[k]
<1>1. stepUp.pc = "idle" /\ shutdown.pc = "idle" BY DEF ServiceInv, Threads
<1>2. stepUp.saved = NoInstances /\ shutdown.saved = NoInstances
  BY <1>1 DEF ServiceInv, Threads
<1>3. \A k \in InstanceID : Len(instance[k]) \in Nat BY ObjectType DEF ServiceInv
<1> QED BY <1>1, <1>2, <1>3, NoneActive DEF ServiceInv, Held

(* A step that touches the rebuilds and the waiting clients only keeps the  *)
(* invariant, if it keeps what is said of the threads.                      *)
LEMMA SameObjectsKeep ==
  ASSUME ServiceInv, instance' = instance, active' = active, UNCHANGED <<state, term, documents, created, executor>>,
         blocked' \in BOOLEAN, rebuild' \in [Term -> Rebuild], UNCHANGED threadVars,
         Threads'
  PROVE  ServiceInv'
<1> USE DEF threadVars
<1>1. TypeOK' BY DEF ServiceInv, TypeOK
<1>2. Held' BY DEF ServiceInv, Held, Unfinished, Released
<1>3. OfThisTerm' BY DEF ServiceInv, OfThisTerm
<1>4. InterruptedAtStepDown' BY DEF ServiceInv, InterruptedAtStepDown, Released
<1> QED BY <1>1, <1>2, <1>3, <1>4 DEF ServiceInv

(* A step of the chain of a rebuild keeps the invariant: it has been        *)
(* launched, so onStepUp of its term has returned.                          *)
LEMMA ChainKeeps ==
  ASSUME ServiceInv, NEW t \in Term, rebuild[t].at # "none",
         NEW step \in Rebuild, Chain(t, step),
         UNCHANGED <<state, term, active>>, blocked' \in BOOLEAN
  PROVE  ServiceInv'
<1>1. rebuild \in [Term -> Rebuild] /\ term \in 0 .. MaxTerm BY DEF ServiceInv, TypeOK
<1>2. rebuild' = [rebuild EXCEPT ![t] = step] BY DEF Chain
<1>3. \A u \in Term : u # t => rebuild'[u] = rebuild[u] BY <1>1, <1>2
<1>4. rebuild' \in [Term -> Rebuild] BY <1>1, <1>2
<1>5. UNCHANGED <<instance, created, executor, documents, threadVars>> BY DEF Chain, instanceVars
<1>6. Threads'
  <2>1. stepUp.pc # "idle" => term \in Term /\ term # t BY <1>1 DEF ServiceInv, Threads, Term
  <2>2. ~ (t > term) BY DEF ServiceInv, Threads
  <2>3. stepUp.pc # "idle" => rebuild'[term].at = "none" BY <1>3, <2>1 DEF ServiceInv, Threads
  <2>4. \A u \in Term : u > term => rebuild'[u].at = "none" BY <1>3, <2>2 DEF ServiceInv, Threads
  <2> QED BY <1>5, <2>3, <2>4 DEF ServiceInv, Threads, threadVars
<1> QED BY <1>4, <1>5, <1>6, SameObjectsKeep

(* The steps of a rebuild are well typed.                                   *)
LEMMA RebuildStepType ==
  /\ RebuildDone \in Rebuild /\ RebuildDone.at = "done"
  /\ \A at \in {"instances", "serviceFailed"} : [NoRebuild EXCEPT !.at = at] \in Rebuild
  /\ \A r \in Rebuild : [r EXCEPT !.at = "service"] \in Rebuild /\ [r EXCEPT !.at = "query"] \in Rebuild
  /\ \A r \in Rebuild : \A b \in BOOLEAN : [r EXCEPT !.op = RegisterOpCtx(b)] \in Rebuild
  /\ \A ids \in SUBSET InstanceID : [at |-> "found", op |-> "none", ids |-> ids] \in Rebuild
<1>1. RegisterOpCtx(TRUE) \in OpCtx /\ RegisterOpCtx(FALSE) \in OpCtx BY DEF RegisterOpCtx, OpCtx
<1>2. \A b \in BOOLEAN : RegisterOpCtx(b) \in OpCtx BY DEF RegisterOpCtx, OpCtx
<1>3. \A r \in Rebuild : \A b \in BOOLEAN : [r EXCEPT !.op = RegisterOpCtx(b)] \in Rebuild
  BY <1>2 DEF Rebuild
<1>4. RebuildDone \in Rebuild /\ RebuildDone.at = "done" BY DEF RebuildDone, NoRebuild, Rebuild, OpCtx
<1>5. \A at \in {"instances", "serviceFailed"} : [NoRebuild EXCEPT !.at = at] \in Rebuild
  BY DEF NoRebuild, Rebuild, OpCtx
<1> QED BY <1>3, <1>4, <1>5 DEF Rebuild, OpCtx

--------------------
(* Every step of a rebuild but the last keeps the invariant.                *)
LEMMA RebuildKeeps ==
  ASSUME ServiceInv, NEW t \in Term, RebuildStep(t), ~RebuildInstances(t)
  PROVE  ServiceInv'
<1>1. rebuild[t] \in Rebuild /\ documents \subseteq InstanceID /\ blocked \in BOOLEAN
  BY DEF ServiceInv, TypeOK
<1>2. ASSUME NEW step \in Rebuild, rebuild[t].at # "none", Chain(t, step), UNCHANGED serviceVars
      PROVE  ServiceInv'
  BY <1>1, <1>2, ChainKeeps DEF serviceVars
<1>3. CASE MajorityReached(t)
  <2> DEFINE step == IF executor[t] = "shutdown" \/ Stale(t) THEN RebuildDone
                     ELSE [rebuild[t] EXCEPT !.at = "service"]
  <2>1. step \in Rebuild BY <1>1, RebuildStepType
  <2>2. Chain(t, step) /\ UNCHANGED serviceVars /\ rebuild[t].at # "none" BY <1>3 DEF MajorityReached
  <2> HIDE DEF step
  <2> QED BY <1>2, <2>1, <2>2
<1>4. CASE RebuildOpCtx(t)
  <2> DEFINE step == [rebuild[t] EXCEPT !.op = RegisterOpCtx(TRUE)]
  <2>1. step \in Rebuild BY <1>1, RebuildStepType
  <2>2. Chain(t, step) /\ UNCHANGED serviceVars /\ rebuild[t].at # "none" BY <1>4 DEF RebuildOpCtx
  <2> HIDE DEF step
  <2> QED BY <1>2, <2>1, <2>2
<1>5. CASE RebuildServiceEnds(t)
  <2>1. UNCHANGED serviceVars /\ rebuild[t].at # "none" BY <1>5 DEF RebuildServiceEnds
  <2>2. PICK at \in {"instances", "serviceFailed"} :
          \/ Chain(t, IF executor[t] = "shutdown" THEN RebuildDone ELSE [NoRebuild EXCEPT !.at = at])
          \/ Chain(t, [NoRebuild EXCEPT !.at = at])
    BY <1>5 DEF RebuildServiceEnds
  <2>3. PICK step \in {RebuildDone, [NoRebuild EXCEPT !.at = at]} : Chain(t, step) BY <2>2
  <2>4. step \in Rebuild BY <2>3, RebuildStepType
  <2> QED BY <1>2, <2>1, <2>3, <2>4
<1>6. CASE BeginRebuildInstances(t)
  <2> DEFINE step == IF Stale(t) THEN RebuildDone ELSE [rebuild[t] EXCEPT !.at = "query"]
  <2>1. step \in Rebuild BY <1>1, RebuildStepType
  <2>2. Chain(t, step) /\ UNCHANGED serviceVars /\ rebuild[t].at # "none" BY <1>6 DEF BeginRebuildInstances
  <2> HIDE DEF step
  <2> QED BY <1>2, <2>1, <2>2
<1>7. CASE FindDocuments(t)
  <2> DEFINE step == [at |-> "found", op |-> "none", ids |-> documents]
  <2>1. step \in Rebuild BY <1>1, RebuildStepType
  <2>2. Chain(t, step) /\ UNCHANGED serviceVars /\ rebuild[t].at # "none" BY <1>7 DEF FindDocuments
  <2> HIDE DEF step
  <2> QED BY <1>2, <2>1, <2>2
<1>8. CASE FindFails(t)
  <2>1. RebuildDone \in Rebuild /\ rebuild[t].at # "none" /\ Chain(t, RebuildDone)
    BY <1>8, RebuildStepType DEF FindFails
  <2>2. UNCHANGED <<term, active>> BY <1>8 DEF FindFails
  <2>3. CASE Stale(t)
    <3>1. UNCHANGED state /\ blocked' \in BOOLEAN BY <1>8, <2>3 DEF FindFails, NotifyAll
    <3> QED BY <2>1, <2>2, <3>1, ChainKeeps
  <2>4. CASE ~Stale(t)
    <3>1. state = "kRebuilding" /\ term = t BY <2>4 DEF Stale
    <3>2. state' = "kRebuildFailed" BY <1>8, <2>4 DEF FindFails, SetState
    <3>3. blocked' \in BOOLEAN
      <4>1. SetState("kRebuildFailed") BY <1>8, <2>4 DEF FindFails
      <4>2. blocked' = (blocked /\ state' = "kRebuilding") BY <3>1, <4>1 DEF SetState, NotifyAll
      <4> QED BY <4>2
    <3>4. /\ rebuild' = [rebuild EXCEPT ![t] = RebuildDone]
          /\ UNCHANGED <<instance, created, executor, documents, stepUp, shutdown>>
      BY <2>1 DEF Chain, instanceVars, threadVars
    <3>5. rebuild \in [Term -> Rebuild] BY DEF ServiceInv, TypeOK
    <3>6. rebuild' \in [Term -> Rebuild] /\ \A u \in Term : u # t => rebuild'[u] = rebuild[u]
      BY <2>1, <3>4, <3>5
    <3>7. stepUp.pc = "idle" /\ shutdown.pc = "idle" /\ term > 0
      BY <2>1, <3>1 DEF ServiceInv, Threads, Term
    <3>8. TypeOK' BY <2>2, <3>2, <3>3, <3>4, <3>6 DEF ServiceInv, TypeOK, State
    <3>9. Held' BY <2>2, <3>4 DEF ServiceInv, Held, Unfinished, Released
    <3>10. Threads'
      <4>1. \A u \in Term : u > term => rebuild'[u].at = "none" 
        BY <3>1, <3>6 DEF ServiceInv, Threads, Term
      <4> QED BY <2>2, <3>1, <3>2, <3>4, <3>7, <4>1 DEF ServiceInv, Threads
    <3>11. OfThisTerm' BY <3>2 DEF OfThisTerm
    <3>12. InterruptedAtStepDown' BY <3>1, <3>4 DEF ServiceInv, InterruptedAtStepDown
    <3> QED BY <3>8, <3>9, <3>10, <3>11, <3>12 DEF ServiceInv
  <2> QED BY <2>3, <2>4
<1> QED BY <1>3, <1>4, <1>5, <1>6, <1>7, <1>8 DEF RebuildStep

(* onStepUp keeps the invariant: what was in the map is now held by its     *)
(* thread, which held nothing.                                              *)
LEMMA StepUpKeeps ==
  ASSUME ServiceAssumption, ServiceInv, OnStepUp
  PROVE  ServiceInv'
<1>1. /\ state = "kPaused" /\ state' = "kRebuilding" /\ term < MaxTerm /\ term' = term + 1
      /\ executor' = [executor EXCEPT ![term + 1] = "open"]
      /\ stepUp' = [pc |-> "joining", saved |-> active] /\ active' = NoInstances
      /\ UNCHANGED <<instance, created, rebuild, documents, shutdown>>
  BY DEF OnStepUp, SetState, instanceVars
<1>2. term \in 0 .. MaxTerm /\ MaxTerm \in Nat BY DEF ServiceInv, TypeOK, ServiceAssumption
<1>3. term' \in Term BY <1>1, <1>2 DEF Term
<1>4. stepUp'.pc = "joining" /\ stepUp'.saved = active BY <1>1
<1>5. shutdown.pc = "idle" /\ shutdown.saved = NoInstances BY <1>1 DEF ServiceInv, Threads
<1>6. TypeOK'
  <2>1. active \in [InstanceID -> Nat] /\ \A id \in InstanceID : active[id] # 0 => active[id] \in Made(id)
    BY DEF ServiceInv, TypeOK
  <2>2. stepUp' \in [pc : {"idle", "joining", "instances"}, saved : [InstanceID -> Nat]] BY <1>1, <2>1
  <2>3. blocked' \in BOOLEAN
    <3>1. SetState("kRebuilding") BY DEF OnStepUp
    <3>2. blocked' = (blocked /\ state' = "kRebuilding") BY <1>1, <3>1 DEF SetState, NotifyAll
    <3> QED BY <3>2
  <2>4. executor' \in [Term -> {"none", "open", "shutdown"}] BY <1>1 DEF ServiceInv, TypeOK
  <2>5. term' \in 0 .. MaxTerm /\ state' \in State BY <1>1, <1>3 DEF Term, State
  <2>6. active' \in [InstanceID -> Nat] /\ \A id \in InstanceID : active'[id] = 0 BY <1>1, NoneActive
  <2>7. \A id \in InstanceID : {active[id], shutdown.saved[id]} \subseteq {0} \cup Made(id)
    BY <2>1 DEF ServiceInv, TypeOK
  <2> QED BY <1>1, <1>4, <2>2, <2>3, <2>4, <2>5, <2>6, <2>7 DEF ServiceInv, TypeOK
<1>7. Held' BY <1>1, <1>4, RunningAlone DEF Held, Unfinished, Released
<1>8. Threads'
  <2>1. rebuild[term + 1].at = "none" BY <1>1, <1>2, <1>3 DEF ServiceInv, Threads
  <2>2. \A u \in Term : u > term + 1 => rebuild[u].at = "none" BY <1>2 DEF ServiceInv, Threads, Term
  <2> QED BY <1>1, <1>2, <1>4, <1>5, <2>1, <2>2 DEF ServiceInv, Threads
<1>9. OfThisTerm' BY <1>1 DEF OfThisTerm
<1>10. InterruptedAtStepDown' BY <1>1 DEF ServiceInv, InterruptedAtStepDown
<1> QED BY <1>6, <1>7, <1>8, <1>9, <1>10 DEF ServiceInv

(* The waits of onStepUp keep the invariant: what its thread lets go of has *)
(* completed.                                                               *)
LEMMA StepUpThreadKeeps ==
  ASSUME ServiceAssumption, ServiceInv, StepUpThread
  PROVE  ServiceInv'
<1>1. UNCHANGED <<state, term, active, blocked, instance, created, executor, documents, shutdown>>
  BY DEF StepUpThread, JoinLastTerm, LaunchRebuild, serviceVars, instanceVars
<1>2. /\ term \in 0 .. MaxTerm /\ blocked \in BOOLEAN /\ rebuild \in [Term -> Rebuild]
      /\ stepUp \in [pc : {"idle", "joining", "instances"}, saved : [InstanceID -> Nat]]
  BY DEF ServiceInv, TypeOK
<1>3. stepUp.pc # "idle" BY DEF StepUpThread, JoinLastTerm, LaunchRebuild
<1>4. term \in Term BY <1>2, <1>3 DEF ServiceInv, Threads, Term
<1>5. OfThisTerm' /\ InterruptedAtStepDown'
  BY <1>1 DEF ServiceInv, OfThisTerm, InterruptedAtStepDown, Released
<1>6. CASE JoinLastTerm
  <2>1. stepUp'.pc = "instances" /\ stepUp'.saved = stepUp.saved /\ UNCHANGED rebuild
    BY <1>2, <1>6 DEF JoinLastTerm
  <2>2. stepUp' \in [pc : {"idle", "joining", "instances"}, saved : [InstanceID -> Nat]]
    BY <1>2, <1>6 DEF JoinLastTerm
  <2>3. TypeOK' BY <1>1, <2>1, <2>2 DEF ServiceInv, TypeOK
  <2>4. Held' BY <1>1, <2>1 DEF ServiceInv, Held, Unfinished, Released
  <2>5. Threads' BY <1>1, <1>3, <2>1 DEF ServiceInv, Threads
  <2> QED BY <1>5, <2>3, <2>4, <2>5 DEF ServiceInv
<1>7. CASE LaunchRebuild
  <2>1. /\ stepUp' = [pc |-> "idle", saved |-> NoInstances]
        /\ rebuild' = [rebuild EXCEPT ![term].at = "majority"] /\ Completed(stepUp.saved)
    BY <1>7 DEF LaunchRebuild
  <2>2. stepUp'.pc = "idle" /\ stepUp'.saved = NoInstances BY <2>1
  <2>3. stepUp' \in [pc : {"idle", "joining", "instances"}, saved : [InstanceID -> Nat]]
    BY <2>1, NoneActive
  <2>4. [rebuild[term] EXCEPT !.at = "majority"] \in Rebuild BY <1>2, <1>4 DEF Rebuild
  <2>5. rebuild' \in [Term -> Rebuild] /\ \A u \in Term : u # term => rebuild'[u] = rebuild[u]
    BY <1>2, <1>4, <2>1, <2>4
  <2>6. TypeOK' BY <1>1, <2>2, <2>3, <2>5, NoneActive DEF ServiceInv, TypeOK
  <2>7. Held'
    <3> SUFFICES ASSUME NEW id \in InstanceID, NEW i \in Made(id), Unfinished(id, i), ~Released(id, i)
                 PROVE  i \in {active[id], NoInstances[id], shutdown.saved[id]}
      BY <1>1, <2>2 DEF Held, Unfinished, Released
    <3>1. i \in {active[id], stepUp.saved[id], shutdown.saved[id]} BY DEF ServiceInv, Held
    <3>2. i # stepUp.saved[id] BY <2>1 DEF Completed, Unfinished
    <3> QED BY <3>1, <3>2
  <2>8. Threads'
    <3>1. \A u \in Term : u > term => rebuild'[u].at = "none" 
      BY <1>2, <2>5 DEF ServiceInv, Threads, Term
    <3> QED BY <1>1, <2>2, <3>1 DEF ServiceInv, Threads
  <2> QED BY <1>5, <2>6, <2>7, <2>8 DEF ServiceInv
<1> QED BY <1>6, <1>7 DEF StepUpThread

(* The waits of shutdown keep the invariant: what its thread lets go of has *)
(* completed.                                                               *)
LEMMA ShutdownThreadKeeps ==
  ASSUME ServiceInv, ShutdownThread
  PROVE  ServiceInv'
<1>1. UNCHANGED <<state, term, active, blocked, instance, created, executor, documents, rebuild, stepUp>>
  BY DEF ShutdownThread, ShutdownJoins, ShutdownExecutor, EndShutdown, serviceVars, instanceVars
<1>2. shutdown \in [pc : {"idle", "joining", "instances", "executor", "done"}, saved : [InstanceID -> Nat]]
  BY DEF ServiceInv, TypeOK
<1>3. shutdown.pc # "idle" /\ shutdown'.pc # "idle"
  BY <1>2 DEF ShutdownThread, ShutdownJoins, ShutdownExecutor, EndShutdown
<1>4. shutdown' \in [pc : {"idle", "joining", "instances", "executor", "done"}, saved : [InstanceID -> Nat]]
  BY <1>2, NoneActive DEF ShutdownThread, ShutdownJoins, ShutdownExecutor, EndShutdown
<1>5. \/ shutdown'.saved = shutdown.saved
      \/ Completed(shutdown.saved) /\ shutdown'.saved = NoInstances
  BY <1>2 DEF ShutdownThread, ShutdownJoins, ShutdownExecutor, EndShutdown
<1>6. shutdown'.pc \in {"joining", "instances"} \/ shutdown'.saved = NoInstances
  BY <1>2 DEF ServiceInv, Threads, ShutdownThread, ShutdownJoins, ShutdownExecutor, EndShutdown
<1>7. TypeOK'
  <2>1. \A id \in InstanceID : {stepUp.saved[id], shutdown'.saved[id]} \subseteq {0} \cup Made(id)
    BY <1>5, NoneActive DEF ServiceInv, TypeOK
  <2> QED BY <1>1, <1>4, <2>1 DEF ServiceInv, TypeOK
<1>8. Held'
  <2> SUFFICES ASSUME NEW id \in InstanceID, NEW i \in Made(id), Unfinished(id, i), ~Released(id, i)
               PROVE  i \in {active[id], stepUp.saved[id], shutdown'.saved[id]}
    BY <1>1 DEF Held, Unfinished, Released
  <2>1. i \in {active[id], stepUp.saved[id], shutdown.saved[id]} BY DEF ServiceInv, Held
  <2>2. Completed(shutdown.saved) => i # shutdown.saved[id] BY DEF Completed, Unfinished
  <2> QED BY <1>5, <2>1, <2>2
<1>9. Threads'
  <2>1. stepUp.pc # "idle" => shutdown'.saved = NoInstances BY <1>5 DEF ServiceInv, Threads
  <2> QED BY <1>1, <1>3, <1>6, <2>1 DEF ServiceInv, Threads
<1>10. OfThisTerm' /\ InterruptedAtStepDown'
  BY <1>1 DEF ServiceInv, OfThisTerm, InterruptedAtStepDown, Released
<1> QED BY <1>7, <1>8, <1>9, <1>10 DEF ServiceInv

--------------------
(* _interruptInstances leaves no OpCtx live and changes neither the tasks   *)
(* nor what is released.                                                    *)
LEMMA InterruptEffect ==
  ASSUME TypeOK, InterruptInstances
  PROVE  /\ \A k \in InstanceID : \A j \in Made(k) :
              /\ instance'[k][j].op # "live"
              /\ instance'[k][j].phase = instance[k][j].phase
              /\ instance'[k][j].released = instance[k][j].released
         /\ \A t \in Term : rebuild'[t].at = rebuild[t].at
<1>1. ASSUME NEW k \in InstanceID, NEW j \in Made(k)
      PROVE  /\ instance'[k][j].op # "live"
             /\ instance'[k][j].phase = instance[k][j].phase
             /\ instance'[k][j].released = instance[k][j].released
  <2> DEFINE r == instance[k][j]
             b == r.interrupted \/ j = active[k]
             op == Killed(r.op)
  <2>1. r \in Instance BY ObjectType
  <2>2. op # "live" BY DEF Killed
  <2>3. instance'[k][j] = [r EXCEPT !.op = op, !.interrupted = b] BY InterruptType, Zenon
  <2> HIDE DEF b, op
  <2> QED BY <2>1, <2>2, <2>3 DEF Instance
<1>2. ASSUME NEW t \in Term PROVE rebuild'[t].at = rebuild[t].at
  <2>1. rebuild[t] \in Rebuild BY DEF TypeOK
  <2>2. rebuild'[t] = [rebuild[t] EXCEPT !.op = Killed(rebuild[t].op)] BY DEF InterruptInstances
  <2> QED BY <2>1, <2>2 DEF Rebuild
<1> QED BY <1>1, <1>2

(* _setState sets the state and wakes the clients or leaves them.           *)
LEMMA SetStateType ==
  ASSUME blocked \in BOOLEAN, NEW s, SetState(s)
  PROVE  state' = s /\ blocked' \in BOOLEAN
<1>1. CASE state # s
  <2>1. blocked' = (blocked /\ state' = "kRebuilding") BY <1>1 DEF SetState, NotifyAll
  <2> QED BY <2>1 DEF SetState
<1>2. CASE state = s BY <1>2 DEF SetState
<1> QED BY <1>1, <1>2

(* onStepDown keeps the invariant: no operation is live in a paused         *)
(* service.                                                                 *)
LEMMA StepDownKeeps ==
  ASSUME ServiceInv, OnStepDown
  PROVE  ServiceInv'
<1> DEFINE Same == \A k \in InstanceID : Len(instance'[k]) = Len(instance[k])
<1>1. TypeOK BY DEF ServiceInv
<1>2. InterruptInstances /\ SetState("kPaused") BY DEF OnStepDown
<1>3. UNCHANGED <<term, active, created, documents, stepUp, shutdown>> BY DEF OnStepDown, threadVars
<1>4. state' = "kPaused" /\ blocked' \in BOOLEAN BY <1>1, <1>2, SetStateType DEF TypeOK
<1>5. /\ executor' \in [Term -> {"none", "open", "shutdown"}]
      /\ rebuild' \in [Term -> Rebuild] /\ instance' \in Objects /\ Same
  BY <1>1, <1>2, InterruptType
<1>6. /\ \A k \in InstanceID : \A j \in Made(k) :
           /\ instance'[k][j].op # "live"
           /\ instance'[k][j].phase = instance[k][j].phase
           /\ instance'[k][j].released = instance[k][j].released
      /\ \A t \in Term : rebuild'[t].at = rebuild[t].at
  BY <1>1, <1>2, InterruptEffect
<1>7. TypeOK' BY <1>3, <1>4, <1>5, <1>6 DEF ServiceInv, TypeOK, State, Objects
<1>8. Held' BY <1>3, <1>5, <1>6 DEF ServiceInv, Held, Unfinished, Released
<1>9. Threads'
  <2>1. stepUp.pc = "idle" /\ state # "kShutdown" BY DEF OnStepDown
  <2> QED BY <1>3, <1>4, <1>6, <2>1 DEF ServiceInv, Threads
<1>10. OfThisTerm' BY <1>4 DEF OfThisTerm
<1>11. InterruptedAtStepDown' BY <1>5, <1>6 DEF InterruptedAtStepDown
<1> QED BY <1>7, <1>8, <1>9, <1>10, <1>11 DEF ServiceInv

(* shutdown keeps the invariant, also when it meets a step up that is       *)
(* joining: then the map is empty.                                          *)
LEMMA BeginShutdownKeeps ==
  ASSUME ServiceInv, BeginShutdown
  PROVE  ServiceInv'
<1>1. TypeOK BY DEF ServiceInv
<1>2. /\ state' = "kShutdown" /\ blocked' \in BOOLEAN /\ shutdown.pc = "idle"
      /\ shutdown' = [pc |-> "joining", saved |-> active] /\ active' = NoInstances
      /\ UNCHANGED <<term, created, documents, stepUp>>
  BY <1>1, SetStateType DEF TypeOK, BeginShutdown
<1>3. /\ executor' \in [Term -> {"none", "open", "shutdown"}]
      /\ rebuild' \in [Term -> Rebuild] /\ instance' \in Objects
      /\ \A k \in InstanceID : Len(instance'[k]) = Len(instance[k])
      /\ \A k \in InstanceID : \A j \in Made(k) :
           /\ instance'[k][j].op # "live"
           /\ instance'[k][j].phase = instance[k][j].phase
           /\ instance'[k][j].released = instance[k][j].released
      /\ \A t \in Term : rebuild'[t].at = rebuild[t].at
  <2>1. CASE state # "kPaused"
    <3>1. InterruptInstances BY <2>1 DEF BeginShutdown
    <3> QED BY <1>1, <3>1, InterruptType, InterruptEffect
  <2>2. CASE state = "kPaused"
    <3>1. UNCHANGED <<executor, instance, rebuild>> BY <2>2 DEF BeginShutdown
    <3>2. \A k \in InstanceID : \A j \in Made(k) : instance[k][j].op # "live"
      BY <2>2 DEF ServiceInv, InterruptedAtStepDown
    <3> QED BY <3>1, <3>2 DEF ServiceInv, TypeOK, Objects
  <2> QED BY <2>1, <2>2
<1>4. shutdown'.pc = "joining" /\ shutdown'.saved = active BY <1>2
<1>5. state # "kShutdown" /\ shutdown.saved = NoInstances BY <1>2 DEF ServiceInv, Threads
<1>6. TypeOK'
  <2>1. shutdown' \in [pc : {"idle", "joining", "instances", "executor", "done"}, saved : [InstanceID -> Nat]]
    BY <1>1, <1>2 DEF TypeOK
  <2>2. \A id \in InstanceID : {stepUp.saved[id], active[id]} \subseteq {0} \cup Made(id) BY DEF ServiceInv, TypeOK
  <2>3. active' \in [InstanceID -> Nat] /\ \A id \in InstanceID : active'[id] = 0 BY <1>2, NoneActive
  <2> QED BY <1>2, <1>3, <1>4, <2>1, <2>2, <2>3 DEF ServiceInv, TypeOK, State, Objects
<1>7. Held'
  <2>1. \A id \in InstanceID : shutdown.saved[id] = 0 BY <1>5, NoneActive
  <2>2. \A id \in InstanceID : Len(instance[id]) \in Nat BY <1>1, ObjectType
  <2> QED BY <1>2, <1>3, <1>4, <2>1, <2>2 DEF ServiceInv, Held, Unfinished, Released
<1>8. Threads'
  <2>1. stepUp.pc # "idle" => active = NoInstances BY <1>5 DEF ServiceInv, Threads
  <2>2. term \in 0 .. MaxTerm BY <1>1 DEF TypeOK
  <2>3. stepUp.pc # "idle" => term > 0 /\ rebuild'[term].at = "none"
    BY <1>3, <2>2 DEF ServiceInv, Threads, Term
  <2>4. \A t \in Term : t > term => rebuild'[t].at = "none" BY <1>3 DEF ServiceInv, Threads
  <2> QED BY <1>2, <1>4, <2>1, <2>3, <2>4 DEF ServiceInv, Threads
<1>9. OfThisTerm' BY <1>2 DEF OfThisTerm
<1>10. InterruptedAtStepDown' BY <1>3 DEF InterruptedAtStepDown
<1> QED BY <1>6, <1>7, <1>8, <1>9, <1>10 DEF ServiceInv

(* Steps that change objects but neither the state nor the threads keep the *)
(* invariant: a live OpCtx is made by a running service only, for an        *)
(* instance of its term or one it has let go of.                            *)
LEMMA WorkKeeps ==
  ASSUME ServiceInv,
         UNCHANGED <<state, term, blocked, created, executor, rebuild, stepUp, shutdown>>,
         documents' \subseteq InstanceID, instance' \in Objects,
         \A k \in InstanceID : Len(instance'[k]) = Len(instance[k]),
         \A k \in InstanceID : \A j \in Made(k) :
           /\ Evolves(k, j)
           /\ instance'[k][j].released # instance[k][j].released => j = active[k] /\ active'[k] = 0,
         active' \in [InstanceID -> Nat],
         \A k \in InstanceID : active'[k] # active[k] =>
           active'[k] = 0 /\ instance'[k][active[k]].released # "no"
  PROVE  ServiceInv'
<1>1. TypeOK BY DEF ServiceInv
<1>2. \A k \in InstanceID : Len(instance[k]) \in Nat BY <1>1, ObjectType
<1>3. TypeOK'
  <2>1. ASSUME NEW id \in InstanceID, active'[id] # 0
        PROVE  active'[id] \in Made(id)' /\ instance'[id][active'[id]].released = "no"
    <3>1. active'[id] = active[id] BY <2>1
    <3>2. active[id] \in Made(id) /\ instance[id][active[id]].released = "no" BY <1>1, <2>1, <3>1 DEF TypeOK
    <3> QED BY <2>1, <3>1, <3>2
  <2> QED BY <1>1, <2>1 DEF TypeOK, Objects
<1>4. Held'
  <2> SUFFICES ASSUME NEW id \in InstanceID, NEW i \in Made(id), Unfinished(id, i)', ~Released(id, i)'
               PROVE  i \in {active'[id], stepUp.saved[id], shutdown.saved[id]}
    BY DEF Held
  <2>1. Unfinished(id, i) /\ ~Released(id, i) BY DEF Evolves, Unfinished, Released
  <2>2. i \in {active[id], stepUp.saved[id], shutdown.saved[id]} BY <2>1 DEF ServiceInv, Held
  <2>3. i = active[id] => active'[id] = active[id] BY DEF Released
  <2> QED BY <2>2, <2>3
<1>5. Threads'
  <2>1. active = NoInstances => active' = NoInstances
    <3> HAVE active = NoInstances
    <3>1. \A k \in InstanceID : active'[k] = 0 BY NoneActive
    <3> QED BY <3>1 DEF NoInstances
  <2> QED BY <2>1 DEF ServiceInv, Threads
<1>6. OfThisTerm'
  <2> SUFFICES ASSUME state = "kRunning", NEW id \in InstanceID, active'[id] # 0
               PROVE  instance'[id][active'[id]].term = term
    BY DEF OfThisTerm
  <2>1. active'[id] = active[id] /\ active[id] \in Made(id) BY <1>1 DEF TypeOK
  <2> QED BY <2>1 DEF ServiceInv, OfThisTerm, Evolves
<1>7. InterruptedAtStepDown'
  <2> SUFFICES ASSUME NEW id \in InstanceID, NEW i \in Made(id), instance'[id][i].op = "live"
               PROVE  state = "kRunning" /\ (instance'[id][i].term = term \/ Released(id, i)')
    BY DEF InterruptedAtStepDown
  <2>1. state = "kRunning" BY DEF ServiceInv, InterruptedAtStepDown, Evolves
  <2>2. instance[id][i].term = term \/ Released(id, i)
    <3>1. CASE instance[id][i].op = "live" BY <3>1 DEF ServiceInv, InterruptedAtStepDown
    <3>2. CASE instance[id][i].op # "live"
      <4>1. Unfinished(id, i) BY <3>2 DEF Evolves, Unfinished
      <4>2. Released(id, i) \/ i = active[id] BY <2>1, <4>1, RunningAlone
      <4>3. i # 0 BY <1>2
      <4> QED BY <2>1, <4>2, <4>3 DEF ServiceInv, OfThisTerm
    <3> QED BY <3>1, <3>2
  <2> QED BY <2>1, <2>2 DEF Evolves, Released
<1> QED BY <1>3, <1>4, <1>5, <1>6, <1>7 DEF ServiceInv

(* Every step of an instance keeps the invariant.                           *)
LEMMA InstanceStepKeeps ==
  ASSUME ServiceInv, NEW id \in InstanceID, NEW i \in Made(id), InstanceStep(id, i)
  PROVE  ServiceInv'
BY InstanceStepEffect, WorkKeeps DEF ServiceInv, threadVars

(* A drop of the collection keeps the invariant.                            *)
LEMMA DropKeeps ==
  ASSUME ServiceInv, DropCollection
  PROVE  ServiceInv'
<1>1. TypeOK BY DEF ServiceInv
<1>2. /\ UNCHANGED <<state, term, blocked, created, executor, rebuild, stepUp, shutdown>>
      /\ documents' = {} /\ active' = NoInstances
  BY DEF DropCollection, threadVars
<1>3. /\ instance' \in Objects
      /\ \A k \in InstanceID : /\ Len(instance'[k]) = Len(instance[k])
           /\ \A j \in Made(k) : instance'[k][j] = IF j = active[k]
                THEN [instance[k][j] EXCEPT !.released = "dropped", !.interrupted = TRUE]
                ELSE instance[k][j]
  BY <1>1, DropType
<1>4. \A k \in InstanceID : \A j \in Made(k) :
        /\ instance'[k][j].term = instance[k][j].term /\ instance'[k][j].op = instance[k][j].op
        /\ instance'[k][j].phase = instance[k][j].phase
        /\ instance'[k][j].released = IF j = active[k] THEN "dropped" ELSE instance[k][j].released
  <2> TAKE k \in InstanceID
  <2> TAKE j \in Made(k)
  <2> DEFINE o == instance[k][j]
             n == [o EXCEPT !.released = "dropped", !.interrupted = TRUE]
  <2>1. o \in Instance BY <1>1, ObjectType
  <2>2. n.term = o.term /\ n.op = o.op /\ n.phase = o.phase /\ n.released = "dropped"
    BY <2>1 DEF Instance
  <2>3. instance'[k][j] = IF j = active[k] THEN n ELSE o BY <1>3
  <2> HIDE DEF n, o
  <2> QED BY <2>2, <2>3 DEF o
<1>5. \A k \in InstanceID : \A j \in Made(k) :
        /\ Evolves(k, j)
        /\ instance'[k][j].released # instance[k][j].released => j = active[k] /\ active'[k] = 0
  BY <1>2, <1>4, NoneActive DEF Evolves
<1>6. \A k \in InstanceID : active'[k] # active[k] =>
        active'[k] = 0 /\ instance'[k][active[k]].released # "no"
  BY <1>1, <1>2, <1>4, NoneActive DEF TypeOK
<1>7. active' \in [InstanceID -> Nat] BY <1>2, NoneActive
<1> QED BY <1>2, <1>3, <1>5, <1>6, <1>7, WorkKeeps

(* A write that arrives from another node keeps the invariant.              *)
LEMMA ReplicatedKeeps ==
  ASSUME ServiceInv, NEW id \in InstanceID, Replicated(id)
  PROVE  ServiceInv'
<1>1. TypeOK BY DEF ServiceInv
<1>2. UNCHANGED <<state, term, blocked, created, executor, rebuild, stepUp, shutdown>>
  BY DEF Replicated, threadVars
<1>3. documents' \subseteq InstanceID BY <1>1 DEF TypeOK, Replicated
<1>4. CASE UNCHANGED <<active, instance>>
  <2>1. \A k \in InstanceID : \A j \in Made(k) : Evolves(k, j) BY <1>4 DEF Evolves
  <2> QED BY <1>1, <1>2, <1>3, <1>4, <2>1, WorkKeeps, ObjectType DEF TypeOK
<1>5. CASE ReleaseInstance(id, instance)
  <2>1. /\ instance' \in Objects
        /\ active' = [active EXCEPT ![id] = 0]
        /\ \A k \in InstanceID : /\ Len(instance'[k]) = Len(instance[k])
             /\ \A j \in Made(k) : instance'[k][j] =
                  IF k = id /\ j = active[id] THEN [instance[k][j] EXCEPT !.released = "deleted"]
                                              ELSE instance[k][j]
    BY <1>1, <1>5, ReleaseType, ObjectType
  <2>2. active' \in [InstanceID -> Nat] /\ \A k \in InstanceID : active'[k] = IF k = id THEN 0 ELSE active[k]
    BY <1>1, <2>1 DEF TypeOK
  <2>3. \A k \in InstanceID : \A j \in Made(k) :
          /\ instance'[k][j].term = instance[k][j].term /\ instance'[k][j].op = instance[k][j].op
          /\ instance'[k][j].phase = instance[k][j].phase
          /\ instance'[k][j].released = IF k = id /\ j = active[id] THEN "deleted" ELSE instance[k][j].released
    <3> TAKE k \in InstanceID
    <3> TAKE j \in Made(k)
    <3> DEFINE o == instance[k][j]
               n == [o EXCEPT !.released = "deleted"]
    <3>1. o \in Instance BY <1>1, ObjectType
    <3>2. n.term = o.term /\ n.op = o.op /\ n.phase = o.phase /\ n.released = "deleted"
      BY <3>1 DEF Instance
    <3>3. instance'[k][j] = IF k = id /\ j = active[id] THEN n ELSE o BY <2>1
    <3> HIDE DEF n, o
    <3> QED BY <3>2, <3>3 DEF o
  <2>4. \A k \in InstanceID : \A j \in Made(k) :
          /\ Evolves(k, j)
          /\ instance'[k][j].released # instance[k][j].released => j = active[k] /\ active'[k] = 0
    BY <2>2, <2>3 DEF Evolves
  <2>5. \A k \in InstanceID : active'[k] # active[k] =>
          active'[k] = 0 /\ instance'[k][active[k]].released # "no"
    BY <1>1, <2>2, <2>3 DEF TypeOK
  <2> QED BY <1>2, <1>3, <2>1, <2>2, <2>4, <2>5, WorkKeeps
<1> QED BY <1>4, <1>5 DEF Replicated

(* New instances of ids that have none, in a service that runs or comes to  *)
(* run, keep the invariant if onStepUp is not at work.                      *)
LEMMA InsertKeeps ==
  ASSUME ServiceInv, term \in Term, NEW ids \in SUBSET InstanceID,
         NEW document \in {"unwritten", "stored", "deleted"},
         InsertNewInstances(ids, document),
         state \in {"kRebuilding", "kRunning"}, stepUp.pc = "idle",
         \A k \in ids : active[k] = 0,
         state' = "kRunning", blocked' \in BOOLEAN, created' \in 0 .. MaxCreated,
         UNCHANGED <<term, executor, documents, stepUp, shutdown>>,
         rebuild' \in [Term -> Rebuild],
         \A t \in Term : t > term => rebuild'[t].at = rebuild[t].at
  PROVE  ServiceInv'
<1> DEFINE n == NewInstance(document)
<1>1. TypeOK BY DEF ServiceInv
<1>2. n.term = term /\ n.op = "none" /\ n.released = "no" BY DEF NewInstance
<1>3. /\ instance' \in Objects
      /\ active' \in [InstanceID -> Nat]
      /\ \A k \in InstanceID : \A j \in Made(k) : instance'[k][j] = instance[k][j]
      /\ \A k \in ids :
           /\ active'[k] = Len(instance[k]) + 1
           /\ Len(instance'[k]) = Len(instance[k]) + 1
           /\ instance'[k][Len(instance[k]) + 1] = n
      /\ \A k \in InstanceID \ ids : active'[k] = active[k] /\ instance'[k] = instance[k]
  BY <1>1, InsertType
<1> HIDE DEF n
<1>4. \A k \in InstanceID : Len(instance[k]) \in Nat BY <1>1, ObjectType
<1>5. \A k \in InstanceID : \A j \in Made(k)' : j \in Made(k) \/ (k \in ids /\ j = active'[k] /\ instance'[k][j] = n)
  <2> TAKE k \in InstanceID
  <2>1. CASE k \in ids BY <1>3, <1>4, <2>1
  <2>2. CASE k \notin ids BY <1>3, <2>2
  <2> QED BY <2>1, <2>2
<1>6. shutdown.pc = "idle" /\ stepUp.saved = NoInstances /\ shutdown.saved = NoInstances
  BY DEF ServiceInv, Threads
<1>7. TypeOK'
  <2>1. ASSUME NEW k \in InstanceID, active'[k] # 0
        PROVE  active'[k] \in Made(k)' /\ instance'[k][active'[k]].released = "no"
    <3>1. CASE k \in ids BY <1>2, <1>3, <1>4, <3>1
    <3>2. CASE k \notin ids BY <1>1, <1>3, <2>1, <3>2 DEF TypeOK
    <3> QED BY <3>1, <3>2
  <2>2. \A k \in InstanceID : {stepUp.saved[k], shutdown.saved[k]} \subseteq {0} BY <1>6, NoneActive
  <2> QED BY <1>1, <1>3, <2>1, <2>2 DEF TypeOK, State, Objects
<1>8. Held'
  <2> SUFFICES ASSUME NEW k \in InstanceID, NEW j \in Made(k)', Unfinished(k, j)', ~Released(k, j)'
               PROVE  j = active'[k]
    BY DEF Held
  <2>1. CASE j \in Made(k)
    <3>1. Unfinished(k, j) /\ ~Released(k, j) BY <1>3, <2>1 DEF Unfinished, Released
    <3>2. j \in {active[k], 0} BY <1>6, <2>1, <3>1, NoneActive DEF ServiceInv, Held
    <3>3. j = active[k] /\ j # 0 BY <1>4, <2>1, <3>2
    <3> QED BY <1>3, <3>3
  <2> QED BY <1>5, <2>1
<1>9. Threads' BY <1>6 DEF ServiceInv, Threads, Term
<1>10. OfThisTerm'
  <2> SUFFICES ASSUME NEW k \in InstanceID, active'[k] # 0
               PROVE  instance'[k][active'[k]].term = term
    BY DEF OfThisTerm
  <2>1. CASE k \in ids BY <1>2, <1>3, <2>1
  <2>2. CASE k \notin ids
    <3>1. active'[k] = active[k] /\ instance'[k] = instance[k] BY <1>3, <2>2
    <3>2. state = "kRunning" BY <3>1, NoneActive DEF ServiceInv, Threads
    <3> QED BY <3>1, <3>2 DEF ServiceInv, OfThisTerm
  <2> QED BY <2>1, <2>2
<1>11. InterruptedAtStepDown'
  <2> SUFFICES ASSUME NEW k \in InstanceID, NEW j \in Made(k)', instance'[k][j].op = "live"
               PROVE  instance'[k][j].term = term \/ Released(k, j)'
    BY DEF InterruptedAtStepDown
  <2>1. j \in Made(k) /\ instance'[k][j] = instance[k][j] BY <1>2, <1>3, <1>5
  <2> QED BY <2>1 DEF ServiceInv, InterruptedAtStepDown, Released
<1> QED BY <1>7, <1>8, <1>9, <1>10, <1>11 DEF ServiceInv

(* The end of _rebuildInstances keeps the invariant: if it is not stale the *)
(* map is empty, and each id gets its first instance of the term.           *)
LEMMA RebuildInstancesKeeps ==
  ASSUME ServiceInv, NEW t \in Term, RebuildInstances(t)
  PROVE  ServiceInv'
<1>1. TypeOK BY DEF ServiceInv
<1>2. /\ rebuild[t] \in Rebuild /\ rebuild \in [Term -> Rebuild]
      /\ blocked \in BOOLEAN /\ created \in 0 .. MaxCreated
  BY <1>1 DEF TypeOK
<1>3. /\ rebuild[t].at = "found" /\ rebuild' = [rebuild EXCEPT ![t] = RebuildDone]
      /\ UNCHANGED <<term, created, executor, documents, stepUp, shutdown>>
  BY DEF RebuildInstances, threadVars
<1>4. CASE Stale(t)
  <2>1. UNCHANGED <<state, active, instance>> /\ NotifyAll BY <1>4 DEF RebuildInstances
  <2>2. blocked' \in BOOLEAN BY <2>1 DEF NotifyAll
  <2>3. Chain(t, RebuildDone) BY <1>3, <2>1 DEF Chain, instanceVars, threadVars
  <2>4. RebuildDone \in Rebuild /\ rebuild[t].at # "none" BY <1>3, RebuildStepType
  <2>5. UNCHANGED <<state, term, active>> BY <1>3, <2>1
  <2> QED BY <2>2, <2>3, <2>4, <2>5, ChainKeeps
<1>5. CASE ~Stale(t)
  <2>1. state = "kRebuilding" /\ term = t BY <1>5 DEF Stale
  <2>2. SetState("kRunning") /\ InsertNewInstances(rebuild[t].ids, "stored")
    BY <1>5 DEF RebuildInstances
  <2>3. state' = "kRunning" /\ blocked' \in BOOLEAN BY <1>2, <2>2, SetStateType
  <2>4. stepUp.pc = "idle" /\ active = NoInstances BY <1>3, <2>1 DEF ServiceInv, Threads
  <2>5. rebuild[t].ids \in SUBSET InstanceID BY <1>2 DEF Rebuild
  <2>6. \A k \in rebuild[t].ids : active[k] = 0 BY <2>4, <2>5, NoneActive
  <2>7. rebuild' \in [Term -> Rebuild] BY <1>2, <1>3, RebuildStepType
  <2>8. \A u \in Term : u > term => rebuild'[u].at = rebuild[u].at BY <1>2, <1>3, <2>1 DEF Term
  <2> QED BY <1>2, <1>3, <2>1, <2>2, <2>3, <2>4, <2>5, <2>6, <2>7, <2>8, InsertKeeps
<1> QED BY <1>4, <1>5

(* getOrCreateInstance keeps the invariant.                                 *)
LEMMA GetOrCreateKeeps ==
  ASSUME ServiceAssumption, ServiceInv, NEW id \in InstanceID, GetOrCreateInstance(id)
  PROVE  ServiceInv'
<1>1. TypeOK BY DEF ServiceInv
<1>2. /\ state = "kRunning" /\ active[id] = 0 /\ created < MaxCreated
      /\ InsertNewInstances({id}, "unwritten") /\ created' = created + 1
      /\ UNCHANGED <<state, term, blocked, executor, rebuild, documents, stepUp, shutdown>>
  BY DEF GetOrCreateInstance, threadVars
<1>3. created' \in 0 .. MaxCreated BY <1>1, <1>2 DEF TypeOK, ServiceAssumption
<1>4. term \in Term BY <1>1, <1>2 DEF ServiceInv, TypeOK, Threads, Term
<1>5. stepUp.pc = "idle" BY <1>2 DEF ServiceInv, Threads
<1>6. blocked' \in BOOLEAN /\ rebuild' \in [Term -> Rebuild] BY <1>1, <1>2 DEF TypeOK
<1>7. {id} \in SUBSET InstanceID /\ \A k \in {id} : active[k] = 0 BY <1>2
<1> QED BY <1>2, <1>3, <1>4, <1>5, <1>6, <1>7, InsertKeeps

(* A client that starts to wait changes nothing else.                       *)
LEMMA WaitKeeps ==
  ASSUME ServiceInv, UNCHANGED vars \/ WaitForStateNotRebuilding
  PROVE  ServiceInv'
<1>1. /\ UNCHANGED <<state, term, active, instance, created, executor, rebuild, documents, threadVars>>
      /\ blocked' \in BOOLEAN
  BY DEF ServiceInv, TypeOK, vars, serviceVars, instanceVars, WaitForStateNotRebuilding
<1>2. Threads' /\ rebuild' \in [Term -> Rebuild] BY <1>1 DEF ServiceInv, TypeOK, Threads, threadVars
<1> QED BY <1>1, <1>2, SameObjectsKeep

--------------------
(* The invariant holds after startup.                                       *)
LEMMA InvariantInit == ASSUME ServiceAssumption, Init PROVE ServiceInv
<1>1. TypeOK BY TypeInit
<1>2. /\ \A id \in InstanceID : instance[id] = <<>>
      /\ active = NoInstances /\ state = "kPaused" /\ term = 0
      /\ stepUp.pc = "idle" /\ stepUp.saved = NoInstances
      /\ shutdown.pc = "idle" /\ shutdown.saved = NoInstances
      /\ \A t \in Term : rebuild[t].at = "none"
  BY DEF Init, NoRebuild
<1>3. \A id \in InstanceID : Made(id) = {}
  <2> TAKE id \in InstanceID
  <2>1. Len(instance[id]) = 0 BY <1>2
  <2> QED BY <2>1
<1>4. Held BY <1>3 DEF Held
<1>5. Threads BY <1>2 DEF Threads
<1>6. OfThisTerm BY <1>2 DEF OfThisTerm
<1>7. InterruptedAtStepDown BY <1>3 DEF InterruptedAtStepDown
<1> QED BY <1>1, <1>4, <1>5, <1>6, <1>7 DEF ServiceInv

(* ServiceInv is an invariant of the service, whatever the number of ids,   *)
(* terms and instances: the union of the steps of step up, step down,       *)
(* shutdown, rebuild, instances and clients keeps it.                       *)
THEOREM Invariant == Spec => []ServiceInv
<1>1. Init => ServiceInv BY ServiceAssumption, InvariantInit
<1>2. ServiceInv /\ [Next]_vars => ServiceInv'
  <2> SUFFICES ASSUME ServiceInv, [Next]_vars PROVE ServiceInv' OBVIOUS
  <2> USE ServiceAssumption
  <2>1. CASE OnStepUp BY <2>1, StepUpKeeps
  <2>2. CASE StepUpThread BY <2>2, StepUpThreadKeeps
  <2>3. CASE OnStepDown BY <2>3, StepDownKeeps
  <2>4. CASE BeginShutdown BY <2>4, BeginShutdownKeeps
  <2>5. CASE ShutdownThread BY <2>5, ShutdownThreadKeeps
  <2>6. CASE \E t \in Term : RebuildStep(t) BY <2>6, RebuildKeeps, RebuildInstancesKeeps
  <2>7. CASE \E id \in InstanceID : \E i \in Made(id) : InstanceStep(id, i) BY <2>7, InstanceStepKeeps
  <2>8. CASE \E id \in InstanceID : GetOrCreateInstance(id) BY <2>8, GetOrCreateKeeps
  <2>9. CASE \E id \in InstanceID : Replicated(id) BY <2>9, ReplicatedKeeps
  <2>10. CASE DropCollection BY <2>10, DropKeeps
  <2>11. CASE WaitForStateNotRebuilding \/ UNCHANGED vars BY <2>11, WaitKeeps
  <2> QED BY <2>1, <2>2, <2>3, <2>4, <2>5, <2>6, <2>7, <2>8, <2>9, <2>10, <2>11 DEF Next
<1> QED BY <1>1, <1>2, PTL DEF Spec

(* The variables keep their types, and an id in the map leads to an object  *)
(* that is not released.                                                    *)
THEOREM ServiceTypeCorrect == Spec => []TypeOK
<1>1. ServiceInv => TypeOK BY DEF ServiceInv
<1> QED BY <1>1, Invariant, PTL

(* Two unfinished instances of one id never exist unless one is released:   *)
(* at most one of the map, the thread in onStepUp and the thread in         *)
(* shutdown holds an object of an id.                                       *)
THEOREM OneInstanceCorrect == Spec => []OneInstance
<1>1. ServiceInv => OneInstance
  <2> SUFFICES ASSUME ServiceInv, NEW id \in InstanceID, NEW i \in Made(id), NEW j \in Made(id),
                      Unfinished(id, i), Unfinished(id, j), ~Released(id, i), ~Released(id, j)
               PROVE  i = j
    BY DEF OneInstance
  <2>1. /\ i \in {active[id], stepUp.saved[id], shutdown.saved[id]}
        /\ j \in {active[id], stepUp.saved[id], shutdown.saved[id]}
    BY DEF ServiceInv, Held
  <2>2. i # 0 /\ j # 0 BY ObjectType DEF ServiceInv
  <2>3. CASE stepUp.pc # "idle"
    <3>1. active = NoInstances /\ shutdown.saved = NoInstances BY <2>3 DEF ServiceInv, Threads
    <3> QED BY <2>1, <2>2, <3>1, NoneActive
  <2>4. CASE stepUp.pc = "idle"
    <3>1. stepUp.saved = NoInstances BY <2>4 DEF ServiceInv, Threads
    <3>2. active = NoInstances \/ shutdown.saved = NoInstances BY DEF ServiceInv, Threads
    <3> QED BY <2>1, <2>2, <3>1, <3>2, NoneActive
  <2> QED BY <2>3, <2>4
<1> QED BY <1>1, Invariant, PTL

(* A live OpCtx of an instance exists only while the service runs, in the   *)
(* term of the instance unless the service has let go of it.                *)
THEOREM InterruptedCorrect == Spec => []InterruptedAtStepDown
<1>1. ServiceInv => InterruptedAtStepDown BY DEF ServiceInv
<1> QED BY <1>1, Invariant, PTL

(* The assertion of _rebuildInstances that no instance exists when it       *)
(* passes the check of state and term.                                      *)
THEOREM RebuildAssertion == Spec => []RebuildFindsNoInstance
<1>1. ServiceInv => RebuildFindsNoInstance
  BY DEF ServiceInv, Threads, RebuildFindsNoInstance, Stale
<1> QED BY <1>1, Invariant, PTL

(* The parent executor is shut down only after the instances have           *)
(* completed, those a concurrent onStepUp waits for and the released ones   *)
(* excepted.                                                                *)
THEOREM CleanupCorrect == Spec => []CleanupBeforeShutdown
<1>1. ServiceInv => CleanupBeforeShutdown
  <2> SUFFICES ASSUME ServiceInv, ExecutorShutDown, NEW id \in InstanceID, NEW i \in Made(id),
                      Unfinished(id, i), ~Released(id, i)
               PROVE  i = stepUp.saved[id]
    BY DEF CleanupBeforeShutdown
  <2>1. active = NoInstances /\ shutdown.saved = NoInstances
    BY DEF ServiceInv, Threads, ExecutorShutDown
  <2>2. i \in {active[id], stepUp.saved[id], shutdown.saved[id]} BY DEF ServiceInv, Held
  <2>3. i # 0 BY ObjectType DEF ServiceInv
  <2> QED BY <2>1, <2>2, <2>3, NoneActive
<1> QED BY <1>1, Invariant, PTL
====================
