------------ MODULE DocumentsResumedProofs ------------
(***************************************************************************)
(* Proof that a running PrimaryOnlyService has an instance for every state *)
(* document, on top of the invariant of PrimaryOnlyServiceProofs.          *)
(***************************************************************************)
EXTENDS PrimaryOnlyServiceProofs

(* The collection was dropped under an instance of this id in this term.    *)
Dropped(id) ==
  \E i \in Made(id) : instance[id][i].term = term /\ instance[id][i].released = "dropped"

(* An open executor is that of the current term, before it steps down.      *)
Executors ==
  \A t \in Term : executor[t] = "open" => t = term /\ state # "kPaused"

(* No object is of a later term, and a rebuild starts without any of its    *)
(* own.                                                                     *)
Past ==
  \A id \in InstanceID : \A i \in Made(id) :
    instance[id][i].term <= term /\ (state = "kRebuilding" => instance[id][i].term < term)

(* Tasks on a scoped executor are of the current term, or of the one before *)
(* while onStepUp joins it.                                                 *)
Working ==
  \A id \in InstanceID : \A i \in Made(id) :
    instance[id][i].phase \in {"scheduled", "running"} =>
      \/ instance[id][i].term = term
      \/ stepUp.pc = "joining" /\ instance[id][i].term = term - 1

(* What a rebuild found is still all there is, if it may use it.            *)
FoundAll ==
  \A t \in Term : rebuild[t].at = "found" /\ ~Stale(t) => documents \subseteq rebuild[t].ids

(* An instance that has yet to store its document, in a term in which       *)
(* another object stored or deleted one of the same id, is there only       *)
(* because the collection was dropped.                                      *)
Overtaken ==
  state = "kRunning" =>
    \A id \in InstanceID : \A i \in Made(id) :
      /\ instance[id][i].term = term /\ instance[id][i].document = "unwritten"
      /\ instance[id][i].released = "deleted" \/ (i = active[id] /\ id \in documents)
      => Dropped(id)

(* The invariant, inductive together with ServiceInv.                       *)
TaskInv ==
  Executors /\ Past /\ Working /\ FoundAll /\ Overtaken /\ EveryDocumentResumed

--------------------
USE DEF Made

(* What a step of an instance, a drop or a release does to an object: its   *)
(* term stays, it is released once, it does not lose what it stored, and it *)
(* gets back to a task only through an open executor.                       *)
Works(k, j) ==
  /\ instance'[k][j].term = instance[k][j].term
  /\ instance[k][j].released # "no" => instance'[k][j].released = instance[k][j].released
  /\ instance'[k][j].document = "unwritten" => instance[k][j].document = "unwritten"
  /\ instance'[k][j].phase \in {"scheduled", "running"} =>
       \/ instance[k][j].phase \in {"scheduled", "running"}
       \/ executor[instance[k][j].term] = "open"

(* Steps that change objects as Works says keep the facts about executors,  *)
(* terms and rebuilds, and a drop is not forgotten.                         *)
LEMMA ObjectsKeep ==
  ASSUME ServiceInv, TaskInv, UNCHANGED <<state, term, executor, rebuild, stepUp>>,
         \A k \in InstanceID : Len(instance'[k]) = Len(instance[k]),
         \A k \in InstanceID : \A j \in Made(k) : Works(k, j),
         documents' \subseteq documents \/ state # "kRebuilding"
  PROVE  /\ Executors' /\ Past' /\ Working' /\ FoundAll'
         /\ \A k \in InstanceID : Dropped(k) => Dropped(k)'
<1>1. Executors' BY DEF TaskInv, Executors
<1>2. Past' BY DEF TaskInv, Past, Works
<1>3. Working'
  <2> SUFFICES ASSUME NEW k \in InstanceID, NEW j \in Made(k),
                      instance'[k][j].phase \in {"scheduled", "running"}
               PROVE  \/ instance'[k][j].term = term
                      \/ stepUp.pc = "joining" /\ instance'[k][j].term = term - 1
    BY DEF Working
  <2>1. instance'[k][j].term = instance[k][j].term BY DEF Works
  <2>2. CASE instance[k][j].phase \in {"scheduled", "running"}
    BY <2>1, <2>2 DEF TaskInv, Working
  <2>3. CASE executor[instance[k][j].term] = "open"
    <3>1. instance[k][j].term \in Term BY ObjectType DEF ServiceInv, Instance
    <3> QED BY <2>1, <2>3, <3>1 DEF TaskInv, Executors
  <2> QED BY <2>2, <2>3 DEF Works
<1>4. FoundAll' BY DEF TaskInv, FoundAll, Stale
<1>5. ASSUME NEW k \in InstanceID, Dropped(k) PROVE Dropped(k)'
  <2>1. PICK j \in Made(k) : instance[k][j].term = term /\ instance[k][j].released = "dropped"
    BY <1>5 DEF Dropped
  <2>2. instance'[k][j].term = term /\ instance'[k][j].released = "dropped" BY <2>1 DEF Works
  <2> QED BY <2>2 DEF Dropped
<1> QED BY <1>1, <1>2, <1>3, <1>4, <1>5

(* A step that changes neither the map nor the documents keeps the          *)
(* invariant.                                                               *)
LEMMA QuietKeeps ==
  ASSUME ServiceInv, TaskInv, UNCHANGED <<state, term, executor, rebuild, stepUp, active>>,
         documents' = documents,
         \A k \in InstanceID : Len(instance'[k]) = Len(instance[k]),
         \A k \in InstanceID : \A j \in Made(k) :
           Works(k, j) /\ instance'[k][j].released = instance[k][j].released
  PROVE  TaskInv'
<1>1. Executors' /\ Past' /\ Working' /\ FoundAll' /\ \A k \in InstanceID : Dropped(k) => Dropped(k)'
  BY ObjectsKeep
<1>2. Overtaken' BY <1>1 DEF TaskInv, Overtaken, Works
<1>3. EveryDocumentResumed'
  <2> SUFFICES ASSUME state = "kRunning", NEW id \in documents
               PROVE  active[id] # 0 \/ Dropped(id)'
    BY DEF EveryDocumentResumed, Dropped
  <2>1. id \in InstanceID BY DEF ServiceInv, TypeOK
  <2>2. active[id] # 0 \/ Dropped(id) BY DEF TaskInv, EveryDocumentResumed, Dropped
  <2> QED BY <1>1, <2>1, <2>2
<1> QED BY <1>1, <1>2, <1>3 DEF TaskInv

(* A step from one task of an instance to the next keeps the invariant:     *)
(* only an open executor, that of the current term, takes a new task.       *)
LEMMA ProceedWorks ==
  ASSUME ServiceInv, TaskInv, NEW id \in InstanceID, NEW i \in Made(id), NEW phase \in Phase,
         phase \in {"scheduled", "running"} =>
           \/ instance[id][i].phase \in {"scheduled", "running"}
           \/ executor[instance[id][i].term] = "open",
         Proceed(id, i, phase)
  PROVE  TaskInv'
<1> DEFINE x == [instance[id][i] EXCEPT !.phase = phase, !.op = "none"]
<1>1. TypeOK BY DEF ServiceInv
<1>2. instance[id][i] \in Instance BY <1>1, ObjectType
<1>3. x \in Instance BY <1>2 DEF Instance, Phase, OpCtx
<1>4. /\ x.term = instance[id][i].term /\ x.released = instance[id][i].released
      /\ x.phase = phase /\ x.document = instance[id][i].document
  BY <1>2 DEF Instance
<1>5. Step(id, i, x) BY DEF Proceed
<1>6. /\ UNCHANGED <<state, term, executor, rebuild, stepUp, active>>
      /\ documents' = documents
  BY <1>5 DEF Proceed, Step, serviceVars, threadVars
<1> HIDE DEF x
<1>7. \A k \in InstanceID : /\ Len(instance'[k]) = Len(instance[k])
        /\ \A j \in Made(k) : instance'[k][j] = IF k = id /\ j = i THEN x ELSE instance[k][j]
  BY <1>1, <1>3, <1>5, StepType
<1>8. \A k \in InstanceID : \A j \in Made(k) :
        Works(k, j) /\ instance'[k][j].released = instance[k][j].released
  BY <1>4, <1>7 DEF Works
<1> QED BY <1>6, <1>7, <1>8, QuietKeeps

(* A document is stored by an instance of this term, which is in the map or *)
(* was overtaken by a drop.                                                 *)
LEMMA StoreKeeps ==
  ASSUME ServiceInv, TaskInv, NEW id \in InstanceID, NEW i \in Made(id), StoreDocument(id, i)
  PROVE  TaskInv'
<1> DEFINE x == [instance[id][i] EXCEPT !.document = "stored"]
<1>1. TypeOK BY DEF ServiceInv
<1>2. instance[id][i] \in Instance BY <1>1, ObjectType
<1>3. /\ x \in Instance /\ x.term = instance[id][i].term /\ x.released = instance[id][i].released
      /\ x.phase = instance[id][i].phase /\ x.document = "stored"
  BY <1>2 DEF Instance
<1>4. Step(id, i, x) BY DEF StoreDocument
<1> HIDE DEF x
<1>5. \A k \in InstanceID : /\ Len(instance'[k]) = Len(instance[k])
        /\ \A j \in Made(k) : instance'[k][j] = IF k = id /\ j = i THEN x ELSE instance[k][j]
  BY <1>1, <1>3, <1>4, StepType
<1>6. /\ UNCHANGED <<state, term, executor, rebuild, stepUp, active>>
      /\ documents' = documents \cup {id}
  BY <1>4 DEF StoreDocument, Step, serviceVars, threadVars
<1>7. /\ instance[id][i].phase = "running" /\ instance[id][i].op = "live"
      /\ instance[id][i].document = "unwritten"
  BY DEF StoreDocument
<1>8. state = "kRunning" BY <1>7 DEF ServiceInv, InterruptedAtStepDown
<1>9. \A k \in InstanceID : \A j \in Made(k) :
        Works(k, j) /\ instance'[k][j].released = instance[k][j].released
  BY <1>3, <1>5 DEF Works
<1>10. Executors' /\ Past' /\ Working' /\ FoundAll' /\ \A k \in InstanceID : Dropped(k) => Dropped(k)'
  BY <1>5, <1>6, <1>8, <1>9, ObjectsKeep
<1>11. i = active[id] \/ Dropped(id)
  <2>1. stepUp.pc = "idle" BY <1>8, RunningAlone
  <2>2. instance[id][i].term = term BY <1>7, <2>1 DEF TaskInv, Working
  <2>3. CASE instance[id][i].released = "no"
    BY <1>7, <1>8, <2>3, RunningAlone DEF Unfinished, Released
  <2>4. CASE instance[id][i].released = "deleted"
    BY <1>7, <1>8, <2>2, <2>4 DEF TaskInv, Overtaken
  <2>5. CASE instance[id][i].released = "dropped" BY <2>2, <2>5 DEF Dropped
  <2> QED BY <1>2, <2>3, <2>4, <2>5 DEF Instance
<1>12. Overtaken'
  <2> SUFFICES ASSUME NEW k \in InstanceID, NEW j \in Made(k),
                      instance'[k][j].term = term, instance'[k][j].document = "unwritten",
                      instance'[k][j].released = "deleted" \/ (j = active[k] /\ k \in documents')
               PROVE  Dropped(k)'
    BY <1>5, <1>6 DEF Overtaken
  <2>1. /\ instance[k][j].term = term /\ instance[k][j].document = "unwritten"
        /\ instance[k][j].released = instance'[k][j].released /\ ~(k = id /\ j = i)
    BY <1>3, <1>5, <1>9 DEF Works
  <2>2. CASE k = id /\ j = active[id] BY <1>10, <1>11, <2>1, <2>2
  <2>3. CASE ~(k = id /\ j = active[id])
    <3>1. instance[k][j].released = "deleted" \/ (j = active[k] /\ k \in documents)
      BY <1>6, <2>1, <2>3
    <3>2. Dropped(k) BY <1>8, <2>1, <3>1 DEF TaskInv, Overtaken
    <3> QED BY <1>10, <3>2
  <2> QED BY <2>2, <2>3
<1>13. EveryDocumentResumed'
  <2> SUFFICES ASSUME NEW k \in documents' PROVE active[k] # 0 \/ Dropped(k)'
    BY <1>6 DEF EveryDocumentResumed, Dropped
  <2>1. CASE k = id
    <3>1. i # 0 BY <1>1, ObjectType
    <3> QED BY <1>10, <1>11, <2>1, <3>1
  <2>2. CASE k # id
    <3>1. k \in documents /\ k \in InstanceID BY <1>1, <1>6, <2>2 DEF TypeOK
    <3>2. active[k] # 0 \/ Dropped(k) BY <1>8, <3>1 DEF TaskInv, EveryDocumentResumed, Dropped
    <3> QED BY <1>10, <3>1, <3>2
  <2> QED BY <2>1, <2>2
<1> QED BY <1>10, <1>12, <1>13 DEF TaskInv

(* What releaseInstance changes, field by field.                            *)
LEMMA ReleaseEffect ==
  ASSUME TypeOK, NEW objs \in Objects, \A k \in InstanceID : Len(objs[k]) = Len(instance[k]),
         NEW id \in InstanceID, ReleaseInstance(id, objs)
  PROVE  /\ \A k \in InstanceID : active'[k] = IF k = id THEN 0 ELSE active[k]
         /\ \A k \in InstanceID : /\ Len(instance'[k]) = Len(instance[k])
              /\ \A j \in Made(k) :
                   /\ instance'[k][j].term = objs[k][j].term
                   /\ instance'[k][j].phase = objs[k][j].phase
                   /\ instance'[k][j].document = objs[k][j].document
                   /\ instance'[k][j].released =
                        IF k = id /\ j = active[id] THEN "deleted" ELSE objs[k][j].released
<1>1. /\ active' = [active EXCEPT ![id] = 0]
      /\ \A k \in InstanceID : /\ Len(instance'[k]) = Len(instance[k])
           /\ \A j \in Made(k) : instance'[k][j] =
                IF k = id /\ j = active[id] THEN [objs[k][j] EXCEPT !.released = "deleted"]
                                            ELSE objs[k][j]
  BY ReleaseType
<1>2. ASSUME NEW k \in InstanceID, NEW j \in Made(k)
      PROVE  /\ instance'[k][j].term = objs[k][j].term
             /\ instance'[k][j].phase = objs[k][j].phase
             /\ instance'[k][j].document = objs[k][j].document
             /\ instance'[k][j].released =
                  IF k = id /\ j = active[id] THEN "deleted" ELSE objs[k][j].released
  <2> DEFINE o == objs[k][j]
             n == [o EXCEPT !.released = "deleted"]
  <2>1. objs[k] \in Seq(Instance) BY DEF Objects
  <2>2. o \in Instance BY <2>1, ElementOfSeq
  <2>3. n.term = o.term /\ n.phase = o.phase /\ n.document = o.document /\ n.released = "deleted"
    BY <2>2 DEF Instance
  <2>4. instance'[k][j] = IF k = id /\ j = active[id] THEN n ELSE o BY <1>1
  <2> HIDE DEF n, o
  <2> QED BY <2>3, <2>4 DEF o
<1>3. \A k \in InstanceID : active'[k] = IF k = id THEN 0 ELSE active[k] BY <1>1 DEF TypeOK
<1> QED BY <1>1, <1>2, <1>3

(* The delete of a document keeps the invariant: an instance that is        *)
(* released with it before it stored its own was there because of a drop.   *)
LEMMA DeleteKeeps ==
  ASSUME ServiceInv, TaskInv, NEW id \in InstanceID, NEW i \in Made(id), DeleteDocument(id, i)
  PROVE  TaskInv'
<1> DEFINE x == [instance[id][i] EXCEPT !.document = "deleted"]
           objs == Updated(instance, id, i, x)
<1>1. TypeOK BY DEF ServiceInv
<1>2. instance[id][i] \in Instance BY <1>1, ObjectType
<1>3. /\ x \in Instance /\ x.term = instance[id][i].term /\ x.released = instance[id][i].released
      /\ x.phase = instance[id][i].phase /\ x.document = "deleted"
  BY <1>2 DEF Instance
<1>4. ReleaseInstance(id, objs) BY DEF DeleteDocument, Updated
<1> HIDE DEF x
<1>5. /\ objs \in Objects
      /\ \A k \in InstanceID : /\ Len(objs[k]) = Len(instance[k])
           /\ \A j \in Made(k) : objs[k][j] = IF k = id /\ j = i THEN x ELSE instance[k][j]
  BY <1>1, <1>3, ObjectType, StepChanges
<1> HIDE DEF objs
<1>6. /\ \A k \in InstanceID : active'[k] = IF k = id THEN 0 ELSE active[k]
      /\ \A k \in InstanceID : /\ Len(instance'[k]) = Len(instance[k])
           /\ \A j \in Made(k) :
                /\ instance'[k][j].term = objs[k][j].term
                /\ instance'[k][j].phase = objs[k][j].phase
                /\ instance'[k][j].document = objs[k][j].document
                /\ instance'[k][j].released =
                     IF k = id /\ j = active[id] THEN "deleted" ELSE objs[k][j].released
  BY <1>1, <1>4, <1>5, ReleaseEffect
<1>7. \A k \in InstanceID : \A j \in Made(k) :
        /\ instance'[k][j].term = instance[k][j].term
        /\ instance'[k][j].phase = instance[k][j].phase
        /\ instance'[k][j].document = "unwritten" => instance[k][j].document = "unwritten"
        /\ instance'[k][j].released =
             IF k = id /\ j = active[id] THEN "deleted" ELSE instance[k][j].released
  BY <1>3, <1>5, <1>6
<1>8. active[id] # 0 => active[id] \in Made(id) /\ instance[id][active[id]].released = "no"
  BY <1>1 DEF TypeOK
<1>9. \A k \in InstanceID : \A j \in Made(k) : Works(k, j)
  <2>1. \A j \in Made(id) : j = active[id] => instance[id][j].released = "no"
    BY <1>1, <1>8, ObjectType
  <2> QED BY <1>7, <2>1 DEF Works
<1>10. /\ UNCHANGED <<state, term, executor, rebuild, stepUp>>
       /\ documents' = documents \ {id} /\ id \in documents
  BY DEF DeleteDocument, threadVars
<1>11. Executors' /\ Past' /\ Working' /\ FoundAll' /\ \A k \in InstanceID : Dropped(k) => Dropped(k)'
  BY <1>6, <1>9, <1>10, ObjectsKeep
<1>12. Overtaken'
  <2> SUFFICES ASSUME state = "kRunning", NEW k \in InstanceID, NEW j \in Made(k),
                      instance'[k][j].term = term, instance'[k][j].document = "unwritten",
                      instance'[k][j].released = "deleted" \/ (j = active'[k] /\ k \in documents')
               PROVE  Dropped(k)'
    BY <1>6, <1>10 DEF Overtaken
  <2>1. instance[k][j].term = term /\ instance[k][j].document = "unwritten" BY <1>7
  <2>2. instance[k][j].released = "deleted" \/ (j = active[k] /\ k \in documents)
    BY <1>6, <1>7, <1>10
  <2>3. Dropped(k) BY <2>1, <2>2 DEF TaskInv, Overtaken
  <2> QED BY <1>11, <2>3
<1>13. EveryDocumentResumed'
  <2> SUFFICES ASSUME state = "kRunning", NEW k \in documents' PROVE active'[k] # 0 \/ Dropped(k)'
    BY <1>10 DEF EveryDocumentResumed, Dropped
  <2>1. k \in documents /\ k \in InstanceID /\ k # id BY <1>1, <1>10 DEF TypeOK
  <2>2. active[k] # 0 \/ Dropped(k) BY <2>1 DEF TaskInv, EveryDocumentResumed, Dropped
  <2> QED BY <1>6, <1>11, <2>1, <2>2
<1> QED BY <1>11, <1>12, <1>13 DEF TaskInv

(* Every step of an instance keeps the invariant.                           *)
LEMMA InstanceKeeps ==
  ASSUME ServiceInv, TaskInv, NEW id \in InstanceID, NEW i \in Made(id), InstanceStep(id, i)
  PROVE  TaskInv'
<1>1. TypeOK BY DEF ServiceInv
<1>2. instance[id][i] \in Instance BY <1>1, ObjectType
<1>3. Ending \subseteq Phase /\ "running" \notin Ending /\ "scheduled" \notin Ending BY DEF Ending, Phase
<1>4. CASE RunInstance(id, i) BY <1>4, ProceedWorks DEF RunInstance, Phase
<1>5. CASE OpEnds(id, i) BY <1>2, <1>5, ProceedWorks DEF OpEnds, Phase, Instance
<1>6. CASE TaskEnds(id, i)
  <2>1. PICK next \in {"waiting", "complete"} \cup Ending : Proceed(id, i, next)
    BY <1>6 DEF TaskEnds
  <2>2. next \in Phase /\ next \notin {"scheduled", "running"} BY <1>3 DEF Phase
  <2> QED BY <2>1, <2>2, ProceedWorks
<1>7. CASE WaitEnds(id, i)
  <2>1. PICK next \in Ending \cup (IF executor[instance[id][i].term] = "open" THEN {"running"} ELSE {}) :
          Proceed(id, i, next)
    BY <1>7 DEF WaitEnds
  <2>2. next \in Phase BY <1>3 DEF Phase
  <2>3. next \in {"scheduled", "running"} => executor[instance[id][i].term] = "open" BY <1>3
  <2> QED BY <2>1, <2>2, <2>3, ProceedWorks
<1>8. CASE MakeOpCtx(id, i)
  <2> DEFINE x == [instance[id][i] EXCEPT !.op = RegisterOpCtx(FALSE)]
  <2>1. RegisterOpCtx(FALSE) \in OpCtx BY DEF RegisterOpCtx, OpCtx
  <2>2. /\ x \in Instance /\ x.term = instance[id][i].term /\ x.released = instance[id][i].released
        /\ x.phase = instance[id][i].phase /\ x.document = instance[id][i].document
    BY <1>2, <2>1 DEF Instance
  <2>3. Step(id, i, x) BY <1>8 DEF MakeOpCtx
  <2> HIDE DEF x
  <2>4. \A k \in InstanceID : /\ Len(instance'[k]) = Len(instance[k])
          /\ \A j \in Made(k) : instance'[k][j] = IF k = id /\ j = i THEN x ELSE instance[k][j]
    BY <1>1, <2>2, <2>3, StepType
  <2>5. UNCHANGED <<state, term, executor, rebuild, stepUp, active>> /\ documents' = documents
    BY <1>8, <2>3 DEF MakeOpCtx, Step, serviceVars, threadVars
  <2>6. \A k \in InstanceID : \A j \in Made(k) :
          Works(k, j) /\ instance'[k][j].released = instance[k][j].released
    BY <2>2, <2>4 DEF Works
  <2> QED BY <2>4, <2>5, <2>6, QuietKeeps
<1>9. CASE StoreDocument(id, i) BY <1>9, StoreKeeps
<1>10. CASE DeleteDocument(id, i) BY <1>10, DeleteKeeps
<1> QED BY <1>4, <1>5, <1>6, <1>7, <1>8, <1>9, <1>10 DEF InstanceStep

(* A drop of the collection keeps the invariant.                            *)
LEMMA DropTask ==
  ASSUME ServiceInv, TaskInv, DropCollection
  PROVE  TaskInv'
<1>1. TypeOK BY DEF ServiceInv
<1>2. /\ UNCHANGED <<state, term, executor, rebuild, stepUp>>
      /\ documents' = {} /\ active' = NoInstances
  BY DEF DropCollection, threadVars
<1>3. \A k \in InstanceID : /\ Len(instance'[k]) = Len(instance[k])
        /\ \A j \in Made(k) : instance'[k][j] = IF j = active[k]
             THEN [instance[k][j] EXCEPT !.released = "dropped", !.interrupted = TRUE]
             ELSE instance[k][j]
  BY <1>1, DropType
<1>4. ASSUME NEW k \in InstanceID, NEW j \in Made(k)
      PROVE  /\ Works(k, j)
             /\ instance'[k][j].released = "deleted" => instance[k][j].released = "deleted"
  <2> DEFINE o == instance[k][j]
             n == [o EXCEPT !.released = "dropped", !.interrupted = TRUE]
  <2>1. o \in Instance BY <1>1, ObjectType
  <2>2. n.term = o.term /\ n.document = o.document /\ n.phase = o.phase /\ n.released = "dropped"
    BY <2>1 DEF Instance
  <2>3. j = active[k] => o.released = "no"
    <3>1. j # 0 BY <1>1, ObjectType
    <3> QED BY <1>1, <3>1 DEF TypeOK
  <2>4. instance'[k][j] = IF j = active[k] THEN n ELSE o BY <1>3
  <2> HIDE DEF n, o
  <2> QED BY <2>2, <2>3, <2>4 DEF o, Works
<1>5. Executors' /\ Past' /\ Working' /\ FoundAll' /\ \A k \in InstanceID : Dropped(k) => Dropped(k)'
  BY <1>2, <1>3, <1>4, ObjectsKeep
<1>6. Overtaken'
  <2> SUFFICES ASSUME state = "kRunning", NEW k \in InstanceID, NEW j \in Made(k),
                      instance'[k][j].term = term, instance'[k][j].document = "unwritten",
                      instance'[k][j].released = "deleted"
               PROVE  Dropped(k)'
    BY <1>2, <1>3 DEF Overtaken
  <2>1. /\ instance[k][j].term = term /\ instance[k][j].document = "unwritten"
        /\ instance[k][j].released = "deleted"
    BY <1>4 DEF Works
  <2> QED BY <1>5, <2>1 DEF TaskInv, Overtaken
<1>7. EveryDocumentResumed' BY <1>2 DEF EveryDocumentResumed
<1> QED BY <1>5, <1>6, <1>7 DEF TaskInv

(* A write that arrives from another node keeps the invariant: the service  *)
(* is paused.                                                               *)
LEMMA ReplicatedTask ==
  ASSUME ServiceInv, TaskInv, NEW id \in InstanceID, Replicated(id)
  PROVE  TaskInv'
<1>1. TypeOK BY DEF ServiceInv
<1>2. UNCHANGED <<state, term, executor, rebuild, stepUp>> /\ state = "kPaused"
  BY DEF Replicated, threadVars
<1>3. /\ \A k \in InstanceID : Len(instance'[k]) = Len(instance[k])
      /\ \A k \in InstanceID : \A j \in Made(k) : Works(k, j)
  <2>1. CASE UNCHANGED <<active, instance>> BY <2>1 DEF Works
  <2>2. CASE ReleaseInstance(id, instance)
    <3>1. \A k \in InstanceID : /\ Len(instance'[k]) = Len(instance[k])
            /\ \A j \in Made(k) :
                 /\ instance'[k][j].term = instance[k][j].term
                 /\ instance'[k][j].phase = instance[k][j].phase
                 /\ instance'[k][j].document = instance[k][j].document
                 /\ instance'[k][j].released =
                      IF k = id /\ j = active[id] THEN "deleted" ELSE instance[k][j].released
      BY <1>1, <2>2, ReleaseEffect, ObjectType
    <3>2. \A j \in Made(id) : j = active[id] => instance[id][j].released = "no"
      BY <1>1, ObjectType DEF TypeOK
    <3> QED BY <3>1, <3>2 DEF Works
  <2> QED BY <2>1, <2>2 DEF Replicated
<1>4. Executors' /\ Past' /\ Working' /\ FoundAll' BY <1>2, <1>3, ObjectsKeep
<1> QED BY <1>2, <1>4 DEF TaskInv, Overtaken, EveryDocumentResumed

--------------------
(* Of a service that is not running nothing is said about documents.        *)
LEMMA NotRunning ==
  ASSUME state' # "kRunning", Executors', Past', Working', FoundAll'
  PROVE  TaskInv'
BY DEF TaskInv, Overtaken, EveryDocumentResumed

(* A step of the chain of a rebuild keeps the invariant if what it finds is *)
(* what there is.                                                           *)
LEMMA ChainTask ==
  ASSUME ServiceInv, TaskInv, NEW t \in Term, NEW step \in Rebuild, Chain(t, step),
         step.at = "found" => step.ids = documents,
         UNCHANGED <<state, term, active>>
  PROVE  TaskInv'
<1>1. rebuild \in [Term -> Rebuild] BY DEF ServiceInv, TypeOK
<1>2. rebuild' = [rebuild EXCEPT ![t] = step] BY DEF Chain
<1>3. UNCHANGED <<instance, executor, documents, stepUp>> BY DEF Chain, instanceVars, threadVars
<1>4. Executors' /\ Past' /\ Working' BY <1>3 DEF TaskInv, Executors, Past, Working
<1>5. FoundAll' BY <1>1, <1>2, <1>3 DEF TaskInv, FoundAll, Stale
<1>6. Overtaken' /\ EveryDocumentResumed'
  BY <1>3 DEF TaskInv, Overtaken, EveryDocumentResumed, Dropped
<1> QED BY <1>4, <1>5, <1>6 DEF TaskInv

(* Every step of a rebuild but the last keeps the invariant.                *)
LEMMA RebuildTask ==
  ASSUME ServiceInv, TaskInv, NEW t \in Term, RebuildStep(t), ~RebuildInstances(t)
  PROVE  TaskInv'
<1>1. rebuild[t] \in Rebuild /\ documents \subseteq InstanceID BY DEF ServiceInv, TypeOK
<1>2. ASSUME NEW step \in Rebuild, step.at = "found" => step.ids = documents,
             Chain(t, step), UNCHANGED serviceVars
      PROVE  TaskInv'
  BY <1>2, ChainTask DEF serviceVars
<1>3. RebuildDone \in Rebuild /\ RebuildDone.at = "done" BY RebuildStepType
<1>4. CASE MajorityReached(t)
  <2> DEFINE s == [rebuild[t] EXCEPT !.at = "service"]
  <2>1. s \in Rebuild /\ s.at = "service" BY <1>1, RebuildStepType DEF Rebuild
  <2>2. PICK step \in {RebuildDone, s} : Chain(t, step) BY <1>4 DEF MajorityReached
  <2>3. UNCHANGED serviceVars BY <1>4 DEF MajorityReached
  <2> HIDE DEF s
  <2> QED BY <1>2, <1>3, <2>1, <2>2, <2>3
<1>5. CASE RebuildOpCtx(t)
  <2> DEFINE step == [rebuild[t] EXCEPT !.op = RegisterOpCtx(TRUE)]
  <2>1. step \in Rebuild BY <1>1, RebuildStepType
  <2>2. step.at # "found" BY <1>1, <1>5 DEF RebuildOpCtx, Rebuild
  <2>3. Chain(t, step) /\ UNCHANGED serviceVars BY <1>5 DEF RebuildOpCtx
  <2> HIDE DEF step
  <2> QED BY <1>2, <2>1, <2>2, <2>3
<1>6. CASE RebuildServiceEnds(t)
  <2>1. PICK at \in {"instances", "serviceFailed"} :
          \/ Chain(t, IF executor[t] = "shutdown" THEN RebuildDone ELSE [NoRebuild EXCEPT !.at = at])
          \/ Chain(t, [NoRebuild EXCEPT !.at = at])
    BY <1>6 DEF RebuildServiceEnds
  <2> DEFINE s == [NoRebuild EXCEPT !.at = at]
  <2>2. s \in Rebuild /\ s.at # "found" BY RebuildStepType DEF NoRebuild
  <2>3. PICK step \in {RebuildDone, s} : Chain(t, step) BY <2>1
  <2>4. UNCHANGED serviceVars BY <1>6 DEF RebuildServiceEnds
  <2> HIDE DEF s
  <2> QED BY <1>2, <1>3, <2>2, <2>3, <2>4
<1>7. CASE BeginRebuildInstances(t)
  <2> DEFINE s == [rebuild[t] EXCEPT !.at = "query"]
  <2>1. s \in Rebuild /\ s.at = "query" BY <1>1, RebuildStepType DEF Rebuild
  <2>2. PICK step \in {RebuildDone, s} : Chain(t, step) BY <1>7 DEF BeginRebuildInstances
  <2>3. UNCHANGED serviceVars BY <1>7 DEF BeginRebuildInstances
  <2> HIDE DEF s
  <2> QED BY <1>2, <1>3, <2>1, <2>2, <2>3
<1>8. CASE FindDocuments(t)
  <2> DEFINE step == [at |-> "found", op |-> "none", ids |-> documents]
  <2>1. step \in Rebuild /\ step.ids = documents BY <1>1, RebuildStepType
  <2>2. Chain(t, step) /\ UNCHANGED serviceVars BY <1>8 DEF FindDocuments
  <2> HIDE DEF step
  <2> QED BY <1>2, <2>1, <2>2
<1>9. CASE FindFails(t)
  <2>1. Chain(t, RebuildDone) /\ UNCHANGED <<term, active>> BY <1>9 DEF FindFails
  <2>2. CASE Stale(t)
    <3>1. UNCHANGED state BY <1>9, <2>2 DEF FindFails
    <3> QED BY <1>3, <2>1, <3>1, ChainTask
  <2>3. CASE ~Stale(t)
    <3>1. state' = "kRebuildFailed" BY <1>9, <2>3 DEF FindFails, SetState
    <3>2. UNCHANGED <<instance, executor, documents, stepUp>> BY <2>1 DEF Chain, instanceVars, threadVars
    <3>3. Executors' BY <2>1, <2>3, <3>1, <3>2 DEF TaskInv, Executors
    <3>4. Past' /\ Working' BY <2>1, <3>1, <3>2 DEF TaskInv, Past, Working
    <3>5. FoundAll' BY <3>1 DEF FoundAll, Stale
    <3> QED BY <3>1, <3>3, <3>4, <3>5, NotRunning
  <2> QED BY <2>2, <2>3
<1> QED BY <1>4, <1>5, <1>6, <1>7, <1>8, <1>9 DEF RebuildStep

(* onStepUp keeps the invariant: no executor is open in a paused service,   *)
(* and the tasks left are of the term that ends.                            *)
LEMMA StepUpTask ==
  ASSUME ServiceAssumption, ServiceInv, TaskInv, OnStepUp
  PROVE  TaskInv'
<1>1. /\ state = "kPaused" /\ state' = "kRebuilding" /\ term < MaxTerm /\ term' = term + 1
      /\ executor' = [executor EXCEPT ![term + 1] = "open"] /\ stepUp.pc = "idle"
      /\ stepUp' = [pc |-> "joining", saved |-> active] /\ UNCHANGED <<instance, rebuild, documents>>
  BY DEF OnStepUp, SetState, instanceVars
<1>2. term \in 0 .. MaxTerm /\ MaxTerm \in Nat /\ TypeOK BY DEF ServiceInv, TypeOK, ServiceAssumption
<1>3. \A k \in InstanceID : \A j \in Made(k) : instance[k][j].term \in Nat
  BY <1>2, ObjectType DEF Instance, Term
<1>4. Executors'
  <2>1. \A t \in Term : executor[t] # "open" BY <1>1 DEF TaskInv, Executors
  <2>2. executor \in [Term -> {"none", "open", "shutdown"}] BY <1>2 DEF TypeOK
  <2>3. \A t \in Term : executor'[t] = "open" => t = term + 1 BY <1>1, <2>1, <2>2
  <2> QED BY <1>1, <2>3 DEF Executors
<1>5. Past' BY <1>1, <1>2, <1>3 DEF TaskInv, Past
<1>6. Working'
  <2>1. stepUp'.pc = "joining" BY <1>1
  <2> QED BY <1>1, <1>2, <1>3, <2>1 DEF TaskInv, Working
<1>7. FoundAll' BY <1>1, <1>2 DEF ServiceInv, Threads, FoundAll, Stale
<1> QED BY <1>1, <1>4, <1>5, <1>6, <1>7, NotRunning

(* The waits of onStepUp keep the invariant: after the join no task of the  *)
(* last term is left.                                                       *)
LEMMA StepUpThreadTask ==
  ASSUME ServiceInv, TaskInv, StepUpThread
  PROVE  TaskInv'
<1>1. UNCHANGED <<state, term, active, instance, executor, documents>>
  BY DEF StepUpThread, JoinLastTerm, LaunchRebuild, serviceVars, instanceVars
<1>2. /\ term \in 0 .. MaxTerm /\ rebuild \in [Term -> Rebuild] /\ TypeOK
      /\ stepUp \in [pc : {"idle", "joining", "instances"}, saved : [InstanceID -> Nat]]
  BY DEF ServiceInv, TypeOK
<1>3. state # "kRunning" BY DEF ServiceInv, Threads, StepUpThread, JoinLastTerm, LaunchRebuild
<1>4. Executors' /\ Past' BY <1>1 DEF TaskInv, Executors, Past
<1>5. Working'
  <2> SUFFICES ASSUME NEW k \in InstanceID, NEW j \in Made(k),
                      instance[k][j].phase \in {"scheduled", "running"}
               PROVE  instance[k][j].term = term
    BY <1>1 DEF Working
  <2>1. instance[k][j].term \in Term BY <1>2, ObjectType DEF Instance
  <2>2. CASE JoinLastTerm
    <3>1. instance[k][j].term = term - 1 => term > 1 BY <1>2, <2>1 DEF Term
    <3>2. term > 1 => Joined(term - 1) BY <2>2 DEF JoinLastTerm
    <3>3. instance[k][j].term # term - 1 BY <3>1, <3>2 DEF Joined
    <3> QED BY <3>3 DEF TaskInv, Working
  <2>3. CASE LaunchRebuild
    BY <2>3 DEF LaunchRebuild, TaskInv, Working
  <2> QED BY <2>2, <2>3 DEF StepUpThread
<1>6. FoundAll'
  <2>1. CASE JoinLastTerm BY <1>1, <2>1 DEF JoinLastTerm, TaskInv, FoundAll, Stale
  <2>2. CASE LaunchRebuild
    <3>1. rebuild' = [rebuild EXCEPT ![term].at = "majority"] BY <2>2 DEF LaunchRebuild
    <3>2. \A t \in Term : t # term => rebuild'[t] = rebuild[t] BY <1>2, <3>1
    <3>3. term \in Term => rebuild'[term].at = "majority" BY <1>2, <3>1 DEF Rebuild
    <3> QED BY <1>1, <3>2, <3>3 DEF FoundAll, Stale
  <2> QED BY <2>1, <2>2 DEF StepUpThread
<1> QED BY <1>1, <1>3, <1>4, <1>5, <1>6, NotRunning

(* _interruptInstances shuts down the executor of the term and leaves the   *)
(* tasks where they are.                                                    *)
LEMMA InterruptTask ==
  ASSUME TypeOK, InterruptInstances
  PROVE  /\ \A k \in InstanceID : /\ Len(instance'[k]) = Len(instance[k])
              /\ \A j \in Made(k) : /\ instance'[k][j].phase = instance[k][j].phase
                                    /\ instance'[k][j].term = instance[k][j].term
         /\ \A t \in Term : executor'[t] = IF t = term THEN "shutdown" ELSE executor[t]
<1>1. ASSUME NEW k \in InstanceID, NEW j \in Made(k)
      PROVE  instance'[k][j].phase = instance[k][j].phase /\ instance'[k][j].term = instance[k][j].term
  <2> DEFINE r == instance[k][j]
             b == r.interrupted \/ j = active[k]
             op == Killed(r.op)
  <2>1. r \in Instance BY ObjectType
  <2>2. instance'[k][j] = [r EXCEPT !.op = op, !.interrupted = b] BY InterruptType, Zenon
  <2> HIDE DEF b, op
  <2> QED BY <2>1, <2>2 DEF Instance
<1>2. \A t \in Term : executor'[t] = IF t = term THEN "shutdown" ELSE executor[t]
  BY DEF InterruptInstances
<1> QED BY <1>1, <1>2, InterruptType

(* onStepDown and shutdown keep the invariant: no executor is open after    *)
(* them.                                                                    *)
LEMMA StopTask ==
  ASSUME ServiceInv, TaskInv, OnStepDown \/ BeginShutdown
  PROVE  TaskInv'
<1>1. TypeOK BY DEF ServiceInv
<1>2. /\ state' \in {"kPaused", "kShutdown"} /\ UNCHANGED <<term, documents, stepUp>>
      /\ state' = "kPaused" => InterruptInstances
      /\ InterruptInstances \/ (state = "kPaused" /\ UNCHANGED <<executor, instance, rebuild>>)
  BY DEF OnStepDown, BeginShutdown, SetState, threadVars
<1>3. /\ \A k \in InstanceID : /\ Len(instance'[k]) = Len(instance[k])
           /\ \A j \in Made(k) : /\ instance'[k][j].phase = instance[k][j].phase
                                 /\ instance'[k][j].term = instance[k][j].term
      /\ \A t \in Term : executor'[t] # "open"
  <2>1. CASE InterruptInstances
    <3>1. \A t \in Term : t # term => executor[t] # "open" BY DEF TaskInv, Executors
    <3> QED BY <1>1, <2>1, <3>1, InterruptTask
  <2>2. CASE state = "kPaused" /\ UNCHANGED <<executor, instance, rebuild>>
    BY <2>2 DEF TaskInv, Executors
  <2> QED BY <1>2, <2>1, <2>2
<1>4. Executors' BY <1>3 DEF Executors
<1>5. Past' BY <1>2, <1>3 DEF TaskInv, Past
<1>6. Working' BY <1>2, <1>3 DEF TaskInv, Working
<1>7. FoundAll' BY <1>2 DEF FoundAll, Stale
<1> QED BY <1>2, <1>4, <1>5, <1>6, <1>7, NotRunning

(* New instances keep the invariant: those of a rebuild are for all         *)
(* documents there are, and the one of a client is for an id that has none, *)
(* or had its document dropped.                                             *)
LEMMA InsertTask ==
  ASSUME ServiceInv, TaskInv, term \in Term, NEW ids \in SUBSET InstanceID,
         NEW document \in {"unwritten", "stored", "deleted"}, InsertNewInstances(ids, document),
         \/ state = "kRebuilding" /\ documents \subseteq ids /\ document = "stored"
         \/ state = "kRunning" /\ \A k \in ids : active[k] = 0,
         state' = "kRunning", UNCHANGED <<term, executor, documents, stepUp>>
  PROVE  TaskInv'
<1> DEFINE n == NewInstance(document)
<1>1. TypeOK BY DEF ServiceInv
<1>2. n.term = term /\ n.document = document /\ n.released = "no" BY DEF NewInstance
<1>3. /\ \A k \in InstanceID : \A j \in Made(k) : instance'[k][j] = instance[k][j]
      /\ \A k \in ids :
           /\ active'[k] = Len(instance[k]) + 1
           /\ Len(instance'[k]) = Len(instance[k]) + 1
           /\ instance'[k][Len(instance[k]) + 1] = n
      /\ \A k \in InstanceID \ ids : active'[k] = active[k] /\ instance'[k] = instance[k]
  BY <1>1, InsertType
<1> HIDE DEF n
<1>4. \A k \in InstanceID : Len(instance[k]) \in Nat BY <1>1, ObjectType
<1>5. \A k \in InstanceID : \A j \in Made(k)' :
        j \in Made(k) \/ (k \in ids /\ j = active'[k] /\ instance'[k][j] = n)
  <2> TAKE k \in InstanceID
  <2>1. CASE k \in ids BY <1>3, <1>4, <2>1
  <2>2. CASE k \notin ids BY <1>3, <2>2
  <2> QED BY <2>1, <2>2
<1>6. \A k \in InstanceID : \A j \in Made(k) : j \in Made(k)'
  <2> TAKE k \in InstanceID
  <2>1. CASE k \in ids BY <1>3, <1>4, <2>1
  <2>2. CASE k \notin ids BY <1>3, <2>2
  <2> QED BY <2>1, <2>2
<1>7. \A k \in InstanceID : Dropped(k) => Dropped(k)' BY <1>3, <1>6 DEF Dropped
<1>8. Executors' BY DEF TaskInv, Executors
<1>9. Past'
  <2>1. term \in Nat BY DEF Term
  <2> QED BY <1>2, <1>3, <1>5, <2>1 DEF TaskInv, Past
<1>10. Working' BY <1>2, <1>3, <1>5 DEF TaskInv, Working
<1>11. FoundAll' BY DEF FoundAll, Stale
<1>12. EveryDocumentResumed'
  <2> SUFFICES ASSUME NEW k \in documents PROVE active'[k] # 0 \/ Dropped(k)'
    BY DEF EveryDocumentResumed, Dropped
  <2>1. k \in InstanceID BY <1>1 DEF TypeOK
  <2>2. CASE k \in ids BY <1>3, <1>4, <2>2
  <2>3. CASE k \notin ids
    <3>1. state = "kRunning" BY <2>3
    <3>2. active[k] # 0 \/ Dropped(k) BY <3>1 DEF TaskInv, EveryDocumentResumed, Dropped
    <3> QED BY <1>3, <1>7, <2>1, <2>3, <3>2
  <2> QED BY <2>2, <2>3
<1>13. Overtaken'
  <2> SUFFICES ASSUME NEW k \in InstanceID, NEW j \in Made(k)',
                      instance'[k][j].term = term, instance'[k][j].document = "unwritten",
                      instance'[k][j].released = "deleted" \/ (j = active'[k] /\ k \in documents)
               PROVE  Dropped(k)'
    BY DEF Overtaken
  <2>1. CASE state = "kRebuilding"
    <3>1. j \in Made(k) /\ instance[k][j].term = term BY <1>2, <1>3, <1>5, <2>1
    <3> QED BY <2>1, <3>1 DEF TaskInv, Past, Term
  <2>2. CASE state = "kRunning" /\ j \in Made(k)
    <3>1. instance'[k][j] = instance[k][j] BY <1>3, <2>2
    <3>2. k \in ids => j # active'[k] BY <1>3, <1>4, <2>2
    <3>3. Dropped(k) BY <1>3, <2>2, <3>1, <3>2 DEF TaskInv, Overtaken
    <3> QED BY <1>7, <3>3
  <2>3. CASE state = "kRunning" /\ j \notin Made(k)
    <3>1. k \in ids /\ instance'[k][j] = n BY <1>5, <2>3
    <3>2. k \in documents /\ active[k] = 0 BY <1>2, <2>3, <3>1
    <3>3. Dropped(k) BY <2>3, <3>2 DEF TaskInv, EveryDocumentResumed, Dropped
    <3> QED BY <1>7, <3>3
  <2> QED BY <2>1, <2>2, <2>3
<1> QED BY <1>8, <1>9, <1>10, <1>11, <1>12, <1>13 DEF TaskInv

(* The end of _rebuildInstances keeps the invariant: what it found is still *)
(* all there is.                                                            *)
LEMMA RebuildInstancesTask ==
  ASSUME ServiceInv, TaskInv, NEW t \in Term, RebuildInstances(t)
  PROVE  TaskInv'
<1>1. rebuild[t] \in Rebuild BY DEF ServiceInv, TypeOK
<1>2. /\ rebuild[t].at = "found" /\ rebuild' = [rebuild EXCEPT ![t] = RebuildDone]
      /\ UNCHANGED <<term, created, executor, documents, stepUp, shutdown>>
  BY DEF RebuildInstances, threadVars
<1>3. CASE Stale(t)
  <2>1. UNCHANGED <<state, active, instance>> BY <1>3 DEF RebuildInstances
  <2>2. Chain(t, RebuildDone) BY <1>2, <2>1 DEF Chain, instanceVars, threadVars
  <2>3. RebuildDone \in Rebuild /\ RebuildDone.at # "found" BY RebuildStepType
  <2> QED BY <1>2, <2>1, <2>2, <2>3, ChainTask
<1>4. CASE ~Stale(t)
  <2>1. state = "kRebuilding" /\ term \in Term BY <1>4 DEF Stale
  <2>2. state' = "kRunning" /\ InsertNewInstances(rebuild[t].ids, "stored")
    BY <1>4 DEF RebuildInstances, SetState
  <2>3. rebuild[t].ids \in SUBSET InstanceID BY <1>1 DEF Rebuild
  <2>4. documents \subseteq rebuild[t].ids BY <1>2, <1>4 DEF TaskInv, FoundAll
  <2> QED BY <1>2, <2>1, <2>2, <2>3, <2>4, InsertTask
<1> QED BY <1>3, <1>4

(* getOrCreateInstance keeps the invariant.                                 *)
LEMMA GetOrCreateTask ==
  ASSUME ServiceInv, TaskInv, NEW id \in InstanceID, GetOrCreateInstance(id)
  PROVE  TaskInv'
<1>1. /\ state = "kRunning" /\ state' = "kRunning" /\ active[id] = 0
      /\ InsertNewInstances({id}, "unwritten")
      /\ UNCHANGED <<term, executor, documents, stepUp>>
  BY DEF GetOrCreateInstance, threadVars
<1>2. term \in Term BY <1>1 DEF ServiceInv, TypeOK, Threads, Term
<1>3. {id} \in SUBSET InstanceID /\ \A k \in {id} : active[k] = 0 BY <1>1
<1> QED BY <1>1, <1>2, <1>3, InsertTask

(* The waits of shutdown and of the clients change nothing the invariant is *)
(* about.                                                                   *)
LEMMA OthersTask ==
  ASSUME TaskInv, ShutdownThread \/ WaitForStateNotRebuilding \/ UNCHANGED vars
  PROVE  TaskInv'
<1>1. UNCHANGED <<state, term, active, instance, executor, rebuild, documents, stepUp>>
  BY DEF ShutdownThread, ShutdownJoins, ShutdownExecutor, EndShutdown, WaitForStateNotRebuilding,
         vars, serviceVars, instanceVars, threadVars
<1>2. Executors' /\ Past' /\ Working' /\ FoundAll'
  BY <1>1 DEF TaskInv, Executors, Past, Working, FoundAll, Stale
<1>3. Overtaken' /\ EveryDocumentResumed'
  BY <1>1 DEF TaskInv, Overtaken, EveryDocumentResumed, Dropped
<1> QED BY <1>2, <1>3 DEF TaskInv

--------------------
(* TaskInv is an invariant of the service.                                  *)
THEOREM TaskInvariant == Spec => []TaskInv
<1>1. Init => TaskInv
  <2> SUFFICES ASSUME Init PROVE TaskInv OBVIOUS
  <2>1. \A id \in InstanceID : Made(id) = {}
    <3> TAKE id \in InstanceID
    <3>1. instance[id] = <<>> BY DEF Init
    <3>2. Len(instance[id]) = 0 BY <3>1
    <3> QED BY <3>2
  <2>2. state = "kPaused" /\ \A t \in Term : executor[t] = "none" BY DEF Init
  <2> QED BY <2>1, <2>2 DEF TaskInv, Executors, Past, Working, FoundAll, Stale, Overtaken, EveryDocumentResumed
<1>2. ServiceInv /\ TaskInv /\ [Next]_vars => TaskInv'
  <2> SUFFICES ASSUME ServiceInv, TaskInv, [Next]_vars PROVE TaskInv' OBVIOUS
  <2>1. CASE OnStepUp BY <2>1, ServiceAssumption, StepUpTask
  <2>2. CASE StepUpThread BY <2>2, StepUpThreadTask
  <2>3. CASE OnStepDown \/ BeginShutdown BY <2>3, StopTask
  <2>4. CASE \E t \in Term : RebuildStep(t) BY <2>4, RebuildTask, RebuildInstancesTask
  <2>5. CASE \E id \in InstanceID : \E i \in Made(id) : InstanceStep(id, i) BY <2>5, InstanceKeeps
  <2>6. CASE \E id \in InstanceID : GetOrCreateInstance(id) BY <2>6, GetOrCreateTask
  <2>7. CASE \E id \in InstanceID : Replicated(id) BY <2>7, ReplicatedTask
  <2>8. CASE DropCollection BY <2>8, DropTask
  <2>9. CASE ShutdownThread \/ WaitForStateNotRebuilding \/ UNCHANGED vars BY <2>9, OthersTask
  <2> QED BY <2>1, <2>2, <2>3, <2>4, <2>5, <2>6, <2>7, <2>8, <2>9 DEF Next
<1> QED BY <1>1, <1>2, Invariant, PTL DEF Spec

(* A running service has an instance for every state document, whatever the *)
(* failovers, the writes of other nodes and the rebuilds that come too      *)
(* late, unless the collection was dropped under an instance of that id in  *)
(* this term.                                                               *)
THEOREM DocumentsResumed == Spec => []EveryDocumentResumed
<1>1. TaskInv => EveryDocumentResumed BY DEF TaskInv
<1> QED BY <1>1, TaskInvariant, PTL
====================
