--------------------- MODULE CapabilityContractsProofs ---------------------
(***************************************************************************)
(* Proofs about capability contracts, for any number of callers and        *)
(* contracts.  Between the two statements of an activation everything that *)
(* is active beside its contract is on the list that the second statement  *)
(* retires, unless another caller changed a status in between, which on    *)
(* SQLite the session's hold on the connection rules out.  An import       *)
(* keeps in force what it has gone through, since the rest of its image    *)
(* bears other names, and a governed request would read again what it has  *)
(* read.                                                                   *)
(***************************************************************************)
EXTENDS CapabilityContracts, FiniteSetTheorems, TLAPS

Pins == [agent: Contracts \cup {Unpinned}, tools: SUBSET Contracts]

Tasks == [kind: {"none", "activate", "sync", "grant", "record"},
          image: Seq(Contracts), todo: Seq(Contracts), activate: BOOLEAN,
          row: Contracts \cup {Unpinned}, retire: SUBSET Contracts,
          pins: Pins, against: Pins, moved: BOOLEAN]

Steps == {"idle", "retire", "set", "entry", "insert", "agent", "tools",
          "persist"}

ContractsTypeOK ==
    /\ engine \in {"postgres", "sqlite"}
    /\ status \in [Contracts -> {"none", "draft", "active", "retired"}]
    /\ task \in [Callers -> Tasks]
    /\ step \in [Callers -> Steps]

(* Where a caller can stand with its task. *)
StepFits(p) ==
    /\ step[p] \in {"entry", "insert"} => task[p].kind = "sync"
    /\ step[p] = "insert" => task[p].todo # <<>>
    /\ step[p] \in {"retire", "set"} =>
          /\ task[p].row \in Contracts
          /\ \/ task[p].kind = "activate"
             \/ /\ task[p].kind = "sync" /\ task[p].activate
                /\ task[p].todo # <<>>
    /\ step[p] \in {"agent", "tools", "persist"} =>
          task[p].kind \in {"grant", "record"}

(* Nothing beside the contract is active that the activation will not      *)
(* retire.                                                                 *)
ListComplete(p) ==
    step[p] = "set" /\ (engine = "sqlite" \/ ~task[p].moved) =>
       Others(task[p].row) \subseteq task[p].retire

(* On SQLite one activation at a time is between its statements.           *)
InSession == {"retire", "set"}
OneSession == engine = "sqlite" =>
                 \A p, q \in Callers :
                    step[p] \in InSession /\ step[q] \in InSession => p = q

ContractsInv ==
    /\ ContractsTypeOK
    /\ OneSession
    /\ \A p \in Callers : StepFits(p) /\ ListComplete(p)

-----------------------------------------------------------------------------
LEMMA NoTaskIsTask == NoTask \in Tasks
<1>1. <<>> \in Seq(Contracts)
  OBVIOUS
<1>2. NoPins \in Pins
  BY DEF NoPins, Pins
<1> QED BY <1>1, <1>2 DEF NoTask, Tasks

LEMMA InitContracts == ContractsInit => ContractsInv
BY NoTaskIsTask
   DEF ContractsInit, ContractsInv, ContractsTypeOK, StepFits, ListComplete, Steps,
       OneSession, InSession

(* A caller that does not move still has a complete list while no contract *)
(* becomes active.                                                         *)
LEMMA BystanderKeeps ==
    ASSUME NEW p \in Callers, StepFits(p), ListComplete(p),
           step'[p] = step[p], task'[p] = task[p], engine' = engine,
           \A c \in Contracts : status'[c] = "active" => status[c] = "active"
    PROVE  StepFits(p)' /\ ListComplete(p)'
<1>1. StepFits(p)'
  BY DEF StepFits
<1>2. \A c : Others(c)' \subseteq Others(c)
  BY DEF Others, Namesakes
<1>3. ListComplete(p)'
  BY <1>2 DEF ListComplete
<1> QED BY <1>1, <1>3

(* A caller beside one that changes a status either sees nothing change or *)
(* knows that it was disturbed.                                            *)
LEMMA ChangeKeepsOthers ==
    ASSUME ContractsInv, NEW p \in Callers, NEW mine \in Tasks, NEW new,
           Change(p, mine, new), NEW q \in Callers, q # p, step'[q] = step[q],
           engine' = engine, engine = "sqlite" => step[q] # "set"
    PROVE  StepFits(q)' /\ ListComplete(q)'
<1>1. CASE new = status
  <2>1. status' = status /\ task'[q] = task[q]
    BY <1>1 DEF Change
  <2> QED BY <2>1, BystanderKeeps DEF ContractsInv
<1>2. CASE new # status
  <2>1. task'[q] = [task[q] EXCEPT !.moved = Concerned(q)]
    BY <1>2 DEF Change
  <2>2. task[q] \in Tasks
    BY DEF ContractsInv, ContractsTypeOK
  <2>3. /\ task'[q].kind = task[q].kind /\ task'[q].todo = task[q].todo
        /\ task'[q].row = task[q].row /\ task'[q].activate = task[q].activate
        /\ task'[q].moved = Concerned(q)
    BY <2>1, <2>2 DEF Tasks
  <2>4. StepFits(q)'
    BY <2>3 DEF ContractsInv, StepFits
  <2>5. step[q] = "set" => Concerned(q)
    BY DEF ContractsInv, StepFits, Concerned
  <2>6. ListComplete(q)'
    BY <2>3, <2>5 DEF ListComplete
  <2> QED BY <2>4, <2>6
<1> QED BY <1>1, <1>2

(* The tasks keep their types through a change of status. *)
LEMMA ChangeKeepsTypes ==
    ASSUME ContractsTypeOK, NEW p \in Callers, NEW mine \in Tasks,
           NEW new \in [Contracts -> {"none", "draft", "active", "retired"}],
           Change(p, mine, new)
    PROVE  /\ status' \in [Contracts -> {"none", "draft", "active", "retired"}]
           /\ task' \in [Callers -> Tasks]
           /\ task'[p] = mine
<1>1. \A q \in Callers : Concerned(q) \in BOOLEAN
  BY DEF Concerned, ContractsTypeOK, Tasks
<1>2. \A q \in Callers : [task[q] EXCEPT !.moved = Concerned(q)] \in Tasks
  BY <1>1 DEF ContractsTypeOK, Tasks
<1> QED BY <1>2 DEF Change, ContractsTypeOK

(* A step that moves only its own caller and activates nothing. *)
LEMMA QuietStep ==
    ASSUME ContractsInv, NEW p \in Callers,
           NEW mine \in Tasks, NEW where \in Steps,
           task' = [task EXCEPT ![p] = mine], step' = [step EXCEPT ![p] = where],
           engine' = engine,
           status' \in [Contracts -> {"none", "draft", "active", "retired"}],
           \A c \in Contracts : status'[c] = "active" => status[c] = "active",
           where \in InSession => step[p] \in InSession \/ SessionFree(p),
           StepFits(p)', ListComplete(p)'
    PROVE  ContractsInv'
<1>1. ContractsTypeOK'
  BY DEF ContractsInv, ContractsTypeOK
<1>2. ASSUME NEW q \in Callers, q # p PROVE StepFits(q)' /\ ListComplete(q)'
  <2>1. step'[q] = step[q] /\ task'[q] = task[q]
    BY <1>2 DEF ContractsInv, ContractsTypeOK
  <2> QED BY <2>1, BystanderKeeps DEF ContractsInv
<1>3. OneSession'
  BY DEF ContractsInv, ContractsTypeOK, OneSession, SessionFree, InSession
<1> QED BY <1>1, <1>2, <1>3 DEF ContractsInv

(* The same for a step that only reads the statuses. *)
LEMMA ReadingStep ==
    ASSUME ContractsInv, NEW p \in Callers,
           NEW mine \in Tasks, NEW where \in Steps \ {"set"},
           task' = [task EXCEPT ![p] = mine], step' = [step EXCEPT ![p] = where],
           UNCHANGED <<engine, status>>,
           where \in {"entry", "insert"} => mine.kind = "sync",
           where = "insert" => mine.todo # <<>>,
           where = "retire" =>
              /\ SessionFree(p)
              /\ mine.row \in Contracts
              /\ \/ mine.kind = "activate"
                 \/ mine.kind = "sync" /\ mine.activate /\ mine.todo # <<>>,
           where \in {"agent", "tools", "persist"} => mine.kind \in {"grant", "record"}
    PROVE  ContractsInv'
<1>1. task'[p] = mine /\ step'[p] = where
  BY DEF ContractsInv, ContractsTypeOK
<1>2. StepFits(p)' /\ ListComplete(p)'
  BY <1>1 DEF StepFits, ListComplete
<1>3. status' \in [Contracts -> {"none", "draft", "active", "retired"}]
  BY DEF ContractsInv, ContractsTypeOK
<1> QED BY <1>2, <1>3, QuietStep DEF InSession

(* A caller that finishes forgets its task. *)
LEMMA DoneKeeps ==
    ASSUME ContractsInv, NEW p \in Callers, Done(p), UNCHANGED <<engine, status>>
    PROVE  ContractsInv'
BY NoTaskIsTask, ReadingStep DEF Done, Proceed, Steps

(* Requests begin: an operator's activation, an import, a governed request. *)
LEMMA RequestsKeep ==
    ASSUME ContractsInv, NEW p \in Callers,
           RequestActivation(p) \/ RequestSync(p) \/ RequestGrant(p)
    PROVE  ContractsInv'
<1>1. CASE RequestActivation(p)
  <2>1. PICK c \in Contracts :
           task' = [task EXCEPT ![p] = [NoTask EXCEPT !.kind = "activate",
                                                     !.row = c]]
    BY <1>1 DEF RequestActivation
  <2> DEFINE mine == [NoTask EXCEPT !.kind = "activate", !.row = c]
  <2>2. mine \in Tasks /\ mine.row = c /\ mine.kind = "activate"
    BY NoTaskIsTask DEF Tasks, NoTask
  <2>3. /\ step' = [step EXCEPT ![p] = "retire"] /\ UNCHANGED <<engine, status>>
        /\ SessionFree(p)
    BY <1>1 DEF RequestActivation, Proceed
  <2> QED BY <2>1, <2>2, <2>3, ReadingStep DEF Steps
<1>2. CASE RequestSync(p)
  <2>1. PICK image \in Images, activate \in BOOLEAN :
           task' = [task EXCEPT ![p] = [NoTask EXCEPT !.kind = "sync",
                          !.image = IF activate THEN image ELSE <<>>,
                          !.todo = image, !.activate = activate]]
    BY <1>2 DEF RequestSync
  <2> DEFINE mine == [NoTask EXCEPT !.kind = "sync",
                          !.image = IF activate THEN image ELSE <<>>,
                          !.todo = image, !.activate = activate]
  <2>2. mine \in Tasks /\ mine.kind = "sync"
    <3>1. image \in Seq(Contracts) /\ <<>> \in Seq(Contracts)
      BY ContractAssumption
    <3> QED BY <3>1, NoTaskIsTask DEF Tasks, NoTask
  <2>3. step' = [step EXCEPT ![p] = "entry"] /\ UNCHANGED <<engine, status>>
    BY <1>2 DEF RequestSync, Proceed
  <2> QED BY <2>1, <2>2, <2>3, ReadingStep DEF Steps
<1>3. CASE RequestGrant(p)
  <2>1. PICK pins \in EarlierPins :
           task' = [task EXCEPT ![p] = [NoTask EXCEPT !.kind = "grant",
                                                     !.against = pins]]
    BY <1>3 DEF RequestGrant
  <2> DEFINE mine == [NoTask EXCEPT !.kind = "grant", !.against = pins]
  <2>2. pins \in Pins
    BY DEF EarlierPins, Pins
  <2>3. mine \in Tasks /\ mine.kind = "grant"
    BY <2>2, NoTaskIsTask DEF Tasks, NoTask
  <2>4. step' = [step EXCEPT ![p] = "agent"] /\ UNCHANGED <<engine, status>>
    BY <1>3 DEF RequestGrant, Proceed
  <2> QED BY <2>1, <2>3, <2>4, ReadingStep DEF Steps
<1> QED BY <1>1, <1>2, <1>3

(* The first statement lists all that is active beside the contract.       *)
LEMMA RetireOthersKeeps ==
    ASSUME ContractsInv, NEW p \in Callers, RetireOthers(p)
    PROVE  ContractsInv'
<1> DEFINE mine == [task[p] EXCEPT !.retire = Others(task[p].row)]
<1>1. /\ task' = [task EXCEPT ![p] = mine] /\ step' = [step EXCEPT ![p] = "set"]
      /\ step[p] = "retire" /\ engine' = engine /\ status' = status
  BY DEF RetireOthers, Proceed, ContractsInv, ContractsTypeOK
<1>2. task[p] \in Tasks
  BY DEF ContractsInv, ContractsTypeOK
<1>3. Others(task[p].row) \subseteq Contracts
  BY DEF Others, Namesakes
<1>4. /\ mine \in Tasks /\ mine.row = task[p].row /\ mine.kind = task[p].kind
      /\ mine.activate = task[p].activate /\ mine.todo = task[p].todo
      /\ mine.retire = Others(task[p].row)
  BY <1>2, <1>3 DEF Tasks
<1>5. task'[p] = mine /\ step'[p] = "set"
  BY <1>1 DEF ContractsInv, ContractsTypeOK
<1>6. StepFits(p)'
  BY <1>1, <1>4, <1>5 DEF ContractsInv, StepFits
<1>7. ListComplete(p)'
  <2>1. \A c : Others(c)' = Others(c)
    BY <1>1 DEF Others, Namesakes
  <2> QED BY <1>4, <1>5, <2>1 DEF ListComplete
<1>8. status' \in [Contracts -> {"none", "draft", "active", "retired"}]
  BY <1>1 DEF ContractsInv, ContractsTypeOK
<1> QED BY <1>1, <1>4, <1>6, <1>7, <1>8, QuietStep DEF Steps, InSession

(* An entry that is found, or was just inserted as a draft, is activated   *)
(* or passed over.                                                         *)
LEMMA AfterEntryKeeps ==
    ASSUME ContractsInv, NEW p \in Callers, NEW found, AfterEntry(p, found),
           step[p] \in {"entry", "insert"}, task[p].todo # <<>>,
           engine' = engine, SessionFree(p),
           status' \in [Contracts -> {"none", "draft", "active", "retired"}],
           \A c \in Contracts : status'[c] = "active" => status[c] = "active"
    PROVE  ContractsInv'
<1>1. /\ task[p] \in Tasks /\ task[p].kind = "sync"
      /\ Head(task[p].todo) \in Contracts /\ Tail(task[p].todo) \in Seq(Contracts)
  BY DEF ContractsInv, ContractsTypeOK, StepFits, Tasks
<1>2. CASE WillActivate(p, found)
  <2> DEFINE mine == [task[p] EXCEPT !.row = Head(task[p].todo)]
  <2>1. /\ task' = [task EXCEPT ![p] = mine]
        /\ step' = [step EXCEPT ![p] = "retire"]
    BY <1>2 DEF AfterEntry, Proceed, ContractsInv, ContractsTypeOK
  <2>2. /\ mine \in Tasks /\ mine.row \in Contracts /\ mine.kind = "sync"
        /\ mine.activate /\ mine.todo # <<>>
    BY <1>1, <1>2 DEF Tasks, WillActivate
  <2>3. task'[p] = mine /\ step'[p] = "retire"
    BY <2>1 DEF ContractsInv, ContractsTypeOK
  <2>4. StepFits(p)' /\ ListComplete(p)'
    BY <2>2, <2>3 DEF StepFits, ListComplete
  <2> QED BY <2>1, <2>2, <2>4, QuietStep DEF Steps
<1>3. CASE ~WillActivate(p, found)
  <2> DEFINE mine == [task[p] EXCEPT !.todo = Tail(@)]
  <2>1. /\ task' = [task EXCEPT ![p] = mine]
        /\ step' = [step EXCEPT ![p] = "entry"]
    BY <1>3 DEF AfterEntry, Proceed, ContractsInv, ContractsTypeOK
  <2>2. mine \in Tasks /\ mine.kind = "sync"
    BY <1>1 DEF Tasks
  <2>3. task'[p] = mine /\ step'[p] = "entry"
    BY <2>1 DEF ContractsInv, ContractsTypeOK
  <2>4. StepFits(p)' /\ ListComplete(p)'
    BY <2>2, <2>3 DEF StepFits, ListComplete
  <2> QED BY <2>1, <2>2, <2>4, QuietStep DEF Steps
<1> QED BY <1>2, <1>3

(* The import looks an entry up and inserts it when it is not there.       *)
LEMMA EntryStepsKeep ==
    ASSUME ContractsInv, NEW p \in Callers, LookUpEntry(p) \/ InsertEntry(p)
    PROVE  ContractsInv'
<1>1. status \in [Contracts -> {"none", "draft", "active", "retired"}]
  BY DEF ContractsInv, ContractsTypeOK
<1>2. CASE LookUpEntry(p)
  <2>1. /\ step[p] = "entry" /\ task[p].todo # <<>> /\ UNCHANGED <<engine, status>>
        /\ SessionFree(p)
    BY <1>2 DEF LookUpEntry
  <2>2. CASE AfterEntry(p, status[Head(task[p].todo)])
    BY <1>1, <2>1, <2>2, AfterEntryKeeps
  <2>3. CASE Proceed(p, "insert") /\ UNCHANGED task
    <3>1. task' = [task EXCEPT ![p] = task[p]] /\ task[p] \in Tasks
      BY <2>3 DEF ContractsInv, ContractsTypeOK
    <3>2. task[p].kind = "sync"
      BY <2>1 DEF ContractsInv, StepFits
    <3> QED BY <2>1, <2>3, <3>1, <3>2, ReadingStep DEF Proceed, Steps
  <2> QED BY <1>2, <2>2, <2>3 DEF LookUpEntry
<1>3. CASE InsertEntry(p)
  <2>1. /\ step[p] = "insert" /\ task[p].todo # <<>> /\ engine' = engine
        /\ SessionFree(p)
    BY <1>3 DEF InsertEntry, ContractsInv, StepFits
  <2>2. CASE /\ AfterEntry(p, "draft")
             /\ status' = [status EXCEPT ![Head(task[p].todo)] = "draft"]
    <3>1. /\ status' \in [Contracts -> {"none", "draft", "active", "retired"}]
          /\ \A c \in Contracts : status'[c] = "active" => status[c] = "active"
      BY <1>1, <2>2
    <3> QED BY <2>1, <2>2, <3>1, AfterEntryKeeps
  <2>3. CASE Done(p) /\ UNCHANGED status
    BY <2>1, <2>3, DoneKeeps
  <2> QED BY <1>3, <2>2, <2>3 DEF InsertEntry
<1> QED BY <1>2, <1>3

(* A governed request reads the agent's contract, then the tools, and      *)
(* records the decision.                                                   *)
LEMMA PinStepsKeep ==
    ASSUME ContractsInv, NEW p \in Callers,
           ReadAgent(p) \/ ReadTools(p) \/ Persist(p) \/ EndSync(p)
    PROVE  ContractsInv'
<1>1. task[p] \in Tasks
  BY DEF ContractsInv, ContractsTypeOK
<1>2. CASE ReadAgent(p)
  <2>1. PICK c \in ActiveAgent(p) : task' = [task EXCEPT ![p].pins.agent = c]
    BY <1>2 DEF ReadAgent
  <2> DEFINE mine == [task[p] EXCEPT !.pins.agent = c]
  <2>2. c \in Contracts \cup {Unpinned}
    BY DEF ActiveAgent, ActiveRows
  <2>3. mine \in Tasks /\ mine.kind = task[p].kind
    BY <1>1, <2>2 DEF Tasks, Pins
  <2>4. task' = [task EXCEPT ![p] = mine]
    BY <2>1 DEF ContractsInv, ContractsTypeOK
  <2>5. /\ step[p] = "agent" /\ step' = [step EXCEPT ![p] = "tools"]
        /\ UNCHANGED <<engine, status>>
    BY <1>2 DEF ReadAgent, Proceed
  <2>6. mine.kind \in {"grant", "record"}
    BY <2>3, <2>5 DEF ContractsInv, StepFits
  <2> QED BY <2>3, <2>4, <2>5, <2>6, ReadingStep DEF Steps
<1>3. CASE ReadTools(p)
  <2>1. PICK S \in Selections(AgentTools(p)) :
          LET pins == [task[p].pins EXCEPT !.tools = S]
          IN \/ Done(p)
             \/ /\ task' = [task EXCEPT ![p].kind = "record",
                                        ![p].pins = NoPins,
                                        ![p].against = pins]
                /\ Proceed(p, "agent")
             \/ /\ task[p].kind = "record"
                /\ task' = [task EXCEPT ![p].pins = pins]
                /\ Proceed(p, "persist")
    BY <1>3 DEF ReadTools
  <2> DEFINE pins == [task[p].pins EXCEPT !.tools = S]
  <2>2. pins \in Pins /\ NoPins \in Pins
    BY <1>1 DEF Selections, Tasks, Pins, NoPins
  <2>3. UNCHANGED <<engine, status>>
    BY <1>3 DEF ReadTools
  <2>4. CASE Done(p)
    BY <2>3, <2>4, DoneKeeps
  <2>5. CASE /\ task' = [task EXCEPT ![p].kind = "record", ![p].pins = NoPins,
                                     ![p].against = pins]
             /\ Proceed(p, "agent")
    <3> DEFINE mine == [task[p] EXCEPT !.kind = "record", !.pins = NoPins,
                                       !.against = pins]
    <3>1. mine \in Tasks /\ mine.kind = "record"
      BY <1>1, <2>2 DEF Tasks
    <3>2. task' = [task EXCEPT ![p] = mine]
      BY <2>5 DEF ContractsInv, ContractsTypeOK
    <3> QED BY <2>3, <2>5, <3>1, <3>2, ReadingStep DEF Proceed, Steps
  <2>6. CASE /\ task[p].kind = "record"
             /\ task' = [task EXCEPT ![p].pins = pins]
             /\ Proceed(p, "persist")
    <3> DEFINE mine == [task[p] EXCEPT !.pins = pins]
    <3>1. mine \in Tasks /\ mine.kind = "record"
      BY <1>1, <2>2, <2>6 DEF Tasks
    <3>2. task' = [task EXCEPT ![p] = mine]
      BY <2>6 DEF ContractsInv, ContractsTypeOK
    <3> QED BY <2>3, <2>6, <3>1, <3>2, ReadingStep DEF Proceed, Steps
  <2> QED BY <2>1, <2>4, <2>5, <2>6
<1>4. CASE Persist(p) \/ EndSync(p)
  BY <1>4, DoneKeeps DEF Persist, EndSync
<1> QED BY <1>2, <1>3, <1>4

-----------------------------------------------------------------------------
(* Steps that change a status: the second statement of an activation, a    *)
(* retirement, and on SQLite a session that fails half-way.                *)
LEMMA ChangeKeeps ==
    ASSUME ContractsInv, NEW p \in Callers, NEW mine \in Tasks,
           NEW new \in [Contracts -> {"none", "draft", "active", "retired"}],
           Change(p, mine, new), NEW where \in {"idle", "entry"},
           step' = [step EXCEPT ![p] = where], engine' = engine,
           where = "entry" => mine.kind = "sync",
           SessionFree(p) \/ step[p] = "set"
    PROVE  ContractsInv'
<1>1. ContractsTypeOK' /\ task'[p] = mine /\ step'[p] = where
  BY ChangeKeepsTypes DEF ContractsInv, ContractsTypeOK, Steps
<1>2. StepFits(p)' /\ ListComplete(p)'
  BY <1>1 DEF StepFits, ListComplete
<1>3. ASSUME NEW q \in Callers, q # p PROVE StepFits(q)' /\ ListComplete(q)'
  <2>1. step'[q] = step[q]
    BY <1>3 DEF ContractsInv, ContractsTypeOK
  <2>2. engine = "sqlite" => step[q] # "set"
    BY <1>3 DEF ContractsInv, OneSession, SessionFree, InSession
  <2> QED BY <1>3, <2>1, <2>2, ChangeKeepsOthers
<1>4. OneSession'
  BY DEF ContractsInv, ContractsTypeOK, OneSession, InSession
<1> QED BY <1>1, <1>2, <1>3, <1>4 DEF ContractsInv

LEMMA RetiringTyped ==
    ASSUME ContractsInv, NEW p \in Callers
    PROVE  Retiring(p) \in [Contracts -> {"none", "draft", "active", "retired"}]
BY DEF Retiring, ContractsInv, ContractsTypeOK

LEMMA SetActiveKeeps ==
    ASSUME ContractsInv, NEW p \in Callers, SetActive(p)
    PROVE  ContractsInv'
<1> DEFINE mine == IF task[p].kind = "sync"
                   THEN [task[p] EXCEPT !.todo = Tail(@), !.retire = {}]
                   ELSE NoTask
           new == [Retiring(p) EXCEPT ![task[p].row] = "active"]
           where == IF task[p].kind = "sync" THEN "entry" ELSE "idle"
<1>1. /\ step[p] = "set" /\ Change(p, mine, new) /\ engine' = engine
      /\ step' = [step EXCEPT ![p] = where]
  BY DEF SetActive, Proceed
<1>2. task[p] \in Tasks
  BY DEF ContractsInv, ContractsTypeOK
<1>3. task[p].kind = "sync" => task[p].todo # <<>>
  BY <1>1 DEF ContractsInv, StepFits
<1>4. mine \in Tasks
  <2>1. CASE task[p].kind = "sync"
    <3>1. Tail(task[p].todo) \in Seq(Contracts)
      BY <1>2, <1>3, <2>1 DEF Tasks
    <3> QED BY <1>2, <2>1, <3>1 DEF Tasks
  <2>2. CASE task[p].kind # "sync"
    BY <2>2, NoTaskIsTask
  <2> QED BY <2>1, <2>2
<1>5. task[p].kind = "sync" => mine.kind = "sync"
  BY <1>2 DEF Tasks
<1>6. new \in [Contracts -> {"none", "draft", "active", "retired"}]
  BY RetiringTyped
<1> HIDE DEF mine, new
<1>7. CASE task[p].kind = "sync"
  BY <1>1, <1>4, <1>5, <1>6, <1>7, ChangeKeeps
<1>8. CASE task[p].kind # "sync"
  BY <1>1, <1>4, <1>6, <1>8, ChangeKeeps
<1> QED BY <1>7, <1>8

LEMMA RetireRowKeeps ==
    ASSUME ContractsInv, NEW p \in Callers, RetireRow(p)
    PROVE  ContractsInv'
<1>1. PICK c \in Contracts : Change(p, NoTask, [status EXCEPT ![c] = "retired"])
  BY DEF RetireRow
<1>2. /\ step[p] = "idle" /\ step' = [step EXCEPT ![p] = "idle"]
      /\ engine' = engine /\ SessionFree(p)
  BY DEF RetireRow, ContractsInv, ContractsTypeOK
<1>3. [status EXCEPT ![c] = "retired"]
        \in [Contracts -> {"none", "draft", "active", "retired"}]
  BY DEF ContractsInv, ContractsTypeOK
<1> QED BY <1>1, <1>2, <1>3, NoTaskIsTask, ChangeKeeps

LEMMA StoreFailsKeeps ==
    ASSUME ContractsInv, NEW p \in Callers, StoreFails(p)
    PROVE  ContractsInv'
<1>1. CASE Done(p) /\ UNCHANGED status
  BY <1>1, DoneKeeps DEF StoreFails
<1>2. CASE step[p] = "set" /\ Change(p, NoTask, Retiring(p)) /\ Proceed(p, "idle")
  BY <1>2, NoTaskIsTask, RetiringTyped, ChangeKeeps DEF StoreFails, Proceed
<1> QED BY <1>1, <1>2 DEF StoreFails

LEMMA ContractsInvariant == ContractsSpec => []ContractsInv
<1>1. ASSUME ContractsInv, [ContractsNext]_contractVars PROVE ContractsInv'
  <2>1. ASSUME NEW p \in Callers, Ask(p) \/ Work(p) \/ StoreFails(p)
        PROVE  ContractsInv'
    BY <1>1, <2>1, RequestsKeep, RetireOthersKeeps, EntryStepsKeep, PinStepsKeep,
       SetActiveKeeps, RetireRowKeeps, StoreFailsKeeps DEF Ask, Work
  <2>2. CASE UNCHANGED contractVars
    BY <1>1, <2>2 DEF ContractsInv, ContractsTypeOK, StepFits, ListComplete,
                      OneSession, Others, Namesakes, contractVars
  <2> QED BY <1>1, <2>1, <2>2 DEF ContractsNext
<1> QED BY InitContracts, <1>1, PTL DEF ContractsSpec

(* An activation leaves its contract alone in force, whatever was active   *)
(* before, on SQLite always and on PostgreSQL when nobody disturbed it     *)
(* (set_capability_contract_status).                                       *)
THEOREM ActivationDecides == ContractsSpec => LoneActivationDecides
<1>1. ASSUME ContractsInv, NEW p \in Callers, SetActive(p),
             engine = "sqlite" \/ ~task[p].moved
      PROVE  LET c == task[p].row
             IN {d \in Contracts : NameOf[d] = NameOf[c] /\ status'[d] = "active"}
                  = {c}
  <2> DEFINE c == task[p].row
  <2>1. /\ c \in Contracts /\ step[p] = "set"
        /\ status' = [Retiring(p) EXCEPT ![c] = "active"]
    BY <1>1 DEF SetActive, Change, ContractsInv, StepFits
  <2>2. Others(c) \subseteq task[p].retire
    BY <1>1, <2>1 DEF ContractsInv, ListComplete
  <2>3. status'[c] = "active"
    BY <2>1 DEF Retiring
  <2>4. ASSUME NEW d \in Contracts, NameOf[d] = NameOf[c], d # c
        PROVE  status'[d] # "active"
    <3>1. status'[d] = IF d \in task[p].retire /\ status[d] = "active"
                       THEN "retired" ELSE status[d]
      BY <2>1, <2>4 DEF Retiring
    <3>2. status[d] = "active" => d \in task[p].retire
      BY <2>2, <2>4 DEF Others, Namesakes
    <3> QED BY <3>1, <3>2
  <2> QED BY <2>1, <2>3, <2>4
<1>2. ASSUME ContractsInv, [ContractsNext]_contractVars
      PROVE  [\A p \in Callers :
                SetActive(p) /\ (engine = "sqlite" \/ ~task[p].moved) =>
                  LET c == task[p].row
                  IN {d \in Contracts : NameOf[d] = NameOf[c]
                                        /\ status'[d] = "active"} = {c}]_contractVars
  BY <1>1, <1>2
<1> QED BY ContractsInvariant, <1>2, PTL DEF ContractsSpec, LoneActivationDecides

-----------------------------------------------------------------------------
(* What an import and a governed request rely on: that the contracts they  *)
(* have dealt with, or read, stay in force as they are.                    *)
SameInForce == \A c \in Contracts : status'[c] = "active" <=> status[c] = "active"

(* What an import has gone through is in force, what is left is the rest   *)
(* of its image, and what it retires next is not part of it.               *)
LeftOf(todo, image) ==
    /\ image \in Images /\ Len(todo) <= Len(image)
    /\ \A i \in 1..Len(todo) : todo[i] = image[(Len(image) - Len(todo)) + i]

Through(s, image, todo) ==
    \A i \in 1..(Len(image) - Len(todo)) : s[image[i]] = "active"

SyncFits(p) ==
    task[p].kind = "sync" /\ task[p].activate =>
      /\ LeftOf(task[p].todo, task[p].image)
      /\ step[p] \in {"retire", "set"} => task[p].row = task[p].todo[1]
      /\ step[p] = "set" => task[p].retire \subseteq Namesakes(task[p].row)
      /\ ~task[p].moved => Through(status, task[p].image, task[p].todo)

OneInForce == \A c, d \in Contracts :
                 /\ status[c] = "active" /\ status[d] = "active"
                 /\ NameOf[c] = NameOf[d]
                 => c = d

ToolsInForce(a) ==
    {c \in Contracts : status[c] = "active" /\
       NameOf[c] \in (IF a = Unpinned \/ ToolsOf[a] = {} THEN ToolNames
                      ELSE ToolsOf[a])}

InForce(pins) == /\ pins.agent \in ActiveAgent(pins)
                 /\ pins.tools = ToolsInForce(pins.agent)

(* What a governed request has read, it would read again. *)
GrantFits(p) ==
    /\ step[p] = "persist" => task[p].kind = "record"
    /\ task[p].kind \in {"grant", "record"} /\ ~task[p].moved /\ OneInForce =>
          /\ step[p] = "tools" => task[p].pins.agent \in ActiveAgent(p)
          /\ task[p].kind = "record" => InForce(task[p].against)
          /\ step[p] = "persist" => task[p].pins = task[p].against

Moves(p) == Ask(p) \/ Work(p) \/ StoreFails(p)

-----------------------------------------------------------------------------
(* Another caller's step leaves a task alone and what is in force as it    *)
(* is, or it marks the task.                                               *)
Undisturbed(q) == task'[q] = task[q] /\ SameInForce
Marked(q) == /\ task'[q] = [task[q] EXCEPT !.moved = Concerned(q)]

LEMMA OneTaskMoves ==
    ASSUME ContractsInv, NEW p \in Callers, NEW mine, NEW where,
           task' = [task EXCEPT ![p] = mine], step' = [step EXCEPT ![p] = where],
           SameInForce, NEW q \in Callers, q # p
    PROVE  step'[q] = step[q] /\ Undisturbed(q)
BY DEF ContractsInv, ContractsTypeOK, Undisturbed

LEMMA ChangeIsSeen ==
    ASSUME ContractsInv, NEW p \in Callers, NEW mine, NEW new, Change(p, mine, new),
           NEW where, step' = [step EXCEPT ![p] = where], NEW q \in Callers, q # p
    PROVE  step'[q] = step[q] /\ (Undisturbed(q) \/ Marked(q))
<1>1. step'[q] = step[q]
  BY DEF ContractsInv, ContractsTypeOK
<1>2. CASE new = status
  <2>1. task'[q] = task[q] /\ status' = status
    BY <1>2 DEF Change
  <2> QED BY <1>1, <2>1 DEF Undisturbed, SameInForce
<1>3. CASE new # status
  <2>1. task'[q] = [task[q] EXCEPT !.moved = Concerned(q)]
    BY <1>3 DEF Change
  <2> QED BY <1>1, <2>1 DEF Marked
<1> QED BY <1>2, <1>3

LEMMA OthersSee ==
    ASSUME ContractsInv, NEW p \in Callers, Moves(p), NEW q \in Callers, q # p
    PROVE  step'[q] = step[q] /\ (Undisturbed(q) \/ Marked(q))
<1>1. \A r \in Callers : task = [task EXCEPT ![r] = task[r]]
  BY DEF ContractsInv, ContractsTypeOK
<1>2. \A r \in Callers : step = [step EXCEPT ![r] = step[r]]
  BY DEF ContractsInv, ContractsTypeOK
<1>3. status' = status => SameInForce
  BY DEF SameInForce
<1>4. CASE Done(p) /\ UNCHANGED status
  BY <1>3, <1>4, OneTaskMoves DEF Done, Proceed
<1>5. CASE RequestActivation(p) \/ RequestSync(p) \/ RequestGrant(p)
  <2>1. PICK mine, where : /\ task' = [task EXCEPT ![p] = mine]
                          /\ step' = [step EXCEPT ![p] = where]
                          /\ status' = status
    BY <1>5 DEF RequestActivation, RequestSync, RequestGrant, Proceed
  <2> QED BY <1>3, <2>1, OneTaskMoves
<1>6. CASE RetireOthers(p)
  <2>1. PICK mine, where : /\ task' = [task EXCEPT ![p] = mine]
                          /\ step' = [step EXCEPT ![p] = where]
                          /\ status' = status
    BY <1>6 DEF RetireOthers, Proceed
  <2> QED BY <1>3, <2>1, OneTaskMoves
<1>7. CASE ReadAgent(p)
  <2>1. PICK mine, where : /\ task' = [task EXCEPT ![p] = mine]
                          /\ step' = [step EXCEPT ![p] = where]
                          /\ status' = status
    BY <1>7 DEF ReadAgent, Proceed
  <2> QED BY <1>3, <2>1, OneTaskMoves
<1>8. CASE ReadTools(p)
  <2>1. PICK mine, where : /\ task' = [task EXCEPT ![p] = mine]
                          /\ step' = [step EXCEPT ![p] = where]
                          /\ status' = status
    BY <1>8 DEF ReadTools, Done, Proceed
  <2> QED BY <1>3, <2>1, OneTaskMoves
<1>9. CASE EndSync(p) \/ Persist(p)
  BY <1>4, <1>9 DEF EndSync, Persist
<1>10. ASSUME NEW seen, AfterEntry(p, seen), SameInForce
       PROVE  step'[q] = step[q] /\ Undisturbed(q)
  <2>1. PICK mine, where : /\ task' = [task EXCEPT ![p] = mine]
                          /\ step' = [step EXCEPT ![p] = where]
    BY <1>10 DEF AfterEntry, Proceed
  <2> QED BY <1>10, <2>1, OneTaskMoves
<1>11. CASE LookUpEntry(p)
  <2>1. status' = status /\ SameInForce
    BY <1>3, <1>11 DEF LookUpEntry
  <2>2. CASE AfterEntry(p, status[Head(task[p].todo)])
    BY <1>10, <2>1, <2>2
  <2>3. CASE Proceed(p, "insert") /\ UNCHANGED task
    BY <1>1, <2>1, <2>3, OneTaskMoves DEF Proceed
  <2> QED BY <1>11, <2>2, <2>3 DEF LookUpEntry
<1>12. CASE InsertEntry(p)
  <2>1. CASE /\ status[Head(task[p].todo)] = "none"
             /\ AfterEntry(p, "draft")
             /\ status' = [status EXCEPT ![Head(task[p].todo)] = "draft"]
    <3>1. SameInForce
      BY <2>1 DEF SameInForce, ContractsInv, ContractsTypeOK
    <3> QED BY <1>10, <2>1, <3>1
  <2>2. CASE Done(p) /\ UNCHANGED status
    BY <1>4, <2>2
  <2> QED BY <1>12, <2>1, <2>2 DEF InsertEntry
<1>13. CASE SetActive(p)
  <2>1. PICK mine, new, where :
           Change(p, mine, new) /\ step' = [step EXCEPT ![p] = where]
    BY <1>13 DEF SetActive, Proceed
  <2> QED BY <2>1, ChangeIsSeen
<1>14. CASE RetireRow(p)
  <2>1. PICK mine, new : Change(p, mine, new) /\ step' = step
    BY <1>14 DEF RetireRow
  <2> QED BY <1>2, <2>1, ChangeIsSeen
<1>15. CASE StoreFails(p)
  <2>1. CASE \E new : Change(p, NoTask, new) /\ Proceed(p, "idle")
    BY <2>1, ChangeIsSeen DEF Proceed
  <2>2. CASE Done(p) /\ UNCHANGED status
    BY <1>4, <2>2
  <2> QED BY <1>15, <2>1, <2>2 DEF StoreFails
<1> QED BY <1>5, <1>6, <1>7, <1>8, <1>9, <1>11, <1>12, <1>13, <1>14, <1>15
        DEF Moves, Ask, Work

-----------------------------------------------------------------------------
(* Imports *)
LEMMA ImportFacts ==
    ASSUME ContractsInv, NEW p \in Callers, SyncFits(p), task[p].kind = "sync",
           task[p].activate
    PROVE  /\ task[p].image \in Images /\ task[p].image \in Seq(Contracts)
           /\ task[p].todo \in Seq(Contracts)
           /\ Len(task[p].image) \in Nat /\ Len(task[p].todo) \in Nat
           /\ Len(task[p].todo) <= Len(task[p].image)
           /\ \A i \in 1..Len(task[p].image) : task[p].image[i] \in Contracts
           /\ \A i, j \in 1..Len(task[p].image) :
                NameOf[task[p].image[i]] = NameOf[task[p].image[j]] => i = j
<1>1. task[p].todo \in Seq(Contracts) /\ task[p].image \in Images
  BY DEF ContractsInv, ContractsTypeOK, Tasks, SyncFits, LeftOf
<1>2. task[p].image \in Seq(Contracts)
  BY <1>1, ContractAssumption
<1>3. DOMAIN task[p].image = 1..Len(task[p].image)
  BY <1>2
<1>4. Len(task[p].image) \in Nat /\ Len(task[p].todo) \in Nat
  BY <1>1, <1>2
<1>5. Len(task[p].todo) <= Len(task[p].image)
  BY DEF SyncFits, LeftOf
<1>6. \A i \in 1..Len(task[p].image) : task[p].image[i] \in Contracts
  BY <1>2
<1>7. \A i, j \in 1..Len(task[p].image) :
         NameOf[task[p].image[i]] = NameOf[task[p].image[j]] => i = j
  BY <1>1, <1>3, ContractAssumption
<1> QED BY <1>1, <1>2, <1>4, <1>5, <1>6, <1>7

LEMMA OtherImports ==
    ASSUME ContractsInv, NEW q \in Callers, SyncFits(q), step'[q] = step[q],
           Undisturbed(q) \/ Marked(q)
    PROVE  SyncFits(q)'
<1>1. \A c : Namesakes(c)' = Namesakes(c)
  BY DEF Namesakes
<1>2. CASE Undisturbed(q)
  <2>1. task'[q] = task[q] /\ SameInForce
    BY <1>2 DEF Undisturbed
  <2>2. SUFFICES ASSUME task[q].kind = "sync", task[q].activate PROVE SyncFits(q)'
    BY <2>1 DEF SyncFits
  <2>3. /\ Len(task[q].image) \in Nat /\ Len(task[q].todo) \in Nat
        /\ \A i \in 1..Len(task[q].image) : task[q].image[i] \in Contracts
    BY <2>2, ImportFacts
  <2>4. ASSUME Through(status, task[q].image, task[q].todo)
        PROVE  Through(status', task[q].image, task[q].todo)
    <3>1. ASSUME NEW i \in 1..(Len(task[q].image) - Len(task[q].todo))
          PROVE  status'[task[q].image[i]] = "active"
      <4>1. status[task[q].image[i]] = "active"
        BY <2>4 DEF Through
      <4>2. PICK n, k \in Nat : n = Len(task[q].image) /\ k = Len(task[q].todo)
        BY <2>3
      <4>3. i \in 1..n
        BY <4>2
      <4> QED BY <2>1, <2>3, <4>1, <4>2, <4>3 DEF SameInForce
    <3> QED BY <3>1 DEF Through
  <2> QED BY <1>1, <2>1, <2>2, <2>4 DEF SyncFits
<1>3. CASE Marked(q)
  <2>1. task[q] \in Tasks
    BY DEF ContractsInv, ContractsTypeOK
  <2>2. /\ task'[q].kind = task[q].kind /\ task'[q].activate = task[q].activate
        /\ task'[q].image = task[q].image /\ task'[q].todo = task[q].todo
        /\ task'[q].row = task[q].row /\ task'[q].retire = task[q].retire
        /\ task'[q].moved = Concerned(q)
    BY <1>3, <2>1 DEF Marked, Tasks
  <2>3. task[q].kind = "sync" /\ task[q].activate => Concerned(q)
    BY DEF Concerned
  <2> QED BY <1>1, <2>2, <2>3 DEF SyncFits
<1> QED BY <1>2, <1>3

(* A task that is not an activating import has nothing to show. *)
LEMMA NoImport ==
    ASSUME NEW p \in Callers, task'[p].kind # "sync" \/ ~task'[p].activate
    PROVE  SyncFits(p)'
BY DEF SyncFits

LEMMA NoTaskImports == NoTask.kind = "none" /\ ~NoTask.moved
BY DEF NoTask

LEMMA ImportStands ==
    ASSUME NEW p \in Callers, NEW image, NEW todo, LeftOf(todo, image),
           task'[p].image = image, task'[p].todo = todo,
           step'[p] \in {"retire", "set"} => task'[p].row = todo[1],
           step'[p] = "set" => task'[p].retire \subseteq Namesakes(task'[p].row),
           ~task'[p].moved => Through(status', image, todo)
    PROVE  SyncFits(p)'
<1>1. Namesakes(task[p].row)' = Namesakes(task'[p].row)
  BY DEF Namesakes
<1>2. LeftOf(task[p].todo, task[p].image)' = LeftOf(todo, image)
  BY DEF LeftOf
<1>3. Through(status, task[p].image, task[p].todo)' = Through(status', image, todo)
  BY DEF Through
<1> QED BY <1>1, <1>2, <1>3 DEF SyncFits

(* One entry further. *)
LEMMA OneFurther ==
    ASSUME NEW image \in Seq(Contracts), NEW todo \in Seq(Contracts), todo # <<>>,
           LeftOf(todo, image), NEW s, NEW t,
           \A i \in 1..(Len(image) - Len(todo)) :
              s[image[i]] = "active" => t[image[i]] = "active",
           t[todo[1]] = "active"
    PROVE  /\ LeftOf(Tail(todo), image)
           /\ Through(s, image, todo) => Through(t, image, Tail(todo))
<1>1. PICK n, k \in Nat : n = Len(image) /\ k = Len(todo)
  OBVIOUS
<1>2. PICK rest : rest = Tail(todo)
  OBVIOUS
<1>3. /\ k >= 1 /\ k <= n /\ image \in Images
      /\ \A i \in 1..k : todo[i] = image[(n - k) + i]
  BY <1>1 DEF LeftOf
<1>4. Len(rest) = k - 1 /\ \A i \in 1..(k - 1) : rest[i] = todo[i + 1]
  BY <1>1, <1>2, <1>3
<1>5. ASSUME NEW i \in 1..(k - 1) PROVE rest[i] = image[(n - (k - 1)) + i]
  <2>1. i + 1 \in 1..k /\ (n - k) + (i + 1) = (n - (k - 1)) + i
    BY <1>3
  <2>2. todo[i + 1] = image[(n - k) + (i + 1)]
    BY <1>3, <2>1
  <2> QED BY <1>4, <2>1, <2>2
<1>6. LeftOf(rest, image)
  BY <1>1, <1>3, <1>4, <1>5 DEF LeftOf
<1>7. ASSUME Through(s, image, todo), NEW i \in 1..(n - (k - 1))
      PROVE  t[image[i]] = "active"
  <2>1. CASE i \in 1..(n - k)
    BY <1>1, <1>7, <2>1 DEF Through
  <2>2. CASE i = (n - k) + 1
    <3>1. image[i] = todo[1]
      BY <1>3, <2>2
    <3> QED BY <3>1
  <2> QED BY <1>3, <2>1, <2>2
<1>8. Through(s, image, todo) => Through(t, image, rest)
  BY <1>1, <1>4, <1>7 DEF Through
<1> QED BY <1>2, <1>6, <1>8

LEMMA ImportBegins ==
    ASSUME ContractsInv, NEW p \in Callers, RequestSync(p)
    PROVE  SyncFits(p)'
<1>1. PICK image \in Images, activate \in BOOLEAN :
         task' = [task EXCEPT ![p] = [NoTask EXCEPT !.kind = "sync",
                          !.image = IF activate THEN image ELSE <<>>,
                          !.todo = image, !.activate = activate]]
  BY DEF RequestSync
<1>2. CASE ~activate
  <2>1. ~task'[p].activate
    BY <1>1, <1>2 DEF ContractsInv, ContractsTypeOK, NoTask
  <2> QED BY <2>1, NoImport
<1>3. CASE activate
  <2>1. /\ task'[p].kind = "sync" /\ task'[p].activate /\ task'[p].image = image
        /\ task'[p].todo = image
    BY <1>1, <1>3 DEF ContractsInv, ContractsTypeOK, NoTask
  <2>2. step'[p] = "entry"
    BY DEF RequestSync, Proceed, ContractsInv, ContractsTypeOK
  <2>3. Len(image) \in Nat
    BY ContractAssumption
  <2>4. LeftOf(image, image)
    BY <2>3 DEF LeftOf
  <2>5. Through(status', image, image)
    BY <2>3 DEF Through
  <2> QED BY <2>1, <2>2, <2>4, <2>5, ImportStands
<1> QED BY <1>2, <1>3

(* The next entry: on its way to be activated, or passed over because it   *)
(* is in force.                                                            *)
LEMMA ImportGoesOn ==
    ASSUME ContractsInv, NEW p \in Callers, SyncFits(p), NEW seen, AfterEntry(p, seen),
           task[p].kind = "sync", task[p].todo # <<>>, SameInForce,
           seen = "active" => status'[Head(task[p].todo)] = "active"
    PROVE  SyncFits(p)'
<1>1. /\ task[p] \in Tasks /\ task[p].todo \in Seq(Contracts)
      /\ Head(task[p].todo) = task[p].todo[1]
  BY DEF ContractsInv, ContractsTypeOK, Tasks
<1>2. CASE ~task[p].activate
  <2>1. task'[p].activate = task[p].activate
    BY <1>1 DEF AfterEntry, ContractsInv, ContractsTypeOK, Tasks
  <2> QED BY <1>2, <2>1, NoImport
<1>3. CASE task[p].activate
  <2>1. PICK image, todo : image = task[p].image /\ todo = task[p].todo
    OBVIOUS
  <2>2. /\ image \in Seq(Contracts) /\ todo \in Seq(Contracts) /\ todo # <<>>
        /\ Len(image) \in Nat /\ Len(todo) \in Nat
        /\ \A i \in 1..Len(image) : image[i] \in Contracts
    BY <1>3, <2>1, ImportFacts
  <2>3. LeftOf(todo, image) /\ (~task[p].moved => Through(status, image, todo))
    BY <1>3, <2>1 DEF SyncFits
  <2>4. ASSUME NEW i \in 1..(Len(image) - Len(todo)), status[image[i]] = "active"
        PROVE  status'[image[i]] = "active"
    <3>1. image[i] \in Contracts
      BY <2>2
    <3> QED BY <2>4, <3>1 DEF SameInForce
  <2>5. CASE WillActivate(p, seen)
    <3>1. task' = [task EXCEPT ![p].row = todo[1]] /\ step'[p] = "retire"
      BY <1>1, <2>1, <2>5 DEF AfterEntry, Proceed, ContractsInv, ContractsTypeOK
    <3>2. task'[p] = [task[p] EXCEPT !.row = todo[1]]
      BY <3>1 DEF ContractsInv, ContractsTypeOK
    <3>3. /\ task'[p].image = image /\ task'[p].todo = todo
          /\ task'[p].row = todo[1] /\ task'[p].moved = task[p].moved
      BY <1>1, <2>1, <3>2 DEF Tasks
    <3>4. ~task'[p].moved => Through(status', image, todo)
      BY <2>3, <2>4, <3>3 DEF Through
    <3> QED BY <2>3, <3>1, <3>3, <3>4, ImportStands
  <2>6. CASE ~WillActivate(p, seen)
    <3>1. task' = [task EXCEPT ![p].todo = Tail(todo)] /\ step'[p] = "entry"
      BY <2>1, <2>6 DEF AfterEntry, Proceed, ContractsInv, ContractsTypeOK
    <3>2. task'[p] = [task[p] EXCEPT !.todo = Tail(todo)]
      BY <3>1 DEF ContractsInv, ContractsTypeOK
    <3>3. PICK rest : rest = Tail(todo)
      OBVIOUS
    <3>4. /\ task'[p].image = image /\ task'[p].todo = rest
          /\ task'[p].moved = task[p].moved
      BY <1>1, <2>1, <3>2, <3>3 DEF Tasks
    <3>5. seen = "active" /\ status'[todo[1]] = "active"
      BY <1>1, <1>3, <2>1, <2>6 DEF WillActivate
    <3>6. /\ LeftOf(rest, image)
          /\ Through(status, image, todo) => Through(status', image, rest)
      BY <2>2, <2>3, <2>4, <3>3, <3>5, OneFurther
    <3> QED BY <2>3, <3>1, <3>4, <3>6, ImportStands
  <2> QED BY <2>5, <2>6
<1> QED BY <1>2, <1>3

(* The first statement lists namesakes of the entry only. *)
LEMMA ImportRetires ==
    ASSUME ContractsInv, NEW p \in Callers, SyncFits(p), RetireOthers(p)
    PROVE  SyncFits(p)'
<1>1. /\ task'[p] = [task[p] EXCEPT !.retire = Others(task[p].row)]
      /\ status' = status /\ step[p] = "retire" /\ task[p] \in Tasks
  BY DEF RetireOthers, ContractsInv, ContractsTypeOK
<1>2. /\ task'[p].kind = task[p].kind /\ task'[p].activate = task[p].activate
      /\ task'[p].image = task[p].image /\ task'[p].todo = task[p].todo
      /\ task'[p].row = task[p].row /\ task'[p].moved = task[p].moved
      /\ task'[p].retire = Others(task[p].row)
  BY <1>1 DEF Tasks
<1>3. Others(task[p].row) \subseteq Namesakes(task[p].row)
  BY DEF Others
<1>4. task'[p].retire \subseteq Namesakes(task'[p].row)
  BY <1>2, <1>3
<1>5. CASE task[p].kind # "sync" \/ ~task[p].activate
  BY <1>2, <1>5, NoImport
<1>6. CASE task[p].kind = "sync" /\ task[p].activate
  <2>1. PICK image, todo : image = task[p].image /\ todo = task[p].todo
    OBVIOUS
  <2>2. /\ LeftOf(todo, image) /\ task[p].row = todo[1]
        /\ ~task[p].moved => Through(status, image, todo)
    BY <1>1, <1>6, <2>1 DEF SyncFits
  <2>3. task'[p].row = todo[1] /\ task'[p].image = image /\ task'[p].todo = todo
    BY <1>2, <2>1, <2>2
  <2>4. ~task'[p].moved => Through(status', image, todo)
    BY <1>1, <1>2, <2>2
  <2> QED BY <1>4, <2>2, <2>3, <2>4, ImportStands
<1> QED BY <1>5, <1>6

(* The second brings the entry into force and retires none of the image:   *)
(* names in it are distinct.                                               *)
LEMMA ImportActivates ==
    ASSUME ContractsInv, NEW p \in Callers, SyncFits(p), SetActive(p)
    PROVE  SyncFits(p)'
<1>1. task[p] \in Tasks /\ step[p] = "set"
  BY DEF SetActive, ContractsInv, ContractsTypeOK
<1>2. CASE task[p].kind # "sync" \/ ~task[p].activate
  <2>1. task[p].kind # "sync"
    BY <1>1, <1>2 DEF ContractsInv, StepFits
  <2>2. task'[p] = NoTask
    BY <2>1 DEF SetActive, Change
  <2> QED BY <2>2, NoTaskImports, NoImport
<1>3. CASE task[p].kind = "sync" /\ task[p].activate
  <2>1. PICK image, todo, c : /\ image = task[p].image /\ todo = task[p].todo
                              /\ c = task[p].row
    OBVIOUS
  <2>2. /\ image \in Seq(Contracts) /\ todo \in Seq(Contracts)
        /\ Len(image) \in Nat /\ Len(todo) \in Nat /\ Len(todo) <= Len(image)
        /\ \A i \in 1..Len(image) : image[i] \in Contracts
        /\ \A i, j \in 1..Len(image) : NameOf[image[i]] = NameOf[image[j]] => i = j
    BY <1>3, <2>1, ImportFacts
  <2>3. todo # <<>> /\ Len(todo) >= 1
    BY <1>1, <1>3, <2>1, <2>2 DEF ContractsInv, StepFits
  <2>4. /\ LeftOf(todo, image) /\ (~task[p].moved => Through(status, image, todo))
        /\ c = todo[1] /\ task[p].retire \subseteq Namesakes(c)
    BY <1>1, <1>3, <2>1 DEF SyncFits
  <2>5. PICK done \in Nat : done = Len(image) - Len(todo)
    <3>1. PICK n, k \in Nat : n = Len(image) /\ k = Len(todo)
      BY <2>2
    <3>2. n - k \in Nat
      BY <2>2, <3>1
    <3> QED BY <3>1, <3>2
  <2>6. c = image[done + 1] /\ done + 1 \in 1..Len(image) /\ c \in Contracts
    BY <2>2, <2>3, <2>4, <2>5 DEF LeftOf
  <2>7. PICK rest : rest = Tail(todo)
    OBVIOUS
  <2>8. task'[p] = [task[p] EXCEPT !.todo = rest, !.retire = {}]
    BY <1>3, <2>1, <2>7 DEF SetActive, Change
  <2>9. /\ task'[p].image = image /\ task'[p].todo = rest
        /\ task'[p].moved = task[p].moved
    BY <1>1, <2>1, <2>8 DEF Tasks
  <2>10. status' = [Retiring(p) EXCEPT ![c] = "active"] /\ step'[p] = "entry"
    BY <1>3, <2>1 DEF SetActive, Change, Proceed, ContractsInv, ContractsTypeOK
  <2>11. DOMAIN Retiring(p) = Contracts
    BY DEF Retiring
  <2>12. status'[todo[1]] = "active"
    BY <2>4, <2>6, <2>10, <2>11
  <2>13. ASSUME NEW i \in 1..(Len(image) - Len(todo)), status[image[i]] = "active"
         PROVE  status'[image[i]] = "active"
    <3>1. i \in 1..Len(image) /\ i # done + 1
      BY <2>2, <2>3, <2>5
    <3>2. image[i] \in Contracts /\ NameOf[image[i]] # NameOf[c]
      BY <2>2, <2>6, <3>1
    <3>3. image[i] \notin task[p].retire /\ image[i] # c
      BY <2>4, <3>2 DEF Namesakes
    <3>4. status'[image[i]] = Retiring(p)[image[i]]
      BY <2>10, <2>11, <3>2, <3>3
    <3>5. Retiring(p)[image[i]] = status[image[i]]
      BY <3>2, <3>3 DEF Retiring
    <3> QED BY <2>13, <3>4, <3>5
  <2>14. /\ LeftOf(rest, image)
         /\ Through(status, image, todo) => Through(status', image, rest)
    BY <2>2, <2>3, <2>4, <2>7, <2>12, <2>13, OneFurther
  <2>15. step'[p] \notin {"retire", "set"}
    BY <2>10
  <2> QED BY <2>4, <2>9, <2>14, <2>15, ImportStands
<1> QED BY <1>2, <1>3

(* Its own steps keep what an import relies on. *)
LEMMA OwnStepImports ==
    ASSUME ContractsInv, NEW p \in Callers, SyncFits(p), Moves(p)
    PROVE  SyncFits(p)'
<1>1. task[p] \in Tasks /\ StepFits(p)
  BY DEF ContractsInv, ContractsTypeOK
<1>2. CASE Done(p)
  <2>1. task'[p] = NoTask
    BY <1>2 DEF Done, ContractsInv, ContractsTypeOK
  <2> QED BY <2>1, NoTaskImports, NoImport
<1>3. CASE RequestActivation(p)
  <2>1. PICK c \in Contracts :
           task' = [task EXCEPT ![p] = [NoTask EXCEPT !.kind = "activate", !.row = c]]
    BY <1>3 DEF RequestActivation
  <2>2. task'[p].kind = "activate"
    BY <2>1 DEF NoTask, ContractsInv, ContractsTypeOK
  <2> QED BY <2>2, NoImport
<1>4. CASE RequestGrant(p)
  <2>1. PICK pins \in EarlierPins :
           task' = [task EXCEPT ![p] = [NoTask EXCEPT !.kind = "grant",
                                                     !.against = pins]]
    BY <1>4 DEF RequestGrant
  <2>2. task'[p].kind = "grant"
    BY <2>1 DEF NoTask, ContractsInv, ContractsTypeOK
  <2> QED BY <2>2, NoImport
<1>5. CASE RetireRow(p)
  <2>1. task'[p] = NoTask
    BY <1>5 DEF RetireRow, Change
  <2> QED BY <2>1, NoTaskImports, NoImport
<1>6. CASE StoreFails(p)
  <2>1. Done(p) \/ task'[p] = NoTask
    BY <1>6 DEF StoreFails, Change
  <2> QED BY <1>2, <2>1, NoTaskImports, NoImport
<1>7. CASE EndSync(p) \/ Persist(p)
  BY <1>2, <1>7 DEF EndSync, Persist
<1>8. CASE ReadAgent(p)
  <2>1. step[p] = "agent"
    BY <1>8 DEF ReadAgent
  <2>2. task[p].kind \in {"grant", "record"}
    BY <1>1, <2>1 DEF StepFits
  <2>3. PICK c : task' = [task EXCEPT ![p].pins.agent = c]
    BY <1>8 DEF ReadAgent
  <2>4. task'[p] = [task[p] EXCEPT !.pins.agent = c]
    BY <2>3 DEF ContractsInv, ContractsTypeOK
  <2>5. task'[p].kind = task[p].kind
    BY <1>1, <2>4 DEF Tasks
  <2> QED BY <2>2, <2>5, NoImport
<1>9. CASE ReadTools(p)
  <2>1. step[p] = "tools"
    BY <1>9 DEF ReadTools
  <2>2. task[p].kind \in {"grant", "record"}
    BY <1>1, <2>1 DEF StepFits
  <2>3. PICK pins :
          \/ Done(p)
          \/ task' = [task EXCEPT ![p].kind = "record", ![p].pins = NoPins,
                                  ![p].against = pins]
          \/ task' = [task EXCEPT ![p].pins = pins]
    BY <1>9 DEF ReadTools
  <2>4. CASE task' = [task EXCEPT ![p].kind = "record", ![p].pins = NoPins,
                                  ![p].against = pins]
    <3>1. task'[p].kind = "record"
      BY <1>1, <2>4 DEF ContractsInv, ContractsTypeOK, Tasks
    <3> QED BY <3>1, NoImport
  <2>5. CASE task' = [task EXCEPT ![p].pins = pins]
    <3>1. task'[p].kind = task[p].kind
      BY <1>1, <2>5 DEF ContractsInv, ContractsTypeOK, Tasks
    <3> QED BY <2>2, <3>1, NoImport
  <2> QED BY <1>2, <2>3, <2>4, <2>5
<1>10. CASE LookUpEntry(p)
  <2>1. /\ step[p] = "entry" /\ task[p].todo # <<>> /\ status' = status
    BY <1>10 DEF LookUpEntry
  <2>2. task[p].kind = "sync" /\ SameInForce
    BY <1>1, <2>1 DEF StepFits, SameInForce
  <2>3. CASE AfterEntry(p, status[Head(task[p].todo)])
    BY <2>1, <2>2, <2>3, ImportGoesOn
  <2>4. CASE Proceed(p, "insert") /\ UNCHANGED task
    <3>1. step'[p] = "insert" /\ task' = task
      BY <2>4 DEF Proceed, ContractsInv, ContractsTypeOK
    <3> QED BY <2>1, <3>1 DEF SyncFits
  <2> QED BY <1>10, <2>3, <2>4 DEF LookUpEntry
<1>11. CASE InsertEntry(p)
  <2>1. /\ step[p] = "insert" /\ task[p].todo # <<>> /\ task[p].kind = "sync"
    BY <1>1, <1>11 DEF InsertEntry, StepFits
  <2>2. CASE /\ status[Head(task[p].todo)] = "none"
             /\ AfterEntry(p, "draft")
             /\ status' = [status EXCEPT ![Head(task[p].todo)] = "draft"]
    <3>1. SameInForce
      BY <2>2 DEF SameInForce, ContractsInv, ContractsTypeOK
    <3> QED BY <2>1, <2>2, <3>1, ImportGoesOn
  <2>3. CASE Done(p)
    BY <1>2, <2>3
  <2> QED BY <1>11, <2>2, <2>3 DEF InsertEntry
<1> QED BY <1>3, <1>4, <1>5, <1>6, <1>7, <1>8, <1>9, <1>10, <1>11,
           ImportBegins, ImportRetires, ImportActivates DEF Moves, Ask, Work

LEMMA StutterImports ==
    ASSUME NEW p \in Callers, SyncFits(p), UNCHANGED contractVars
    PROVE  SyncFits(p)'
BY DEF SyncFits, LeftOf, Through, Namesakes, contractVars

ImportsInv == ContractsInv /\ \A p \in Callers : SyncFits(p)

LEMMA ImportsInvariant == ContractsSpec => []ImportsInv
<1>1. ContractsInit => \A p \in Callers : SyncFits(p)
  BY NoTaskImports DEF ContractsInit, SyncFits
<1>2. ASSUME ContractsInv, \A p \in Callers : SyncFits(p),
             [ContractsNext]_contractVars
      PROVE  (\A p \in Callers : SyncFits(p))'
  <2>1. CASE UNCHANGED contractVars
    BY <1>2, <2>1, StutterImports
  <2>2. CASE ContractsNext
    <3>1. PICK p \in Callers : Moves(p)
      BY <2>2 DEF ContractsNext, Moves
    <3>2. ASSUME NEW q \in Callers PROVE SyncFits(q)'
      <4>1. CASE q = p
        BY <1>2, <3>1, <4>1, OwnStepImports
      <4>2. CASE q # p
        <5>1. step'[q] = step[q] /\ (Undisturbed(q) \/ Marked(q))
          BY <1>2, <3>1, <4>2, OthersSee
        <5> QED BY <1>2, <5>1, OtherImports
      <4> QED BY <4>1, <4>2
    <3> QED BY <3>2
  <2> QED BY <1>2, <2>1, <2>2
<1> QED BY ContractsInvariant, <1>1, <1>2, PTL DEF ContractsSpec, ImportsInv

(* An undisturbed import that activates ends with every contract of its    *)
(* image in force, although each entry is a transaction of its own         *)
(* (sync_from_filesystem): those it has gone through stay active, because  *)
(* later entries retire only their own namesakes.                          *)
THEOREM SyncSelectsHolds == ContractsSpec => SyncSelects
<1>1. ASSUME ImportsInv, NEW p \in Callers, EndSync(p), task[p].activate,
             ~task[p].moved
      PROVE  \A i \in DOMAIN task[p].image : status[task[p].image[i]] = "active"
  <2>1. task[p].kind = "sync" /\ task[p].todo = <<>>
    BY <1>1 DEF ImportsInv, ContractsInv, StepFits, EndSync
  <2>2. PICK image : image = task[p].image
    OBVIOUS
  <2>3. image \in Seq(Contracts) /\ Through(status, image, <<>>)
    BY <1>1, <2>1, <2>2, ImportFacts DEF ImportsInv, SyncFits
  <2>4. DOMAIN image = 1..(Len(image) - Len(<<>>))
    BY <2>3
  <2> QED BY <2>2, <2>3, <2>4 DEF Through
<1>2. ASSUME ImportsInv, [ContractsNext]_contractVars
      PROVE  [\A p \in Callers :
                EndSync(p) /\ task[p].activate /\ ~task[p].moved =>
                  \A i \in DOMAIN task[p].image :
                     status[task[p].image[i]] = "active"]_contractVars
  BY <1>1, <1>2
<1> QED BY ImportsInvariant, <1>2, PTL DEF ContractsSpec, SyncSelects

-----------------------------------------------------------------------------
(* Governed requests *)

LEMMA SameAsBefore ==
    ASSUME SameInForce
    PROVE  /\ OneInForce' <=> OneInForce
           /\ \A n : ActiveRows(n)' = ActiveRows(n)
           /\ \A p : ActiveAgent(p)' = ActiveAgent(p)
           /\ \A a : ToolsInForce(a)' = ToolsInForce(a)
           /\ \A pins : InForce(pins)' = InForce(pins)
<1>1. \A n : ActiveRows(n)' = ActiveRows(n)
  BY DEF SameInForce, ActiveRows
<1>2. \A p : ActiveAgent(p)' = ActiveAgent(p)
  BY <1>1 DEF ActiveAgent
<1>3. \A a : ToolsInForce(a)' = ToolsInForce(a)
  BY DEF SameInForce, ToolsInForce
<1>4. OneInForce' <=> OneInForce
  BY DEF SameInForce, OneInForce
<1>5. \A pins : InForce(pins)' = InForce(pins)
  BY <1>2, <1>3 DEF InForce
<1> QED BY <1>1, <1>2, <1>3, <1>4, <1>5

(* With one contract in force per name, the agent's is determined, *)
LEMMA OneAgent ==
    ASSUME OneInForce, NEW p, NEW q, NEW a \in ActiveAgent(p), NEW b \in ActiveAgent(q)
    PROVE  a = b
BY DEF OneInForce, ActiveAgent, ActiveRows

(* and so are the tools. *)
LEMMA OneSelection ==
    ASSUME OneInForce, NEW names, NEW S \in Selections(names)
    PROVE  S = {c \in Contracts : status[c] = "active" /\ NameOf[c] \in names}
<1>1. S \subseteq {c \in Contracts : status[c] = "active" /\ NameOf[c] \in names}
  BY DEF Selections
<1>2. ASSUME NEW c \in Contracts, status[c] = "active", NameOf[c] \in names
      PROVE  c \in S
  <2>1. ActiveRows(NameOf[c]) = {c}
    BY <1>2 DEF OneInForce, ActiveRows
  <2>2. Cardinality(S \cap ActiveRows(NameOf[c])) = 1
    BY <1>2, <2>1 DEF Selections
  <2>3. S \cap ActiveRows(NameOf[c]) # {}
    <3>1. Cardinality({}) # 1
      BY FS_EmptySet
    <3> QED BY <2>2, <3>1, Zenon
  <2> QED BY <2>1, <2>3
<1> QED BY <1>1, <1>2

(* What a request reads is in force. *)
LEMMA ReadsInForce ==
    ASSUME ContractsInv, NEW p \in Callers, OneInForce,
           task[p].pins.agent \in ActiveAgent(p), NEW S \in Selections(AgentTools(p)),
           NEW pins, pins = [task[p].pins EXCEPT !.tools = S]
    PROVE  /\ InForce(pins)
           /\ pins = [agent |-> task[p].pins.agent, tools |-> S]
<1>1. task[p].pins \in Pins
  BY DEF ContractsInv, ContractsTypeOK, Tasks
<1>2. /\ pins = [agent |-> task[p].pins.agent, tools |-> S]
      /\ pins.agent = task[p].pins.agent /\ pins.tools = S
  BY <1>1 DEF Pins
<1>3. S = ToolsInForce(task[p].pins.agent)
  BY OneSelection DEF ToolsInForce, AgentTools
<1> QED BY <1>2, <1>3 DEF InForce, ActiveAgent

LEMMA NoGrant ==
    ASSUME NEW p \in Callers, task'[p].kind \notin {"grant", "record"},
           step'[p] # "persist"
    PROVE  GrantFits(p)'
BY DEF GrantFits

LEMMA OtherGrants ==
    ASSUME ContractsInv, NEW q \in Callers, GrantFits(q), step'[q] = step[q],
           Undisturbed(q) \/ Marked(q)
    PROVE  GrantFits(q)'
<1>1. CASE Undisturbed(q)
  <2>1. task'[q] = task[q] /\ SameInForce
    BY <1>1 DEF Undisturbed
  <2>2. PICK pins : pins = task[q].against
    OBVIOUS
  <2>3. /\ OneInForce' <=> OneInForce
        /\ ActiveAgent(q)' = ActiveAgent(q) /\ InForce(pins)' = InForce(pins)
    BY <2>1, SameAsBefore
  <2>4. InForce(task[q].against) = InForce(pins)
    BY <2>2
  <2>5. InForce(task[q].against)' = InForce(pins)'
    BY <2>1, <2>2 DEF InForce, ActiveAgent, ToolsInForce
  <2> QED BY <2>1, <2>3, <2>4, <2>5 DEF GrantFits
<1>2. CASE Marked(q)
  <2>1. /\ task'[q].kind = task[q].kind
        /\ task[q].kind \in {"grant", "record"} => task'[q].moved
    BY <1>2 DEF Marked, Concerned, ContractsInv, ContractsTypeOK, Tasks
  <2> QED BY <2>1 DEF GrantFits
<1> QED BY <1>1, <1>2

LEMMA GrantReadsAgent ==
    ASSUME ContractsInv, NEW p \in Callers, GrantFits(p), ReadAgent(p)
    PROVE  GrantFits(p)'
<1>1. PICK c \in ActiveAgent(p) : task' = [task EXCEPT ![p].pins.agent = c]
  BY DEF ReadAgent
<1>2. task'[p] = [task[p] EXCEPT !.pins.agent = c] /\ task[p] \in Tasks
  BY <1>1 DEF ContractsInv, ContractsTypeOK
<1>3. PICK then : then = task[p].against
  OBVIOUS
<1>4. /\ task'[p].kind = task[p].kind /\ task'[p].moved = task[p].moved
      /\ task'[p].against = then /\ task'[p].pins.agent = c
  BY <1>2, <1>3 DEF Tasks, Pins
<1>5. step'[p] = "tools" /\ status' = status
  BY DEF ReadAgent, Proceed, ContractsInv, ContractsTypeOK
<1>6. SameInForce
  BY <1>5 DEF SameInForce
<1>7. /\ OneInForce' <=> OneInForce
      /\ ActiveAgent(p)' = ActiveAgent(p) /\ InForce(then)' = InForce(then)
  BY <1>6, SameAsBefore
<1>8. InForce(task[p].against)' = InForce(then)'
  BY <1>4 DEF InForce, ActiveAgent, ToolsInForce
<1>9. InForce(task[p].against) = InForce(then)
  BY <1>3
<1> QED BY <1>4, <1>5, <1>7, <1>8, <1>9 DEF GrantFits

LEMMA GrantReadsTools ==
    ASSUME ContractsInv, NEW p \in Callers, GrantFits(p), ReadTools(p)
    PROVE  GrantFits(p)'
<1>1. step[p] = "tools" /\ status' = status /\ task[p] \in Tasks
  BY DEF ReadTools, ContractsInv, ContractsTypeOK
<1> DEFINE Goes(pins) ==
             \/ Done(p)
             \/ /\ task' = [task EXCEPT ![p].kind = "record", ![p].pins = NoPins,
                                        ![p].against = pins]
                /\ Proceed(p, "agent")
             \/ /\ task[p].kind = "record"
                /\ task' = [task EXCEPT ![p].pins = pins]
                /\ Proceed(p, "persist")
<1>2. PICK S \in Selections(AgentTools(p)) : Goes([task[p].pins EXCEPT !.tools = S])
  BY DEF ReadTools
<1> PICK pins : pins = [task[p].pins EXCEPT !.tools = S] /\ Goes(pins)
  BY <1>2
<1>3. SameInForce
  BY <1>1 DEF SameInForce
<1>4. task[p].kind \in {"grant", "record"}
  BY <1>1 DEF ContractsInv, StepFits
<1>5. ASSUME ~task[p].moved, OneInForce
      PROVE  /\ InForce(pins)
             /\ pins = [agent |-> task[p].pins.agent, tools |-> S]
  <2>1. task[p].pins.agent \in ActiveAgent(p)
    BY <1>1, <1>4, <1>5 DEF GrantFits
  <2> QED BY <1>2, <1>5, <2>1, ReadsInForce
<1>6. CASE Done(p)
  <2>1. task'[p] = NoTask /\ step'[p] = "idle"
    BY <1>6 DEF Done, Proceed, ContractsInv, ContractsTypeOK
  <2> QED BY <2>1, NoTaskImports, NoGrant
<1>7. CASE /\ task' = [task EXCEPT ![p].kind = "record", ![p].pins = NoPins,
                                   ![p].against = pins]
           /\ Proceed(p, "agent")
  <2>1. task'[p] = [task[p] EXCEPT !.kind = "record", !.pins = NoPins,
                                   !.against = pins]
    BY <1>7 DEF ContractsInv, ContractsTypeOK
  <2>2. /\ task'[p].moved = task[p].moved /\ task'[p].kind = "record"
        /\ task'[p].against = pins
    BY <1>1, <2>1 DEF Tasks
  <2>3. step'[p] = "agent"
    BY <1>7 DEF Proceed, ContractsInv, ContractsTypeOK
  <2>4. OneInForce' <=> OneInForce /\ InForce(pins)' = InForce(pins)
    BY <1>3, SameAsBefore
  <2>5. InForce(task[p].against)' = InForce(pins)'
    BY <2>2 DEF InForce, ActiveAgent, ToolsInForce
  <2> QED BY <1>3, <1>5, <2>2, <2>3, <2>4, <2>5, SameAsBefore DEF GrantFits
<1>8. CASE /\ task[p].kind = "record"
           /\ task' = [task EXCEPT ![p].pins = pins]
           /\ Proceed(p, "persist")
  <2>1. task'[p] = [task[p] EXCEPT !.pins = pins]
    BY <1>8 DEF ContractsInv, ContractsTypeOK
  <2>2. PICK then : then = task[p].against
    OBVIOUS
  <2>3. /\ task'[p].moved = task[p].moved /\ task'[p].kind = "record"
        /\ task'[p].against = then /\ task'[p].pins = pins
    BY <1>1, <1>8, <2>1, <2>2 DEF Tasks
  <2>4. step'[p] = "persist"
    BY <1>8 DEF Proceed, ContractsInv, ContractsTypeOK
  <2>5. /\ OneInForce' <=> OneInForce
        /\ InForce(then)' = InForce(then)
    BY <1>3, SameAsBefore
  <2>6. InForce(task[p].against)' = InForce(then)'
    BY <2>3 DEF InForce, ActiveAgent, ToolsInForce
  <2>7. ASSUME ~task[p].moved, OneInForce PROVE InForce(then) /\ pins = then
    <3>1. InForce(then)
      BY <1>8, <2>2, <2>7 DEF GrantFits
    <3>2. InForce(pins) /\ pins = [agent |-> task[p].pins.agent, tools |-> S]
      BY <1>5, <2>7
    <3>3. pins.agent = then.agent
      BY <2>7, <3>1, <3>2, OneAgent DEF InForce
    <3>4. pins.tools = then.tools
      BY <3>1, <3>2, <3>3 DEF InForce
    <3>5. then \in Pins
      BY <1>1, <2>2 DEF Tasks
    <3> QED BY <3>1, <3>2, <3>3, <3>4, <3>5 DEF Pins
  <2> QED BY <2>3, <2>4, <2>5, <2>6, <2>7 DEF GrantFits
<1> QED BY <1>6, <1>7, <1>8

(* Its own steps keep what a governed request relies on. *)
LEMMA OwnStepGrants ==
    ASSUME ContractsInv, NEW p \in Callers, GrantFits(p), Moves(p)
    PROVE  GrantFits(p)'
<1>1. task[p] \in Tasks /\ StepFits(p)
  BY DEF ContractsInv, ContractsTypeOK
<1>2. ASSUME NEW where, where # "persist", Proceed(p, where) PROVE step'[p] # "persist"
  BY <1>2 DEF Proceed, ContractsInv, ContractsTypeOK
<1>3. CASE Done(p)
  <2>1. task'[p] = NoTask
    BY <1>3 DEF Done, ContractsInv, ContractsTypeOK
  <2> QED BY <1>2, <1>3, <2>1, NoTaskImports, NoGrant DEF Done
<1>4. CASE RequestActivation(p)
  <2>1. PICK c \in Contracts :
           task' = [task EXCEPT ![p] = [NoTask EXCEPT !.kind = "activate", !.row = c]]
    BY <1>4 DEF RequestActivation
  <2>2. task'[p].kind = "activate"
    BY <2>1 DEF NoTask, ContractsInv, ContractsTypeOK
  <2> QED BY <1>2, <1>4, <2>2, NoGrant DEF RequestActivation
<1>5. CASE RequestSync(p)
  <2>1. PICK image \in Images, activate \in BOOLEAN :
           task' = [task EXCEPT ![p] = [NoTask EXCEPT !.kind = "sync",
                            !.image = IF activate THEN image ELSE <<>>,
                            !.todo = image, !.activate = activate]]
    BY <1>5 DEF RequestSync
  <2>2. task'[p].kind = "sync"
    BY <2>1 DEF NoTask, ContractsInv, ContractsTypeOK
  <2> QED BY <1>2, <1>5, <2>2, NoGrant DEF RequestSync
<1>6. CASE RequestGrant(p)
  <2>1. PICK pins \in EarlierPins :
           task' = [task EXCEPT ![p] = [NoTask EXCEPT !.kind = "grant",
                                                     !.against = pins]]
    BY <1>6 DEF RequestGrant
  <2>2. task'[p].kind = "grant"
    BY <2>1 DEF NoTask, ContractsInv, ContractsTypeOK
  <2>3. step'[p] = "agent"
    BY <1>6 DEF RequestGrant, Proceed, ContractsInv, ContractsTypeOK
  <2> QED BY <2>2, <2>3 DEF GrantFits
<1>7. CASE RetireRow(p)
  <2>1. task'[p] = NoTask /\ step'[p] = "idle"
    BY <1>7 DEF RetireRow, Change
  <2> QED BY <2>1, NoTaskImports, NoGrant
<1>8. CASE StoreFails(p)
  <2>1. Done(p) \/ (task'[p] = NoTask /\ Proceed(p, "idle"))
    BY <1>8 DEF StoreFails, Change
  <2> QED BY <1>2, <1>3, <2>1, NoTaskImports, NoGrant
<1>9. CASE EndSync(p) \/ Persist(p)
  BY <1>3, <1>9 DEF EndSync, Persist
<1>10. CASE RetireOthers(p)
  <2>1. task'[p] = [task[p] EXCEPT !.retire = Others(task[p].row)]
        /\ task[p].kind \notin {"grant", "record"}
    BY <1>1, <1>10 DEF RetireOthers, StepFits, ContractsInv, ContractsTypeOK
  <2>2. task'[p].kind = task[p].kind
    BY <1>1, <2>1 DEF Tasks
  <2> QED BY <1>2, <1>10, <2>1, <2>2, NoGrant DEF RetireOthers
<1>11. CASE SetActive(p)
  <2>1. task'[p].kind \notin {"grant", "record"}
    <3>1. CASE task[p].kind = "sync"
      <4>1. PICK rest : task'[p] = [task[p] EXCEPT !.todo = rest, !.retire = {}]
        BY <1>11, <3>1 DEF SetActive, Change
      <4> QED BY <1>1, <3>1, <4>1 DEF Tasks
    <3>2. CASE task[p].kind # "sync"
      <4>1. task'[p] = NoTask
        BY <1>11, <3>2 DEF SetActive, Change
      <4> QED BY <4>1, NoTaskImports
    <3> QED BY <3>1, <3>2
  <2> QED BY <1>2, <1>11, <2>1, NoGrant DEF SetActive
<1>12. ASSUME NEW seen, AfterEntry(p, seen), task[p].kind = "sync"
       PROVE  GrantFits(p)'
  <2>1. CASE WillActivate(p, seen)
    <3>1. PICK c : task'[p] = [task[p] EXCEPT !.row = c] /\ Proceed(p, "retire")
      BY <1>12, <2>1 DEF AfterEntry, ContractsInv, ContractsTypeOK
    <3>2. task'[p].kind = "sync"
      BY <1>1, <1>12, <3>1 DEF Tasks
    <3> QED BY <1>2, <3>1, <3>2, NoGrant
  <2>2. CASE ~WillActivate(p, seen)
    <3>1. PICK rest : /\ task'[p] = [task[p] EXCEPT !.todo = rest]
                      /\ Proceed(p, "entry")
      BY <1>12, <2>2 DEF AfterEntry, ContractsInv, ContractsTypeOK
    <3>2. task'[p].kind = "sync"
      BY <1>1, <1>12, <3>1 DEF Tasks
    <3> QED BY <1>2, <3>1, <3>2, NoGrant
  <2> QED BY <2>1, <2>2
<1>13. CASE LookUpEntry(p)
  <2>1. task[p].kind = "sync"
    BY <1>1, <1>13 DEF LookUpEntry, StepFits
  <2>2. CASE Proceed(p, "insert") /\ UNCHANGED task
    BY <1>2, <2>1, <2>2, NoGrant
  <2> QED BY <1>12, <1>13, <2>1, <2>2 DEF LookUpEntry
<1>14. CASE InsertEntry(p)
  <2>1. task[p].kind = "sync"
    BY <1>1, <1>14 DEF InsertEntry, StepFits
  <2> QED BY <1>3, <1>12, <1>14, <2>1 DEF InsertEntry
<1> QED BY <1>4, <1>5, <1>6, <1>7, <1>8, <1>9, <1>10, <1>11, <1>13, <1>14,
           GrantReadsAgent, GrantReadsTools DEF Moves, Ask, Work

(* Every step installs at most one contract, so that only finitely many    *)
(* are there to be counted, however many there could be.                   *)
Installed == {c \in Contracts : status[c] # "none"}

LEMMA OneMoreInstalled ==
    ASSUME ContractsInv, NEW p \in Callers, Moves(p), IsFiniteSet(Installed)
    PROVE  IsFiniteSet(Installed')
<1>1. SUFFICES \E c : Installed' \subseteq Installed \cup {c}
  BY FS_AddElement, FS_Subset
<1>2. CASE status' = status
  BY <1>2 DEF Installed
<1>3. ASSUME NEW c, NEW s, status' = [status EXCEPT ![c] = s]
      PROVE  Installed' \subseteq Installed \cup {c}
  BY <1>3 DEF Installed, ContractsInv, ContractsTypeOK
<1>4. \A c \in Contracts : Retiring(p)[c] # "none" => c \in Installed
  BY DEF Retiring, Installed
<1>5. CASE SetActive(p)
  <2>1. PICK c : status' = [Retiring(p) EXCEPT ![c] = "active"]
    BY <1>5 DEF SetActive, Change
  <2>2. Installed' \subseteq Installed \cup {c}
    BY <1>4, <2>1 DEF Installed, Retiring
  <2> QED BY <2>2
<1>6. CASE StoreFails(p)
  <2>1. status' = status \/ status' = Retiring(p)
    BY <1>6 DEF StoreFails, Change
  <2>2. Installed' \subseteq Installed
    BY <1>4, <2>1 DEF Installed
  <2> QED BY <2>2
<1>7. CASE RetireRow(p)
  <2>1. PICK c \in Contracts : status' = [status EXCEPT ![c] = "retired"]
    BY <1>7 DEF RetireRow, Change
  <2> QED BY <1>3, <2>1
<1>8. CASE InsertEntry(p)
  <2>1. \/ status' = status
        \/ status' = [status EXCEPT ![Head(task[p].todo)] = "draft"]
    BY <1>8 DEF InsertEntry
  <2> QED BY <1>2, <1>3, <2>1
<1>9. CASE \/ RequestActivation(p) \/ RequestSync(p) \/ RequestGrant(p)
           \/ RetireOthers(p) \/ EndSync(p) \/ LookUpEntry(p) \/ ReadAgent(p)
           \/ ReadTools(p) \/ Persist(p)
  BY <1>2, <1>9 DEF RequestActivation, RequestSync, RequestGrant, RetireOthers,
                    EndSync, LookUpEntry, ReadAgent, ReadTools, Persist
<1> QED BY <1>5, <1>6, <1>7, <1>8, <1>9 DEF Moves, Ask, Work

GrantsInv == /\ ContractsInv /\ IsFiniteSet(Installed)
             /\ \A p \in Callers : GrantFits(p)

LEMMA GrantsInvariant == ContractsSpec => []GrantsInv
<1>1. ContractsInit => IsFiniteSet(Installed) /\ \A p \in Callers : GrantFits(p)
  <2>1. ContractsInit => Installed = {}
    BY DEF ContractsInit, Installed
  <2> QED BY <2>1, NoTaskImports, FS_EmptySet DEF ContractsInit, GrantFits
<1>2. ASSUME GrantsInv, [ContractsNext]_contractVars
      PROVE  (IsFiniteSet(Installed) /\ \A p \in Callers : GrantFits(p))'
  <2>1. CASE UNCHANGED contractVars
    <3>1. Installed' = Installed
      BY <2>1 DEF Installed, contractVars
    <3>2. \A p \in Callers : GrantFits(p)'
      BY <1>2, <2>1 DEF GrantsInv, GrantFits, OneInForce, ActiveAgent, ActiveRows,
                        InForce, ToolsInForce, contractVars
    <3> QED BY <1>2, <3>1, <3>2 DEF GrantsInv
  <2>2. CASE ContractsNext
    <3>1. PICK p \in Callers : Moves(p)
      BY <2>2 DEF ContractsNext, Moves
    <3>2. ASSUME NEW q \in Callers PROVE GrantFits(q)'
      <4>1. CASE q = p
        BY <1>2, <3>1, <4>1, OwnStepGrants DEF GrantsInv
      <4>2. CASE q # p
        <5>1. step'[q] = step[q] /\ (Undisturbed(q) \/ Marked(q))
          BY <1>2, <3>1, <4>2, OthersSee DEF GrantsInv
        <5> QED BY <1>2, <5>1, OtherGrants DEF GrantsInv
      <4> QED BY <4>1, <4>2
    <3> QED BY <1>2, <3>1, <3>2, OneMoreInstalled DEF GrantsInv
  <2> QED BY <1>2, <2>1, <2>2
<1> QED BY ContractsInvariant, <1>1, <1>2, PTL DEF ContractsSpec, GrantsInv

(* At most one row in force under every name. *)
LEMMA CountedOne ==
    ASSUME IsFiniteSet(Installed),
           \A n \in {NameOf[c] : c \in Contracts} : Cardinality(ActiveRows(n)) <= 1
    PROVE  OneInForce
<1>1. SUFFICES ASSUME NEW c \in Contracts, NEW d \in Contracts, status[c] = "active",
                      status[d] = "active", NameOf[c] = NameOf[d], c # d
               PROVE  FALSE
  BY DEF OneInForce
<1> DEFINE rows == ActiveRows(NameOf[c])
<1>2. rows \subseteq Installed
  BY DEF ActiveRows, Installed
<1>3. IsFiniteSet(rows) /\ {c, d} \subseteq rows
  BY <1>1, <1>2, FS_Subset DEF ActiveRows
<1>4. Cardinality({c, d}) = 2 /\ Cardinality({c, d}) <= Cardinality(rows)
  <2>1. IsFiniteSet({c}) /\ Cardinality({c}) = 1
    BY FS_Singleton
  <2>2. {c, d} = {c} \cup {d} /\ d \notin {c}
    BY <1>1
  <2>3. Cardinality({c} \cup {d}) = Cardinality({c}) + 1
    BY <2>1, <2>2, FS_AddElement
  <2>4. Cardinality({c, d}) = Cardinality({c} \cup {d})
    BY <2>2, Zenon
  <2> QED BY <1>3, <2>1, <2>3, <2>4, FS_Subset
<1>5. Cardinality(rows) <= 1 /\ Cardinality(rows) \in Nat
  BY <1>3, FS_CardinalityType
<1> QED BY <1>4, <1>5

(* The decision of a granted request carries the pins that the grant was   *)
(* compared with, although both are resolved a second time after the       *)
(* approval has been consumed (evaluate_governance, resolve_execution_     *)
(* capability_digests, persist_evaluation): the agent's contract and its   *)
(* tools are what they were, unless a status changed meanwhile or several  *)
(* contracts of one name were in force.                                    *)
THEOREM GrantRecordsHolds == ContractsSpec => GrantRecordsComparedPins
<1>1. ASSUME GrantsInv, NEW p \in Callers, Persist(p), ~task[p].moved,
             \A n \in {NameOf[c] : c \in Contracts} : Cardinality(ActiveRows(n)) <= 1
      PROVE  task[p].pins = task[p].against
  <2>1. step[p] = "persist" /\ OneInForce
    BY <1>1, CountedOne DEF Persist, GrantsInv
  <2> QED BY <1>1, <2>1 DEF GrantsInv, GrantFits
<1>2. ASSUME GrantsInv, [ContractsNext]_contractVars
      PROVE  [\A p \in Callers :
                /\ Persist(p) /\ ~task[p].moved
                /\ \A n \in {NameOf[c] : c \in Contracts} :
                      Cardinality(ActiveRows(n)) <= 1
                => task[p].pins = task[p].against]_contractVars
  BY <1>1, <1>2
<1> QED BY GrantsInvariant, <1>2, PTL DEF ContractsSpec, GrantRecordsComparedPins
=============================================================================
