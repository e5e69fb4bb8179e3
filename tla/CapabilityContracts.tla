------------------------ MODULE CapabilityContracts ------------------------
(***************************************************************************)
(* Capability contracts: what an agent may do and how a tool may be used,  *)
(* frozen with a digest.  An import takes them from the registry files, an *)
(* operator activates and retires them, and a governed request pins the    *)
(* digests that are active: an approval granted under one set of contracts *)
(* is not honoured under another.                                          *)
(*                                                                         *)
(* A contract is a row, unique by kind, name, tenant and digest.  A step   *)
(* is one store session or one statement of the activation.                *)
(***************************************************************************)
EXTENDS Integers, FiniteSets, Sequences

CONSTANTS
    Callers,     \* requests: imports, operators, governed requests
    Governed,    \* callers that also send governed requests
    Contracts,
    NameOf,      \* NameOf[c]: kind, name and tenant of contract c
    Agent,       \* the name of the requesting agent's contracts
    ToolsOf,     \* ToolsOf[c]: tools the agent contract c lists
    Images,      \* what registry files yield: sequences, agents before tools
    Unpinned     \* the empty digest

AgentRows == {c \in Contracts : NameOf[c] = Agent}
ToolNames == {NameOf[c] : c \in Contracts} \ {Agent}

ASSUME ContractAssumption ==
    /\ Governed \subseteq Callers
    /\ Unpinned \notin Contracts
    /\ Images \subseteq Seq(Contracts)
    /\ \A image \in Images : \A i, j \in DOMAIN image :
          NameOf[image[i]] = NameOf[image[j]] => i = j   \* mappings by name
    /\ DOMAIN ToolsOf = AgentRows
    /\ \A c \in AgentRows : ToolsOf[c] \subseteq ToolNames

VARIABLES
    engine,      \* "postgres", "sqlite"
    status,      \* status[c] in table capability_contracts
    task,        \* task[p]: what caller p is doing
    step         \* step[p]: and its next step

contractVars == <<engine, status, task, step>>

-----------------------------------------------------------------------------
NoPins == [agent |-> Unpinned, tools |-> {}]

(* "against" is what a grant compares its pins with, and then what it      *)
(* accepted.  "moved" is history: since the caller began (an operator's    *)
(* activation: since its first statement) somebody else changed a status.  *)
NoTask == [kind |-> "none", image |-> <<>>, todo |-> <<>>, activate |-> FALSE,
           row |-> Unpinned, retire |-> {}, pins |-> NoPins,
           against |-> NoPins, moved |-> FALSE]

ContractsInit ==
    /\ engine \in {"postgres", "sqlite"}
    /\ status = [c \in Contracts |-> "none"]
    /\ task = [p \in Callers |-> NoTask]
    /\ step = [p \in Callers |-> "idle"]

Proceed(p, where) == step' = [step EXCEPT ![p] = where]
Done(p) == Proceed(p, "idle") /\ task' = [task EXCEPT ![p] = NoTask]

AnyTime(p) == TRUE

(* On SQLite all callers share a connection, which one holds for the whole *)
(* session.                                                                *)
SessionFree(p) ==
    engine = "sqlite" => \A q \in Callers \ {p} : step[q] \notin {"retire", "set"}

Namesakes(c) == {d \in Contracts \ {c} : NameOf[d] = NameOf[c]}
ActiveRows(n) == {c \in Contracts : NameOf[c] = n /\ status[c] = "active"}

(* The statuses change under everybody else who relies on them. *)
Concerned(q) == \/ task[q].kind \in {"grant", "record"}
                \/ task[q].kind = "sync" /\ task[q].activate
                \/ task[q].kind = "activate" /\ step[q] = "set"

Change(p, mine, new) ==
    /\ status' = new
    /\ task' = [q \in Callers |->
                  IF q = p THEN mine
                  ELSE IF new = status THEN task[q]
                  ELSE [task[q] EXCEPT !.moved = Concerned(q)]]

-----------------------------------------------------------------------------
(* Activate and retire: set_capability_contract_status *)

RequestActivation(p) ==
    /\ step[p] = "idle" /\ SessionFree(p)
    /\ \E c \in Contracts :
         /\ status[c] # "none"
         /\ task' = [task EXCEPT ![p] = [NoTask EXCEPT !.kind = "activate",
                                                       !.row = c]]
    /\ Proceed(p, "retire")
    /\ UNCHANGED <<engine, status>>

OthersUnlessActive(c) ==
    {d \in Namesakes(c) : status[d] = "active" /\ status[c] # "active"}

(* The first UPDATE: whatever else is active under that name. *)
Others(c) == {d \in Namesakes(c) : status[d] = "active"}

RetireOthers(p) ==
    /\ step[p] = "retire" /\ SessionFree(p)
    /\ task' = [task EXCEPT ![p].retire = Others(task[p].row)]
    /\ Proceed(p, "set")
    /\ UNCHANGED <<engine, status>>

(* A row that another transaction changed meanwhile no longer matches.     *)
Retiring(p) == [c \in Contracts |->
                  IF c \in task[p].retire /\ status[c] = "active"
                  THEN "retired" ELSE status[c]]

(* The second UPDATE and the commit.  An import goes on to its next entry. *)
SetActive(p) ==
    /\ step[p] = "set" /\ SessionFree(p)
    /\ Change(p, IF task[p].kind = "sync"
                 THEN [task[p] EXCEPT !.todo = Tail(@), !.retire = {}]
                 ELSE NoTask,
              [Retiring(p) EXCEPT ![task[p].row] = "active"])
    /\ Proceed(p, IF task[p].kind = "sync" THEN "entry" ELSE "idle")
    /\ UNCHANGED engine

RetireRow(p) ==
    /\ step[p] = "idle" /\ SessionFree(p)
    /\ \E c \in Contracts :
         /\ status[c] # "none"
         /\ Change(p, NoTask, [status EXCEPT ![c] = "retired"])
    /\ UNCHANGED <<engine, step>>

-----------------------------------------------------------------------------
(* Import: sync_from_filesystem, one entry after another, each committed   *)

RequestSync(p) ==
    /\ step[p] = "idle"
    /\ \E image \in Images, activate \in BOOLEAN :
         task' = [task EXCEPT ![p] = [NoTask EXCEPT !.kind = "sync",
                          !.image = IF activate THEN image ELSE <<>>,
                          !.todo = image, !.activate = activate]]
    /\ Proceed(p, "entry")
    /\ UNCHANGED <<engine, status>>

EndSync(p) ==
    /\ step[p] = "entry" /\ task[p].todo = <<>>
    /\ Done(p)
    /\ UNCHANGED <<engine, status>>

DraftsOnly(p, seen) == task[p].activate /\ seen = "draft"

(* The status the lookup returned, however long ago. *)
WillActivate(p, seen) == task[p].activate /\ seen # "active"

AfterEntry(p, seen) ==
    IF WillActivate(p, seen)
    THEN /\ task' = [task EXCEPT ![p].row = Head(task[p].todo)]
         /\ Proceed(p, "retire")
    ELSE /\ task' = [task EXCEPT ![p].todo = Tail(@)]
         /\ Proceed(p, "entry")

(* A row that is there keeps its status. *)
LookUpEntry(p) ==
    /\ step[p] = "entry" /\ task[p].todo # <<>> /\ SessionFree(p)
    /\ LET c == Head(task[p].todo)
       IN IF status[c] # "none" THEN AfterEntry(p, status[c])
          ELSE Proceed(p, "insert") /\ UNCHANGED task
    /\ UNCHANGED <<engine, status>>

(* Another session; the row may have been inserted since, and the unique   *)
(* index then ends the import.                                             *)
InsertEntry(p) ==
    /\ step[p] = "insert" /\ SessionFree(p)
    /\ LET c == Head(task[p].todo)
       IN IF status[c] = "none"
          THEN AfterEntry(p, "draft") /\ status' = [status EXCEPT ![c] = "draft"]
          ELSE Done(p) /\ UNCHANGED status
    /\ UNCHANGED engine

-----------------------------------------------------------------------------
(* Pin: resolve_execution_capability_digests reads the agent's contract,   *)
(* then the tools, in two sessions                                         *)

(* What the decision behind the approval may have recorded: contracts that *)
(* have been in force since.                                               *)
EarlierPins ==
    LET past == {c \in Contracts : status[c] \in {"active", "retired"}}
    IN [agent: (past \cap AgentRows) \cup {Unpinned},
        tools: {S \in SUBSET (past \ AgentRows) :
                  \A c, d \in S : NameOf[c] = NameOf[d] => c = d}]

RequestGrant(p) ==
    /\ p \in Governed /\ step[p] = "idle"
    /\ \E pins \in EarlierPins :
         task' = [task EXCEPT ![p] = [NoTask EXCEPT !.kind = "grant",
                                                    !.against = pins]]
    /\ Proceed(p, "agent")
    /\ UNCHANGED <<engine, status>>

AgentForgotten(p) ==
    IF task[p].kind = "record" \/ ActiveRows(Agent) = {} THEN {Unpinned}
    ELSE ActiveRows(Agent)

(* The newest by the replicas' clocks, should several be active. *)
ActiveAgent(p) ==
    IF ActiveRows(Agent) = {} THEN {Unpinned} ELSE ActiveRows(Agent)

ReadAgent(p) ==
    /\ step[p] = "agent" /\ SessionFree(p)
    /\ \E c \in ActiveAgent(p) :
         task' = [task EXCEPT ![p].pins.agent = c]
    /\ Proceed(p, "tools")
    /\ UNCHANGED <<engine, status>>

AgentTools(p) ==
    LET a == task[p].pins.agent
    IN IF a = Unpinned \/ ToolsOf[a] = {} THEN ToolNames ELSE ToolsOf[a]

(* One row for every selected name that has one. *)
Selections(names) ==
    {S \in SUBSET {c \in Contracts : status[c] = "active"} :
       /\ \A c \in S : NameOf[c] \in names
       /\ \A n \in names : ActiveRows(n) # {} => Cardinality(S \cap ActiveRows(n)) = 1}

Differs(a, b, none) == a # none /\ b # none /\ a # b

Honoured(now, then) == /\ ~Differs(now.agent, then.agent, Unpinned)
                       /\ ~Differs(now.tools, then.tools, {})

(* A grant compares, consumes the approval and then, to record the         *)
(* decision, resolves once more.                                           *)
ReadTools(p) ==
    /\ step[p] = "tools" /\ SessionFree(p)
    /\ \E S \in Selections(AgentTools(p)) :
         LET pins == [task[p].pins EXCEPT !.tools = S]
         IN \/ /\ task[p].kind = "grant" /\ ~Honoured(pins, task[p].against)
               /\ Done(p)
            \/ /\ task[p].kind = "grant" /\ Honoured(pins, task[p].against)
               /\ task' = [task EXCEPT ![p].kind = "record",
                                       ![p].pins = NoPins,
                                       ![p].against = pins]
               /\ Proceed(p, "agent")
            \/ /\ task[p].kind = "record"
               /\ task' = [task EXCEPT ![p].pins = pins]
               /\ Proceed(p, "persist")
    /\ UNCHANGED <<engine, status>>

(* persist_evaluation writes the decision with its pins. *)
Persist(p) ==
    /\ step[p] = "persist" /\ SessionFree(p)
    /\ Done(p)
    /\ UNCHANGED <<engine, status>>

-----------------------------------------------------------------------------
(* The store fails a caller.  PostgreSQL rolls back; SQLite's shared       *)
(* connection keeps what was executed for whoever commits next.            *)
StoreFails(p) ==
    /\ step[p] # "idle"
    /\ \/ Done(p) /\ UNCHANGED status
       \/ /\ engine = "sqlite" /\ step[p] = "set"
          /\ Change(p, NoTask, Retiring(p))
          /\ Proceed(p, "idle")
    /\ UNCHANGED engine

Work(p) == \/ RetireOthers(p) \/ SetActive(p) \/ EndSync(p) \/ LookUpEntry(p)
           \/ InsertEntry(p) \/ ReadAgent(p) \/ ReadTools(p) \/ Persist(p)

Ask(p) == \/ RequestActivation(p) \/ RetireRow(p) \/ RequestSync(p)
          \/ RequestGrant(p)

ContractsNext == \E p \in Callers : Ask(p) \/ Work(p) \/ StoreFails(p)

ContractsSpec == ContractsInit /\ [][ContractsNext]_contractVars

-----------------------------------------------------------------------------
(* "Retire previously active contract for same kind/name/tenant": an       *)
(* activation leaves its contract alone in force, whatever it found and,   *)
(* on SQLite, whoever else is at work, since the session holds the only    *)
(* connection.  On PostgreSQL two that overlap can both stay active; there *)
(* it is said of an activation that nobody disturbs.                       *)
LoneActivationDecides ==
    [][\A p \in Callers :
         SetActive(p) /\ (engine = "sqlite" \/ ~task[p].moved) =>
            LET c == task[p].row
            IN {d \in Contracts : NameOf[d] = NameOf[c] /\ status'[d] = "active"}
                 = {c}]_contractVars

(* An import that activates and is not disturbed ends with every contract  *)
(* of its image in force, also those that were retired before, although    *)
(* each entry is a transaction of its own.                                 *)
SyncSelects ==
    [][\A p \in Callers :
         EndSync(p) /\ task[p].activate /\ ~task[p].moved =>
            \A i \in DOMAIN task[p].image :
               status[task[p].image[i]] = "active"]_contractVars

(* A granted request records the pins it was compared with, although it    *)
(* resolves them again after the approval has been consumed: other pins    *)
(* are recorded only when a status changed meanwhile, or when two          *)
(* contracts of one name were in force.                                    *)
GrantRecordsComparedPins ==
    [][\A p \in Callers :
         /\ Persist(p) /\ ~task[p].moved
         /\ \A n \in {NameOf[c] : c \in Contracts} : Cardinality(ActiveRows(n)) <= 1
         => task[p].pins = task[p].against]_contractVars
=============================================================================
