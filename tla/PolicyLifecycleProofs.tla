------------------------ MODULE PolicyLifecycleProofs ------------------------
(* Machine-checked safety of PolicyLifecycle, for every set of handlers,   *)
(* replicas and bundles, however activation transactions overlap and       *)
(* whatever the store keeps of a failed one.                               *)
EXTENDS PolicyLifecycle, TLAPS

(* A table of which every governing row was selected.                      *)
Governing == {"active", "previous"}

Table(rows, choices) ==
    /\ rows \in [Bundles -> RowTypes]
    /\ choices \subseteq Nat \X Bundles
    /\ \A b \in Bundles : rows[b].status \in Governing =>
                            <<rows[b].gen, b>> \in choices

(* The table shown may be ahead of the durable one, but only bundles with  *)
(* a durable row govern.                                                   *)
Tables ==
    /\ Table(row, selected) /\ Table(durable.row, durable.selected)
    /\ durable = [row |-> durable.row, selected |-> durable.selected]
    /\ durable.selected \subseteq selected
    /\ \A b \in Bundles :
         /\ row[b].status \in Governing => durable.row[b].status # "none"
         /\ durable.row[b].status # "none" => row[b].status # "none"
    /\ RollsBack => durable = Shown

ReplicasTyped ==
    /\ source \in Contents
    /\ up \in [Replicas -> BOOLEAN] /\ failed \in [Replicas -> BOOLEAN]
    /\ cache \in [Replicas -> Bundles]
    /\ previous \in [Replicas -> Bundles \cup {None}]
    /\ observed \in [Replicas -> Nat]
    /\ known \in [Replicas -> SUBSET Bundles]

(* What a handler at stage s may rely on when it works on job j: what was  *)
(* committed stays.                                                        *)
HasRow(b) == b \in Bundles /\ durable.row[b].status # "none"

Sound(s, j) ==
    /\ s \in {"lookup", "upsert"} => j.bundle \in Bundles
    /\ s = "begin" => j.kind = "rollback" \/ HasRow(j.bundle)
    /\ s \in {"retire", "commit", "switch"} => j.gen > 0 /\ HasRow(j.bundle)
    /\ (s \in {"switch", "read", "fallback"} \/ (s = "install" /\ j.kind = "rollback")) =>
         j.bundle \in Bundles /\ <<j.gen, j.bundle>> \in durable.selected
    /\ s = "install" => /\ j.found \in Bundles
                        /\ RollsBack => <<j.foundGen, j.found>> \in durable.selected

HandlersSound ==
    /\ pc \in [Handlers -> Stages]
    /\ job \in [Handlers -> JobTypes]
    /\ \A h \in Handlers : Sound(pc[h], job[h])

PolicyInv == Tables /\ ReplicasTyped /\ HandlersSound

(* Committed rows stay and committed selections are never forgotten: what  *)
(* other handlers rely on survives a step.                                 *)
Grows ==
    /\ \A b \in Bundles : durable.row[b].status # "none" =>
                            durable'.row[b].status # "none"
    /\ durable.selected \subseteq durable'.selected

LEMMA InvImpliesType == PolicyInv => TypeOK
<1> SUFFICES ASSUME PolicyInv PROVE TypeOK
  OBVIOUS
<1>1. Shown \in [row: [Bundles -> RowTypes], selected: SUBSET (Nat \X Bundles)]
  BY DEF PolicyInv, Tables, Table, Shown
<1>2. ASSUME NEW h \in Handlers
      PROVE  /\ pc[h] \in {"retire", "commit", "switch"} =>
                  job[h].gen > 0 /\ job[h].bundle \in Bundles
                    /\ row[job[h].bundle].status # "none"
             /\ RollsBack /\ pc[h] = "install" =>
                  <<job[h].foundGen, job[h].found>> \in selected
  BY DEF PolicyInv, HandlersSound, Sound, HasRow, Tables
<1> QED
  BY <1>1, <1>2 DEF PolicyInv, Tables, ReplicasTyped, HandlersSound, TypeOK

LEMMA InvInit == Init => PolicyInv
  BY PolicyAssumption
  DEF Init, PolicyInv, Tables, Table, Governing, Shown, ReplicasTyped,
      HandlersSound, Sound, RowTypes, NoRow, NoJob, Stages, Kinds, JobTypes

LEMMA NoJobTyped == NoJob \in JobTypes
  BY DEF NoJob, JobTypes, Kinds

LEMMA SoundStays ==
  ASSUME Grows, NEW s, NEW j, Sound(s, j)
  PROVE  Sound(s, j)'
  BY DEF Grows, Sound, HasRow

(* A step of handler h that leaves it at stage s with job j. *)
LEMMA HandlerMoves ==
  ASSUME HandlersSound, Grows, NEW h \in Handlers, NEW s \in Stages,
         NEW j \in JobTypes, pc' = [pc EXCEPT ![h] = s],
         job' = [job EXCEPT ![h] = j], Sound(s, j)'
  PROVE  HandlersSound'
<1>1. pc' \in [Handlers -> Stages] /\ job' \in [Handlers -> JobTypes]
  BY DEF HandlersSound
<1>2. ASSUME NEW k \in Handlers PROVE Sound(pc[k], job[k])'
  <2>1. CASE k = h
    <3>1. pc'[k] = s /\ job'[k] = j
      BY <2>1 DEF HandlersSound
    <3> QED
      BY <3>1 DEF Sound
  <2>2. CASE k # h
    <3>1. pc'[k] = pc[k] /\ job'[k] = job[k]
      BY <2>2 DEF HandlersSound
    <3>2. Sound(pc[k], job[k])
      BY DEF HandlersSound
    <3> QED
      BY <3>1, <3>2 DEF Sound, Grows, HasRow
  <2> QED
    BY <2>1, <2>2
<1> QED
  BY <1>1, <1>2 DEF HandlersSound

(* The same when the new job is made of the old one. *)
LEMMA HandlerSteps ==
  ASSUME HandlersSound, Grows, NEW h \in Handlers, NEW s \in Stages,
         pc' = [pc EXCEPT ![h] = s], job' = [job EXCEPT ![h] = job'[h]],
         job'[h] \in JobTypes, Sound(s, job[h])'
  PROVE  HandlersSound'
<1>1. PICK j \in JobTypes : j = job'[h]
  OBVIOUS
<1>2. Sound(s, j)'
  BY <1>1 DEF Sound
<1>3. job' = [job EXCEPT ![h] = j]
  BY <1>1
<1> QED
  BY <1>2, <1>3, HandlerMoves

LEMMA HandlersStay ==
  ASSUME HandlersSound, Grows, UNCHANGED <<pc, job>>
  PROVE  HandlersSound'
  BY DEF HandlersSound, Grows, Sound, HasRow

LEMMA HandlerEnds ==
  ASSUME HandlersSound, ReplicasTyped, Grows, NEW h \in Handlers, Finish(h)
  PROVE  HandlersSound' /\ up' \in [Replicas -> BOOLEAN]
<1>1. "idle" \in Stages /\ Sound("idle", NoJob)'
  BY DEF Stages, Sound
<1>2. pc' = [pc EXCEPT ![h] = "idle"] /\ job' = [job EXCEPT ![h] = NoJob]
  BY DEF Finish, Goto
<1>3. HandlersSound'
  BY <1>1, <1>2, NoJobTyped, HandlerMoves
<1>4. up' \in [Replicas -> BOOLEAN]
  BY DEF Finish, ReplicasTyped
<1> QED
  BY <1>3, <1>4

LEMMA TablesStay ==
  ASSUME Tables, UNCHANGED store
  PROVE  Tables' /\ Grows
  BY DEF Tables, Table, store, Shown, Grows

(* The three ways the tables move: what is shown is committed, it runs     *)
(* ahead of what is durable, and it goes back.                             *)
Ahead == /\ Table(row', selected') /\ selected \subseteq selected'
         /\ \A b \in Bundles : row[b].status # "none" => row'[b].status # "none"

LEMMA TablesCommit ==
  ASSUME Tables, Ahead, durable' = Shown'
  PROVE  Tables' /\ Grows
<1>1. durable'.row = row' /\ durable'.selected = selected'
  BY DEF Shown
<1>2. Table(durable.row, durable.selected)'
  BY <1>1 DEF Ahead, Table
<1> QED
  BY <1>1, <1>2 DEF Tables, Table, Ahead, Grows, Shown, Governing

LEMMA TablesPend ==
  ASSUME Tables, Ahead, ~RollsBack, durable' = durable,
         \A b \in Bundles : row'[b].status \in Governing =>
                               durable.row[b].status # "none"
  PROVE  Tables' /\ Grows
  BY DEF Tables, Table, Ahead, Grows

LEMMA TablesGoBack ==
  ASSUME Tables, GoBack
  PROVE  Tables' /\ Grows
<1>1. row' = durable.row /\ selected' = durable.selected /\ durable' = durable
  BY DEF GoBack
<1>2. durable' = Shown'
  BY <1>1 DEF Tables, Shown
<1> QED
  BY <1>1, <1>2 DEF Tables, Table, Grows, Governing

(* A generation read with MAX is a number. *)
LEMMA HighestIsNat ==
  ASSUME Tables, NEW g \in Highest
  PROVE  g \in Nat
  BY DEF Tables, Table, Highest, RowTypes

LEMMA CurrentSelected ==
  ASSUME Tables, NEW b \in Current
  PROVE  /\ b \in Bundles /\ row[b].gen \in Nat
         /\ RollsBack => <<row[b].gen, b>> \in durable.selected
  BY DEF Tables, Table, Governing, Current, Newest, Having, RowTypes, Shown

LEMMA LastGoodKnown ==
  ASSUME Tables, NEW b \in LastGood
  PROVE  HasRow(b)
  BY DEF Tables, Governing, LastGood, Newest, Having, HasRow

(* The statements of an upsert and of an activation, executed.             *)
LEMMA UpsertedRows ==
  ASSUME Tables, NEW h \in Handlers, job[h].bundle \in Bundles
  PROVE  /\ Table(Upserted(h), selected)
         /\ Upserted(h)[job[h].bundle].status # "none"
         /\ \A b \in Bundles :
              /\ Upserted(h)[b].gen = row[b].gen
              /\ row[b].status # "none" => Upserted(h)[b].status # "none"
              /\ \/ Upserted(h)[b].status = row[b].status
                 \/ {Upserted(h)[b].status, row[b].status} \cap Governing = {}
  BY DEF Tables, Table, Governing, Upserted, UpsertStatus, RowTypes

LEMMA RetiredRows ==
  ASSUME Tables, NEW h \in Handlers
  PROVE  /\ Table(Retired(h), selected)
         /\ \A b \in Bundles :
              /\ Retired(h)[b].gen = row[b].gen
              /\ \/ Retired(h)[b].status = row[b].status
                 \/ row[b].status = "active" /\ Retired(h)[b].status = "previous"
<1>1. ASSUME NEW b \in Bundles
      PROVE  /\ Retired(h)[b] \in RowTypes /\ Retired(h)[b].gen = row[b].gen
             /\ \/ Retired(h)[b].status = row[b].status
                \/ row[b].status = "active" /\ Retired(h)[b].status = "previous"
  <2>1. row[b] \in RowTypes
    BY DEF Tables, Table
  <2>2. Retired(h)[b] = IF b \in job[h].retire /\ row[b].status = "active"
                        THEN [row[b] EXCEPT !.status = "previous"] ELSE row[b]
    BY DEF Retired
  <2> QED
    BY <2>1, <2>2 DEF RowTypes
<1>2. Retired(h) \in [Bundles -> RowTypes]
  BY <1>1 DEF Retired
<1>3. Table(Retired(h), selected)
  BY <1>1, <1>2 DEF Tables, Table, Governing
<1> QED
  BY <1>1, <1>3

LEMMA SelectedRows ==
  ASSUME Tables, NEW h \in Handlers, HasRow(job[h].bundle), job[h].gen \in Nat,
         Select(h)
  PROVE  /\ Ahead
         /\ row'[job[h].bundle] = [status |-> "active", gen |-> job[h].gen]
         /\ \A c \in Bundles \ {job[h].bundle} : row'[c] = Retired(h)[c]
<1> DEFINE b == job[h].bundle
<1>1. /\ row' = [Retired(h) EXCEPT ![b] = [status |-> "active", gen |-> job[h].gen]]
      /\ selected' = selected \cup {<<job[h].gen, b>>} /\ b \in Bundles
  BY DEF Select, HasRow
<1>2. Retired(h) \in [Bundles -> RowTypes]
  BY RetiredRows DEF Table
<1>3. /\ row'[b] = [status |-> "active", gen |-> job[h].gen]
      /\ \A c \in Bundles \ {b} : row'[c] = Retired(h)[c]
  BY <1>1, <1>2
<1>4. row' \in [Bundles -> RowTypes] /\ selected' \subseteq Nat \X Bundles
  BY <1>1, <1>2 DEF RowTypes, Tables, Table
<1>5. ASSUME NEW c \in Bundles
      PROVE  /\ row'[c].status \in Governing => <<row'[c].gen, c>> \in selected'
             /\ row[c].status # "none" => row'[c].status # "none"
  <2>1. CASE c = b
    BY <1>1, <1>3, <2>1
  <2>2. CASE c # b
    <3>1. row'[c] = Retired(h)[c]
      BY <1>3, <2>2
    <3>2. Retired(h)[c].status \in Governing => <<Retired(h)[c].gen, c>> \in selected
      BY RetiredRows DEF Table
    <3>3. row[c].status # "none" => Retired(h)[c].status # "none"
      BY RetiredRows
    <3> QED
      BY <1>1, <3>1, <3>2, <3>3
  <2> QED
    BY <2>1, <2>2
<1>6. Ahead
  BY <1>1, <1>4, <1>5 DEF Ahead, Table
<1> QED
  BY <1>3, <1>6

LEMMA SourceTyped ==
  ASSUME ReplicasTyped
  PROVE  source \in [Bundles -> Bundles \cup {None}]
  BY PolicyAssumption DEF ReplicasTyped

-----------------------------------------------------------------------------
(* Every step keeps the invariant: requests first. *)

LEMMA ValidateKeeps ==
  ASSUME PolicyInv, NEW h \in Handlers, Validate(h)
  PROVE  PolicyInv'
<1>1. Tables' /\ Grows
  BY TablesStay DEF Validate, PolicyInv
<1>2. PICK b \in Bundles :
        /\ known' = [known EXCEPT ![On[h]] = @ \cup {b}]
        /\ job' = [job EXCEPT ![h] = [NoJob EXCEPT !.kind = "validate", !.bundle = b]]
  BY DEF Validate
<1>3. ReplicasTyped'
  BY <1>2, PolicyAssumption DEF Validate, PolicyInv, ReplicasTyped
<1>4. HandlersSound'
  <2> DEFINE j == [NoJob EXCEPT !.kind = "validate", !.bundle = b]
  <2>1. j \in JobTypes /\ j.bundle = b
    BY DEF JobTypes, NoJob, Kinds
  <2>2. Sound("upsert", j)' /\ "upsert" \in Stages
    BY <2>1 DEF Sound, Stages
  <2>3. pc' = [pc EXCEPT ![h] = "upsert"] /\ job' = [job EXCEPT ![h] = j]
    BY <1>2 DEF Validate, Goto
  <2> QED
    BY <1>1, <2>1, <2>2, <2>3, HandlerMoves DEF PolicyInv
<1> QED
  BY <1>1, <1>3, <1>4 DEF PolicyInv

LEMMA RequestActivateKeeps ==
  ASSUME PolicyInv, NEW h \in Handlers, RequestActivate(h)
  PROVE  PolicyInv'
<1>1. Tables' /\ Grows
  BY TablesStay DEF RequestActivate, PolicyInv
<1>2. ReplicasTyped'
  BY DEF RequestActivate, PolicyInv, ReplicasTyped, replica
<1>3. PICK b \in Bundles :
        job' = [job EXCEPT ![h] = [NoJob EXCEPT !.kind = "activate", !.bundle = b]]
  BY DEF RequestActivate
<1>4. HandlersSound'
  <2> DEFINE j == [NoJob EXCEPT !.kind = "activate", !.bundle = b]
  <2>1. j \in JobTypes /\ j.bundle = b
    BY DEF JobTypes, NoJob, Kinds
  <2>2. Sound("lookup", j)' /\ "lookup" \in Stages
    BY <2>1 DEF Sound, Stages
  <2>3. pc' = [pc EXCEPT ![h] = "lookup"] /\ job' = [job EXCEPT ![h] = j]
    BY <1>3 DEF RequestActivate, Goto
  <2> QED
    BY <1>1, <2>1, <2>2, <2>3, HandlerMoves DEF PolicyInv
<1> QED
  BY <1>1, <1>2, <1>4 DEF PolicyInv

LEMMA RequestRollbackKeeps ==
  ASSUME PolicyInv, NEW h \in Handlers, RequestRollback(h)
  PROVE  PolicyInv'
<1>1. Tables' /\ Grows
  BY TablesStay DEF RequestRollback, PolicyInv
<1>2. ReplicasTyped'
  BY DEF RequestRollback, PolicyInv, ReplicasTyped, replica
<1>3. HandlersSound'
  <2>1. CASE /\ job' = [job EXCEPT ![h] = [NoJob EXCEPT !.kind = "rollback"]]
             /\ Goto(h, "begin")
    <3> DEFINE j == [NoJob EXCEPT !.kind = "rollback"]
    <3>1. j \in JobTypes /\ j.kind = "rollback"
      BY DEF JobTypes, NoJob, Kinds
    <3>2. Sound("begin", j)' /\ "begin" \in Stages
      BY <3>1 DEF Sound, Stages
    <3> QED
      BY <1>1, <2>1, <3>1, <3>2, HandlerMoves DEF PolicyInv, Goto
  <2>2. CASE /\ previous[On[h]] # None
             /\ job' = [job EXCEPT ![h] = [NoJob EXCEPT !.kind = "activate",
                                                   !.bundle = previous[On[h]]]]
             /\ Goto(h, "lookup")
    <3>1. PICK b \in Bundles : b = previous[On[h]]
      BY <2>2, PolicyAssumption DEF PolicyInv, ReplicasTyped
    <3> DEFINE j == [NoJob EXCEPT !.kind = "activate", !.bundle = b]
    <3>2. j \in JobTypes /\ j.bundle = b
      BY <3>1 DEF JobTypes, NoJob, Kinds
    <3>3. Sound("lookup", j)' /\ "lookup" \in Stages
      BY <3>2 DEF Sound, Stages
    <3>4. pc' = [pc EXCEPT ![h] = "lookup"] /\ job' = [job EXCEPT ![h] = j]
      BY <2>2, <3>1 DEF Goto
    <3> QED
      BY <1>1, <3>2, <3>3, <3>4, HandlerMoves DEF PolicyInv
  <2> QED
    BY <2>1, <2>2 DEF RequestRollback
<1> QED
  BY <1>1, <1>2, <1>3 DEF PolicyInv

LEMMA ReadActiveKeeps ==
  ASSUME PolicyInv, NEW h \in Handlers, ReadActive(h)
  PROVE  PolicyInv'
<1>1. Tables' /\ Grows
  BY TablesStay DEF ReadActive, PolicyInv
<1>2. ReplicasTyped'
  BY DEF ReadActive, PolicyInv, ReplicasTyped, replica
<1>3. PICK b \in Current :
        job' = [job EXCEPT ![h] = [NoJob EXCEPT !.kind = "sync", !.found = b,
                                                !.foundGen = row[b].gen]]
  BY DEF ReadActive
<1>4. HandlersSound'
  <2>1. PICK g \in Nat : g = row[b].gen
    BY CurrentSelected DEF PolicyInv
  <2>2. b \in Bundles /\ (RollsBack => <<g, b>> \in durable.selected)
    BY <2>1, CurrentSelected DEF PolicyInv
  <2> DEFINE j == [NoJob EXCEPT !.kind = "sync", !.found = b, !.foundGen = g]
  <2>3. j \in JobTypes /\ j.kind = "sync" /\ j.found = b /\ j.foundGen = g
    BY <2>2 DEF JobTypes, NoJob, Kinds
  <2>4. Sound("install", j)' /\ "install" \in Stages
    BY <1>1, <2>2, <2>3 DEF Sound, Stages, Grows
  <2>5. pc' = [pc EXCEPT ![h] = "install"] /\ job' = [job EXCEPT ![h] = j]
    BY <1>3, <2>1 DEF ReadActive, Goto
  <2> QED
    BY <1>1, <2>3, <2>4, <2>5, HandlerMoves DEF PolicyInv
<1> QED
  BY <1>1, <1>2, <1>4 DEF PolicyInv

LEMMA BootKeeps ==
  ASSUME PolicyInv, NEW h \in Handlers, Boot(h)
  PROVE  PolicyInv'
<1>1. Tables' /\ Grows
  BY TablesStay DEF Boot, PolicyInv
<1>2. ReplicasTyped'
  BY DEF Boot, PolicyInv, ReplicasTyped, replica
<1>3. HandlersSound'
  <2>1. ASSUME NEW b \in Current,
               job' = [job EXCEPT ![h] = [NoJob EXCEPT !.kind = "boot",
                                      !.found = b, !.foundGen = row[b].gen]],
               Goto(h, "install")
        PROVE  HandlersSound'
    <3>1. PICK g \in Nat : g = row[b].gen
      BY CurrentSelected DEF PolicyInv
    <3>2. b \in Bundles /\ (RollsBack => <<g, b>> \in durable.selected)
      BY <3>1, CurrentSelected DEF PolicyInv
    <3> DEFINE j == [NoJob EXCEPT !.kind = "boot", !.found = b, !.foundGen = g]
    <3>3. j \in JobTypes /\ j.kind = "boot" /\ j.found = b /\ j.foundGen = g
      BY <3>2 DEF JobTypes, NoJob, Kinds
    <3>4. Sound("install", j)' /\ "install" \in Stages
      BY <1>1, <3>2, <3>3 DEF Sound, Stages, Grows
    <3>5. pc' = [pc EXCEPT ![h] = "install"] /\ job' = [job EXCEPT ![h] = j]
      BY <2>1, <3>1 DEF Goto
    <3> QED
      BY <1>1, <3>3, <3>4, <3>5, HandlerMoves DEF PolicyInv
  <2>2. CASE /\ job' = [job EXCEPT ![h] = [NoJob EXCEPT !.kind = "boot",
                                                        !.bundle = Seed]]
             /\ Goto(h, "upsert")
    <3> DEFINE j == [NoJob EXCEPT !.kind = "boot", !.bundle = Seed]
    <3>1. j \in JobTypes /\ j.bundle \in Bundles
      BY PolicyAssumption DEF JobTypes, NoJob, Kinds
    <3>2. Sound("upsert", j)' /\ "upsert" \in Stages
      BY <3>1 DEF Sound, Stages
    <3> QED
      BY <1>1, <2>2, <3>1, <3>2, HandlerMoves DEF PolicyInv, Goto
  <2> QED
    BY <2>1, <2>2 DEF Boot
<1> QED
  BY <1>1, <1>2, <1>3 DEF PolicyInv

-----------------------------------------------------------------------------
(* The steps of the activation transaction. *)

LEMMA LookupKeeps ==
  ASSUME PolicyInv, NEW h \in Handlers, Lookup(h)
  PROVE  PolicyInv'
<1> DEFINE r == On[h]
           b == job[h].bundle
           loaded == IF row[b].status = "none" THEN None ELSE source[b]
<1>1. Tables' /\ Grows
  BY TablesStay DEF Lookup, PolicyInv
<1>2. pc[h] = "lookup" /\ job[h] \in JobTypes /\ b \in Bundles
  BY DEF Lookup, PolicyInv, HandlersSound, Sound
<1>3. CASE Goto(h, "upsert") /\ UNCHANGED <<job, replica>>
  <2>1. Sound("upsert", job[h])' /\ "upsert" \in Stages /\ job'[h] \in JobTypes
    BY <1>2, <1>3 DEF Sound, Stages
  <2>2. job' = [job EXCEPT ![h] = job'[h]]
    BY <1>3 DEF PolicyInv, HandlersSound
  <2>3. HandlersSound'
    BY <1>1, <1>3, <2>1, <2>2, HandlerSteps DEF PolicyInv, Goto
  <2>4. ReplicasTyped'
    BY <1>3 DEF Lookup, PolicyInv, ReplicasTyped, replica
  <2> QED
    BY <1>1, <2>3, <2>4 DEF PolicyInv
<1>4. CASE /\ loaded # None
           /\ known' = [known EXCEPT ![r] = @ \cup {loaded}]
           /\ job' = [job EXCEPT ![h].bundle = loaded]
           /\ Goto(h, "upsert")
           /\ UNCHANGED <<up, cache, previous, observed, failed>>
  <2>1. loaded \in Bundles
    BY <1>2, <1>4, SourceTyped DEF PolicyInv
  <2>2. job'[h] \in JobTypes /\ job'[h].bundle = loaded
    BY <1>2, <1>4, <2>1 DEF PolicyInv, HandlersSound, JobTypes
  <2>3. Sound("upsert", job[h])' /\ "upsert" \in Stages
    BY <2>1, <2>2 DEF Sound, Stages
  <2>4. job' = [job EXCEPT ![h] = job'[h]]
    BY <1>4 DEF PolicyInv, HandlersSound
  <2>5. HandlersSound'
    BY <1>1, <1>4, <2>2, <2>3, <2>4, HandlerSteps DEF PolicyInv, Goto
  <2>6. ReplicasTyped'
    BY <1>4, <2>1, PolicyAssumption DEF Lookup, PolicyInv, ReplicasTyped
  <2> QED
    BY <1>1, <2>5, <2>6 DEF PolicyInv
<1>5. CASE Finish(h) /\ UNCHANGED <<cache, previous, observed, failed, known>>
  <2>1. HandlersSound' /\ up' \in [Replicas -> BOOLEAN]
    BY <1>1, <1>5, HandlerEnds DEF PolicyInv
  <2>2. ReplicasTyped'
    BY <1>5, <2>1 DEF Lookup, PolicyInv, ReplicasTyped
  <2> QED
    BY <1>1, <2>1, <2>2 DEF PolicyInv
<1> QED
  BY <1>3, <1>4, <1>5 DEF Lookup, AfterLookup

LEMMA UpsertKeeps ==
  ASSUME PolicyInv, NEW h \in Handlers, Upsert(h)
  PROVE  PolicyInv'
<1> DEFINE b == job[h].bundle
<1>1. b \in Bundles /\ job[h] \in JobTypes
  BY DEF Upsert, PolicyInv, HandlersSound, Sound
<1>2. row' = Upserted(h) /\ selected' = selected /\ durable' = Shown'
  BY DEF Upsert
<1>3. Ahead /\ row'[b].status # "none"
  BY <1>1, <1>2, UpsertedRows DEF Ahead, PolicyInv
<1>4. Tables' /\ Grows
  BY <1>2, <1>3, TablesCommit DEF PolicyInv
<1>5. durable'.row[b].status # "none"
  BY <1>2, <1>3 DEF Shown
<1>6. CASE Finish(h)
  <2>1. HandlersSound' /\ up' \in [Replicas -> BOOLEAN]
    BY <1>4, <1>6, HandlerEnds DEF PolicyInv
  <2>2. ReplicasTyped'
    BY <2>1 DEF Upsert, PolicyInv, ReplicasTyped
  <2> QED
    BY <1>4, <2>1, <2>2 DEF PolicyInv
<1>7. CASE Goto(h, "begin") /\ UNCHANGED <<job, up>>
  <2>1. Sound("begin", job[h])' /\ "begin" \in Stages /\ job'[h] \in JobTypes
    BY <1>1, <1>5, <1>7 DEF Sound, Stages, HasRow
  <2>2. job' = [job EXCEPT ![h] = job'[h]]
    BY <1>7 DEF PolicyInv, HandlersSound
  <2>3. HandlersSound'
    BY <1>4, <1>7, <2>1, <2>2, HandlerSteps DEF PolicyInv, Goto
  <2>4. ReplicasTyped'
    BY <1>7 DEF Upsert, PolicyInv, ReplicasTyped
  <2> QED
    BY <1>4, <2>3, <2>4 DEF PolicyInv
<1> QED
  BY <1>6, <1>7 DEF Upsert

LEMMA BeginKeeps ==
  ASSUME PolicyInv, NEW h \in Handlers, Begin(h)
  PROVE  PolicyInv'
<1>1. Tables' /\ Grows
  BY TablesStay DEF Begin, PolicyInv
<1>2. ASSUME NEW b \in Target(h), NEW g \in Highest,
             job' = [job EXCEPT ![h] = [@ EXCEPT !.bundle = b, !.gen = g + 1]],
             Goto(h, "retire"), UNCHANGED up
      PROVE  PolicyInv'
  <2>1. g \in Nat /\ g + 1 \in Nat /\ g + 1 > 0
    BY HighestIsNat, SMT DEF PolicyInv
  <2>2. HasRow(b) /\ b \in Bundles
    BY LastGoodKnown DEF Target, Begin, PolicyInv, HandlersSound, Sound, HasRow
  <2>3. /\ job'[h] = [job[h] EXCEPT !.bundle = b, !.gen = g + 1]
        /\ job[h] \in JobTypes
    BY <1>2 DEF PolicyInv, HandlersSound
  <2> DEFINE n == g + 1
  <2> HIDE DEF n
  <2>4. n \in Nat /\ n > 0 /\ job'[h] = [job[h] EXCEPT !.bundle = b, !.gen = n]
    BY <2>1, <2>3 DEF n
  <2>5. job'[h] \in JobTypes /\ job'[h].bundle = b /\ job'[h].gen > 0
    BY <2>2, <2>3, <2>4 DEF JobTypes
  <2>6. Sound("retire", job[h])' /\ "retire" \in Stages
    BY <1>1, <2>2, <2>5 DEF Sound, Stages, Grows, HasRow
  <2>7. job' = [job EXCEPT ![h] = job'[h]]
    BY <1>2 DEF PolicyInv, HandlersSound
  <2>8. HandlersSound'
    BY <1>1, <1>2, <2>5, <2>6, <2>7, HandlerSteps DEF PolicyInv, Goto
  <2>9. ReplicasTyped'
    BY <1>2 DEF Begin, PolicyInv, ReplicasTyped
  <2> QED
    BY <1>1, <2>8, <2>9 DEF PolicyInv
<1>3. CASE Finish(h)
  <2>1. HandlersSound' /\ up' \in [Replicas -> BOOLEAN]
    BY <1>1, <1>3, HandlerEnds DEF PolicyInv
  <2>2. ReplicasTyped'
    BY <2>1 DEF Begin, PolicyInv, ReplicasTyped
  <2> QED
    BY <1>1, <2>1, <2>2 DEF PolicyInv
<1> QED
  BY <1>2, <1>3 DEF Begin

LEMMA RetireKeeps ==
  ASSUME PolicyInv, NEW h \in Handlers, Retire(h)
  PROVE  PolicyInv'
<1>1. Tables' /\ Grows
  BY TablesStay DEF Retire, PolicyInv
<1>2. ReplicasTyped'
  BY DEF Retire, PolicyInv, ReplicasTyped, replica
<1>3. /\ pc[h] = "retire" /\ job[h] \in JobTypes
      /\ job'[h] = [job[h] EXCEPT !.retire = Having("active") \ {job[h].bundle}]
  BY DEF Retire, PolicyInv, HandlersSound
<1>4. /\ job'[h] \in JobTypes /\ job'[h].bundle = job[h].bundle
      /\ job'[h].gen = job[h].gen
  BY <1>3 DEF JobTypes, Having
<1>5. Sound("retire", job[h])
  BY <1>3 DEF PolicyInv, HandlersSound
<1>6. Sound("commit", job[h])' /\ "commit" \in Stages
  BY <1>1, <1>4, <1>5 DEF Sound, Stages, Grows, HasRow
<1>7. job' = [job EXCEPT ![h] = job'[h]]
  BY DEF Retire, PolicyInv, HandlersSound
<1>8. HandlersSound'
  BY <1>1, <1>4, <1>6, <1>7, HandlerSteps DEF Retire, PolicyInv, Goto
<1> QED
  BY <1>1, <1>2, <1>8 DEF PolicyInv

(* The commit is what selects: rows it retires keep their generation. *)
LEMMA CommitKeeps ==
  ASSUME PolicyInv, NEW h \in Handlers, Commit(h)
  PROVE  PolicyInv'
<1> DEFINE b == job[h].bundle
<1>1. /\ pc[h] = "commit" /\ job[h] \in JobTypes
      /\ HasRow(b) /\ b \in Bundles /\ job[h].gen \in Nat /\ job[h].gen > 0
  BY DEF Commit, PolicyInv, HandlersSound, Sound, JobTypes, HasRow
<1>2. Select(h) /\ durable' = Shown'
  BY DEF Commit
<1>3. Ahead /\ row'[b] = [status |-> "active", gen |-> job[h].gen]
  BY <1>1, <1>2, SelectedRows DEF PolicyInv
<1>4. Tables' /\ Grows
  BY <1>2, <1>3, TablesCommit DEF PolicyInv
<1>5. durable'.row[b].status # "none" /\ <<job[h].gen, b>> \in durable'.selected
  BY <1>2, <1>3 DEF Shown, Select
<1>6. ReplicasTyped'
  BY DEF Commit, PolicyInv, ReplicasTyped, replica
<1>7. job' = [job EXCEPT ![h] = job'[h]] /\ job'[h] = job[h]
  BY DEF Commit, PolicyInv, HandlersSound
<1>8. Sound("read", job[h])' /\ Sound("switch", job[h])'
  BY <1>1, <1>5, <1>7 DEF Sound, HasRow
<1>9. "read" \in Stages /\ "switch" \in Stages
  BY DEF Stages
<1>10. \/ pc' = [pc EXCEPT ![h] = "read"]
       \/ pc' = [pc EXCEPT ![h] = "switch"]
  BY DEF Commit, Goto
<1>11. HandlersSound'
  BY <1>1, <1>4, <1>7, <1>8, <1>9, <1>10, HandlerSteps DEF PolicyInv
<1> QED
  BY <1>4, <1>6, <1>11 DEF PolicyInv

-----------------------------------------------------------------------------
(* What replicas do to themselves. *)

LEMMA SwitchOverKeeps ==
  ASSUME PolicyInv, NEW h \in Handlers, SwitchOver(h)
  PROVE  PolicyInv'
<1>1. Tables' /\ Grows
  BY TablesStay DEF SwitchOver, PolicyInv
<1>2. HandlersSound' /\ up' \in [Replicas -> BOOLEAN]
  BY <1>1, HandlerEnds DEF SwitchOver, PolicyInv
<1>3. job[h].bundle \in Bundles /\ job[h].gen \in Nat
  BY DEF SwitchOver, PolicyInv, HandlersSound, Sound, JobTypes
<1>4. ReplicasTyped'
  BY <1>2, <1>3, PolicyAssumption
  DEF SwitchOver, RunBundle, Generation, PolicyInv, ReplicasTyped
<1> QED
  BY <1>1, <1>2, <1>4 DEF PolicyInv

LEMMA ReadBackKeeps ==
  ASSUME PolicyInv, NEW h \in Handlers, ReadBack(h)
  PROVE  PolicyInv'
<1>1. Tables' /\ Grows
  BY TablesStay DEF ReadBack, PolicyInv
<1>2. ReplicasTyped'
  BY DEF ReadBack, PolicyInv, ReplicasTyped, replica
<1>3. /\ job[h] \in JobTypes /\ job[h].bundle \in Bundles
      /\ <<job[h].gen, job[h].bundle>> \in durable.selected
  BY DEF ReadBack, PolicyInv, HandlersSound, Sound
<1>4. ASSUME NEW b \in Current,
             job' = [job EXCEPT ![h] = [@ EXCEPT !.found = b,
                                                 !.foundGen = row[b].gen]],
             Goto(h, "install")
      PROVE  HandlersSound'
  <2>1. PICK g \in Nat : g = row[b].gen
    BY CurrentSelected DEF PolicyInv
  <2>2. b \in Bundles /\ (RollsBack => <<g, b>> \in durable.selected)
    BY <2>1, CurrentSelected DEF PolicyInv
  <2>3. job'[h] = [job[h] EXCEPT !.found = b, !.foundGen = g]
    BY <1>4, <2>1 DEF PolicyInv, HandlersSound
  <2>4. /\ job'[h] \in JobTypes /\ job'[h].found = b /\ job'[h].foundGen = g
        /\ job'[h].bundle = job[h].bundle /\ job'[h].gen = job[h].gen
    BY <1>3, <2>2, <2>3 DEF JobTypes
  <2>5. Sound("install", job[h])' /\ "install" \in Stages
    BY <1>1, <1>3, <2>2, <2>4 DEF Sound, Stages, Grows
  <2>6. job' = [job EXCEPT ![h] = job'[h]]
    BY <1>4 DEF PolicyInv, HandlersSound
  <2> QED
    BY <1>1, <1>4, <2>4, <2>5, <2>6, HandlerSteps DEF PolicyInv, Goto
<1>5. ASSUME Goto(h, "fallback"), UNCHANGED job
      PROVE  HandlersSound'
  <2>1. job' = [job EXCEPT ![h] = job'[h]] /\ job'[h] = job[h]
    BY <1>5 DEF PolicyInv, HandlersSound
  <2>2. Sound("fallback", job[h])' /\ "fallback" \in Stages
    BY <1>1, <1>3, <2>1 DEF Sound, Stages, Grows
  <2> QED
    BY <1>1, <1>3, <1>5, <2>1, <2>2, HandlerSteps DEF PolicyInv, Goto
<1>6. HandlersSound'
  BY <1>4, <1>5 DEF ReadBack
<1> QED
  BY <1>1, <1>2, <1>6 DEF PolicyInv

LEMMA FallbackKeeps ==
  ASSUME PolicyInv, NEW h \in Handlers, Fallback(h)
  PROVE  PolicyInv'
<1>1. Tables' /\ Grows
  BY TablesStay DEF Fallback, PolicyInv
<1>2. HandlersSound' /\ up' \in [Replicas -> BOOLEAN]
  BY <1>1, HandlerEnds DEF Fallback, PolicyInv
<1>3. /\ job[h].gen \in Nat
      /\ source[job[h].bundle] \in Bundles \cup {None}
  BY SourceTyped DEF Fallback, PolicyInv, HandlersSound, Sound, JobTypes
<1>4. ReplicasTyped'
  BY <1>2, <1>3, PolicyAssumption DEF Fallback, RunBundle, PolicyInv, ReplicasTyped
<1> QED
  BY <1>1, <1>2, <1>4 DEF PolicyInv

LEMMA InstallKeeps ==
  ASSUME PolicyInv, NEW h \in Handlers, Install(h)
  PROVE  PolicyInv'
<1>1. Tables' /\ Grows
  BY TablesStay DEF Install, PolicyInv
<1>2. /\ pc[h] = "install" /\ job[h] \in JobTypes /\ Sound("install", job[h])
      /\ job[h].found \in Bundles /\ job[h].foundGen \in Nat
  BY DEF Install, PolicyInv, HandlersSound, Sound, JobTypes
<1>3. /\ cache' \in [Replicas -> Bundles] /\ observed' \in [Replicas -> Nat]
      /\ previous' \in [Replicas -> Bundles \cup {None}]
      /\ failed' \in [Replicas -> BOOLEAN]
  <2>1. /\ cache \in [Replicas -> Bundles] /\ observed \in [Replicas -> Nat]
        /\ previous \in [Replicas -> Bundles \cup {None}]
        /\ failed \in [Replicas -> BOOLEAN] /\ On[h] \in Replicas
    BY PolicyAssumption DEF PolicyInv, ReplicasTyped
  <2>2. PICK r \in Replicas, b \in Bundles, gen \in Nat :
           r = On[h] /\ b = job[h].found /\ gen = job[h].foundGen
    BY <1>2, <2>1
  <2>3. /\ \/ cache' = cache /\ observed' = observed
           \/ cache' = [cache EXCEPT ![r] = b] /\ observed' = [observed EXCEPT ![r] = gen]
        /\ previous' = previous \/ previous' = [previous EXCEPT ![r] = cache[r]]
        /\ \/ failed' = failed
           \/ failed' = [failed EXCEPT ![r] = FALSE]
           \/ failed' = [failed EXCEPT ![r] = TRUE]
    BY <2>2 DEF Install, RunBundle
  <2>4. cache' \in [Replicas -> Bundles] /\ observed' \in [Replicas -> Nat]
    BY <2>1, <2>3
  <2>5. previous' \in [Replicas -> Bundles \cup {None}]
    <3>1. cache[r] \in Bundles \cup {None}
      BY <2>1
    <3> QED BY <2>1, <2>3, <3>1
  <2>6. failed' \in [Replicas -> BOOLEAN]
    BY <2>1, <2>3
  <2> QED BY <2>4, <2>5, <2>6
<1>4. CASE Finish(h)
  <2>1. HandlersSound' /\ up' \in [Replicas -> BOOLEAN]
    BY <1>1, <1>4, HandlerEnds DEF PolicyInv
  <2>2. ReplicasTyped'
    BY <1>3, <2>1 DEF Install, PolicyInv, ReplicasTyped
  <2> QED
    BY <1>1, <2>1, <2>2 DEF PolicyInv
<1>5. CASE /\ job[h].kind = "rollback"
           /\ Goto(h, "fallback") /\ UNCHANGED <<job, up>>
  <2>1. job' = [job EXCEPT ![h] = job'[h]] /\ job'[h] = job[h]
    BY <1>5 DEF PolicyInv, HandlersSound
  <2>2. Sound("fallback", job[h])' /\ "fallback" \in Stages
    BY <1>1, <1>2, <1>5, <2>1 DEF Sound, Stages, Grows
  <2>3. HandlersSound'
    BY <1>1, <1>2, <1>5, <2>1, <2>2, HandlerSteps DEF PolicyInv, Goto
  <2>4. ReplicasTyped'
    BY <1>3, <1>5 DEF Install, PolicyInv, ReplicasTyped
  <2> QED
    BY <1>1, <2>3, <2>4 DEF PolicyInv
<1> QED
  BY <1>4, <1>5 DEF Install

LEMMA GivesUpKeeps ==
  ASSUME HandlersSound, ReplicasTyped, Grows, NEW h \in Handlers, GivesUp(h)
  PROVE  HandlersSound' /\ ReplicasTyped'
<1>1. HandlersSound' /\ up' \in [Replicas -> BOOLEAN]
  BY HandlerEnds DEF GivesUp
<1>2. ReplicasTyped'
  BY <1>1 DEF GivesUp, ReplicasTyped
<1> QED
  BY <1>1, <1>2

LEMMA AbortKeeps ==
  ASSUME PolicyInv, NEW h \in Handlers, Abort(h)
  PROVE  PolicyInv'
<1>1. Tables' /\ Grows
  BY TablesStay DEF Abort, PolicyInv
<1> QED
  BY <1>1, GivesUpKeeps DEF Abort, PolicyInv

(* Statements of an upsert or an activation that nobody committed.         *)
LEMMA FailUncommittedKeeps ==
  ASSUME PolicyInv, NEW h \in Handlers, FailUncommitted(h)
  PROVE  PolicyInv'
<1> DEFINE b == job[h].bundle
<1>1. ~RollsBack /\ GivesUp(h) /\ durable' = durable
  BY DEF FailUncommitted
<1>2. CASE pc[h] = "upsert" /\ row' = Upserted(h) /\ UNCHANGED selected
  <2>1. b \in Bundles
    BY <1>2 DEF PolicyInv, HandlersSound, Sound
  <2>2. Ahead
    BY <1>2, <2>1, UpsertedRows DEF Ahead, PolicyInv
  <2>3. \A c \in Bundles : row'[c].status \in Governing =>
                             durable.row[c].status # "none"
    BY <1>2, <2>1, UpsertedRows DEF PolicyInv, Tables
  <2> QED
    BY <1>1, <2>2, <2>3, TablesPend, GivesUpKeeps DEF PolicyInv
<1>3. CASE pc[h] = "commit" /\ row' = Retired(h) /\ UNCHANGED selected
  <2>1. Ahead
    BY <1>3, RetiredRows DEF Ahead, PolicyInv
  <2>2. \A c \in Bundles : row'[c].status \in Governing =>
                             durable.row[c].status # "none"
    BY <1>3, RetiredRows DEF PolicyInv, Tables, Governing
  <2> QED
    BY <1>1, <2>1, <2>2, TablesPend, GivesUpKeeps DEF PolicyInv
<1>4. CASE pc[h] = "commit" /\ Select(h)
  <2>1. HasRow(b) /\ job[h].gen \in Nat
    BY <1>4 DEF PolicyInv, HandlersSound, Sound, JobTypes
  <2>2. /\ Ahead /\ row'[b] = [status |-> "active", gen |-> job[h].gen]
        /\ \A c \in Bundles \ {b} : row'[c] = Retired(h)[c]
    BY <1>4, <2>1, SelectedRows DEF PolicyInv
  <2>3. \A c \in Bundles : row'[c].status \in Governing =>
                             durable.row[c].status # "none"
    BY <2>1, <2>2, RetiredRows DEF PolicyInv, Tables, Governing, HasRow
  <2> QED
    BY <1>1, <2>2, <2>3, TablesPend, GivesUpKeeps DEF PolicyInv
<1> QED
  BY <1>2, <1>3, <1>4 DEF FailUncommitted

LEMMA OthersKeep ==
  ASSUME PolicyInv, OthersCommit \/ OthersRollBack
  PROVE  PolicyInv'
<1>1. Tables' /\ Grows
  <2>1. CASE OthersCommit
    <3>1. row' = row /\ selected' = selected /\ durable' = Shown'
      BY <2>1 DEF OthersCommit, Shown
    <3>2. Ahead
      BY <3>1 DEF Ahead, PolicyInv, Tables, Table
    <3> QED
      BY <3>1, <3>2, TablesCommit DEF PolicyInv
  <2>2. CASE OthersRollBack
    BY <2>2, TablesGoBack DEF OthersRollBack, PolicyInv
  <2> QED
    BY <2>1, <2>2
<1>2. ReplicasTyped'
  BY DEF OthersCommit, OthersRollBack, PolicyInv, ReplicasTyped, replica
<1>3. HandlersSound'
  BY <1>1, HandlersStay DEF OthersCommit, OthersRollBack, PolicyInv
<1> QED
  BY <1>1, <1>2, <1>3 DEF PolicyInv

LEMMA BootFailsKeeps ==
  ASSUME PolicyInv, NEW r \in Replicas, BootFails(r)
  PROVE  PolicyInv'
<1>1. Tables' /\ Grows
  BY TablesStay DEF BootFails, PolicyInv
<1>2. ReplicasTyped'
  BY DEF BootFails, PolicyInv, ReplicasTyped
<1>3. HandlersSound'
  BY <1>1, HandlersStay DEF BootFails, PolicyInv
<1> QED
  BY <1>1, <1>2, <1>3 DEF PolicyInv

LEMMA ReloadKeeps ==
  ASSUME PolicyInv, NEW r \in Replicas, Reload(r)
  PROVE  PolicyInv'
<1>1. Tables' /\ Grows
  BY TablesStay DEF Reload, PolicyInv
<1>2. ReplicasTyped'
  BY PolicyAssumption DEF Reload, PolicyInv, ReplicasTyped
<1>3. HandlersSound'
  BY <1>1, HandlersStay DEF Reload, PolicyInv
<1> QED
  BY <1>1, <1>2, <1>3 DEF PolicyInv

LEMMA SourceChangesKeeps ==
  ASSUME PolicyInv, SourceChanges
  PROVE  PolicyInv'
<1>1. Tables' /\ Grows
  BY TablesStay DEF SourceChanges, PolicyInv
<1>2. ReplicasTyped'
  BY DEF SourceChanges, PolicyInv, ReplicasTyped, replica
<1>3. HandlersSound'
  BY <1>1, HandlersStay DEF SourceChanges, PolicyInv
<1> QED
  BY <1>1, <1>2, <1>3 DEF PolicyInv

(* A replica that dies takes its handlers with it. *)
LEMMA RestartKeeps ==
  ASSUME PolicyInv, NEW r \in Replicas, Restart(r)
  PROVE  PolicyInv'
<1>1. Tables' /\ Grows
  BY TablesGoBack DEF Restart, PolicyInv
<1>2. ReplicasTyped'
  BY PolicyAssumption DEF Restart, Fresh, PolicyInv, ReplicasTyped
<1>3. pc' \in [Handlers -> Stages] /\ job' \in [Handlers -> JobTypes]
  BY NoJobTyped DEF Restart, PolicyInv, HandlersSound, Stages
<1>4. ASSUME NEW k \in Handlers PROVE Sound(pc[k], job[k])'
  <2>1. CASE On[k] = r
    <3>1. pc'[k] = "idle"
      BY <2>1 DEF Restart
    <3> QED
      BY <3>1 DEF Sound
  <2>2. CASE On[k] # r
    <3>1. pc'[k] = pc[k] /\ job'[k] = job[k]
      BY <2>2 DEF Restart
    <3>2. Sound(pc[k], job[k])
      BY DEF PolicyInv, HandlersSound
    <3> QED
      BY <1>1, <3>1, <3>2 DEF Sound, Grows, HasRow
  <2> QED
    BY <2>1, <2>2
<1> QED
  BY <1>1, <1>2, <1>3, <1>4 DEF PolicyInv, HandlersSound

LEMMA InvNext == PolicyInv /\ [Next]_vars => PolicyInv'
<1> SUFFICES ASSUME PolicyInv, [Next]_vars PROVE PolicyInv'
  OBVIOUS
<1>1. ASSUME NEW h \in Handlers, Request(h) PROVE PolicyInv'
  BY <1>1, ValidateKeeps, RequestActivateKeeps, RequestRollbackKeeps,
     ReadActiveKeeps, BootKeeps DEF Request
<1>2. ASSUME NEW h \in Handlers, Step(h) PROVE PolicyInv'
  BY <1>2, LookupKeeps, UpsertKeeps, BeginKeeps, RetireKeeps, CommitKeeps,
     SwitchOverKeeps, ReadBackKeeps, FallbackKeeps, InstallKeeps DEF Step
<1>3. ASSUME NEW h \in Handlers, Abort(h) \/ FailUncommitted(h) PROVE PolicyInv'
  BY <1>3, AbortKeeps, FailUncommittedKeeps
<1>4. ASSUME NEW r \in Replicas, BootFails(r) \/ Restart(r) \/ Reload(r)
      PROVE  PolicyInv'
  BY <1>4, BootFailsKeeps, RestartKeeps, ReloadKeeps
<1>5. CASE OthersCommit \/ OthersRollBack \/ SourceChanges
  BY <1>5, OthersKeep, SourceChangesKeeps
<1>6. CASE UNCHANGED vars
  <2>1. Tables' /\ Grows
    BY <1>6, TablesStay DEF vars, store, PolicyInv
  <2>2. ReplicasTyped'
    BY <1>6 DEF vars, PolicyInv, ReplicasTyped
  <2>3. HandlersSound'
    BY <1>6, <2>1, HandlersStay DEF vars, PolicyInv
  <2> QED
    BY <2>1, <2>2, <2>3 DEF PolicyInv
<1> QED
  BY <1>1, <1>2, <1>3, <1>4, <1>5, <1>6 DEF Next

(* Every state is well typed; a transaction works on a bundle that has its *)
(* row, and on a store that rolls failing sessions back a catch-up         *)
(* installs only what was selected.                                        *)
THEOREM TypeCorrect == Spec => []TypeOK
<1>1. Spec => []PolicyInv
  BY InvInit, InvNext, PTL DEF Spec
<1> QED
  BY <1>1, InvImpliesType, PTL

-----------------------------------------------------------------------------
(* A source may become unreadable but never yields another bundle.  Without*)
(* this a rollback's fallback installs whatever the source yields.         *)
SourcesPinned == \A c \in Contents, b \in Bundles : c[b] \in {b, None}

(* Only an upsert and a commit write rows, and where a failing session is  *)
(* not rolled back, also that failure and what becomes of it.              *)
Unfinished ==
    /\ ~RollsBack
    /\ \/ \E h \in Handlers : FailUncommitted(h)
       \/ OthersCommit \/ OthersRollBack
       \/ \E r \in Replicas : Restart(r)

LEMMA RowsMove ==
  ASSUME PolicyInv, [Next]_vars
  PROVE  \/ UNCHANGED store
         \/ \E h \in Handlers : Upsert(h) \/ Commit(h)
         \/ Unfinished
<1>1. ASSUME NEW h \in Handlers, Request(h) \/ Abort(h) PROVE UNCHANGED store
  BY <1>1 DEF Request, Validate, RequestActivate, RequestRollback, ReadActive,
              Boot, Abort
<1>2. ASSUME NEW h \in Handlers, Step(h), ~Upsert(h), ~Commit(h)
      PROVE  UNCHANGED store
  BY <1>2 DEF Step, Lookup, Begin, Retire, SwitchOver, ReadBack, Fallback, Install
<1>3. ASSUME NEW r \in Replicas, BootFails(r) \/ Reload(r)
      PROVE  UNCHANGED store
  BY <1>3 DEF BootFails, Reload
<1>4. CASE SourceChanges \/ UNCHANGED vars
  BY <1>4 DEF SourceChanges, store, vars
<1>5. ASSUME NEW r \in Replicas, Restart(r)
      PROVE  UNCHANGED store \/ Unfinished
  <2>1. CASE RollsBack
    BY <1>5, <2>1 DEF Restart, GoBack, store, PolicyInv, Tables, Shown
  <2>2. CASE ~RollsBack
    BY <1>5, <2>2 DEF Unfinished
  <2> QED
    BY <2>1, <2>2
<1>6. ASSUME NEW h \in Handlers, FailUncommitted(h) PROVE Unfinished
  BY <1>6 DEF FailUncommitted, Unfinished
<1>7. ASSUME OthersCommit \/ OthersRollBack PROVE Unfinished
  BY <1>7
  DEF OthersCommit, OthersRollBack, Uncommitted, Unfinished, PolicyInv, Tables
<1> QED
  BY <1>1, <1>2, <1>3, <1>4, <1>5, <1>6, <1>7 DEF Next

LEMMA ServesNext ==
  ASSUME RollsBack, SourcesPinned, PolicyInv, RunsSelected, [Next]_vars
  PROVE  RunsSelected'
<1>1. selected \subseteq selected' /\ durable.selected = selected
  <2>1. durable.selected = selected
    BY DEF PolicyInv, Tables, Shown
  <2>2. ASSUME NEW h \in Handlers, Upsert(h) \/ Commit(h)
        PROVE  selected \subseteq selected'
    BY <2>2 DEF Upsert, Commit, Select
  <2> QED
    BY <2>1, <2>2, RowsMove DEF store, Unfinished
<1>2. ASSUME NEW r \in Replicas, cache'[r] = cache[r], observed'[r] = observed[r]
      PROVE  cache'[r] = Root \/ <<observed'[r], cache'[r]>> \in selected'
  BY <1>1, <1>2 DEF RunsSelected
<1>3. CASE UNCHANGED <<cache, observed>>
  BY <1>2, <1>3 DEF RunsSelected
<1>4. ASSUME NEW h \in Handlers, NEW b \in Bundles, NEW g \in Nat,
             <<g, b>> \in selected, RunBundle(On[h], b, g)
      PROVE  RunsSelected'
  <2>1. ASSUME NEW r \in Replicas
        PROVE  cache'[r] = Root \/ <<observed'[r], cache'[r]>> \in selected'
    <3>1. CASE r = On[h]
      <4>1. cache'[r] = b /\ observed'[r] = g
        BY <1>4, <3>1 DEF RunBundle, PolicyInv, ReplicasTyped
      <4> QED
        BY <1>1, <1>4, <4>1
    <3>2. CASE r # On[h]
      <4>1. cache'[r] = cache[r] /\ observed'[r] = observed[r]
        BY <1>4, <3>2 DEF RunBundle, PolicyInv, ReplicasTyped
      <4> QED
        BY <1>2, <4>1
    <3> QED
      BY <3>1, <3>2
  <2> QED
    BY <2>1 DEF RunsSelected
<1>5. ASSUME NEW h \in Handlers, SwitchOver(h) PROVE RunsSelected'
  <2>1. /\ job[h].bundle \in Bundles /\ job[h].gen \in Nat
        /\ <<job[h].gen, job[h].bundle>> \in selected
    BY <1>1, <1>5 DEF SwitchOver, PolicyInv, HandlersSound, Sound, JobTypes
  <2>2. RunBundle(On[h], job[h].bundle, job[h].gen)
    BY <1>5 DEF SwitchOver, Generation
  <2>3. PICK b \in Bundles, g \in Nat : b = job[h].bundle /\ g = job[h].gen
    BY <2>1
  <2> QED
    BY <1>4, <2>1, <2>2, <2>3
<1>6. ASSUME NEW h \in Handlers, Fallback(h) PROVE RunsSelected'
  <2>1. /\ job[h].bundle \in Bundles /\ job[h].gen \in Nat
        /\ <<job[h].gen, job[h].bundle>> \in selected
    BY <1>1, <1>6 DEF Fallback, PolicyInv, HandlersSound, Sound, JobTypes
  <2>2. source[job[h].bundle] \in {job[h].bundle, None}
    BY <2>1 DEF SourcesPinned, PolicyInv, ReplicasTyped
  <2>3. \/ UNCHANGED <<cache, observed>>
        \/ RunBundle(On[h], job[h].bundle, job[h].gen)
    BY <1>6, <2>2 DEF Fallback
  <2>4. PICK b \in Bundles, g \in Nat : b = job[h].bundle /\ g = job[h].gen
    BY <2>1
  <2> QED
    BY <1>3, <1>4, <2>1, <2>3, <2>4
<1>7. ASSUME NEW h \in Handlers, Install(h) PROVE RunsSelected'
  <2>1. /\ job[h].found \in Bundles /\ job[h].foundGen \in Nat
        /\ <<job[h].foundGen, job[h].found>> \in selected
    BY <1>1, <1>7 DEF Install, PolicyInv, HandlersSound, Sound, JobTypes
  <2>2. \/ UNCHANGED <<cache, observed>>
        \/ RunBundle(On[h], job[h].found, job[h].foundGen)
    BY <1>7 DEF Install
  <2>3. PICK b \in Bundles, g \in Nat : b = job[h].found /\ g = job[h].foundGen
    BY <2>1
  <2> QED
    BY <1>3, <1>4, <2>1, <2>2, <2>3
<1>8. ASSUME NEW q \in Replicas, Restart(q) \/ Reload(q) PROVE RunsSelected'
  <2>1. ASSUME NEW r \in Replicas
        PROVE  cache'[r] = Root \/ <<observed'[r], cache'[r]>> \in selected'
    <3>1. CASE r = q
      <4>1. cache'[r] = Root
        BY <1>8, <3>1 DEF Restart, Fresh, Reload, PolicyInv, ReplicasTyped
      <4> QED
        BY <4>1
    <3>2. CASE r # q
      <4>1. cache'[r] = cache[r] /\ observed'[r] = observed[r]
        BY <1>8, <3>2 DEF Restart, Fresh, Reload, PolicyInv, ReplicasTyped
      <4> QED
        BY <1>2, <4>1
    <3> QED
      BY <3>1, <3>2
  <2> QED
    BY <2>1 DEF RunsSelected
<1>9. ASSUME NEW h \in Handlers, Request(h) \/ Abort(h) \/ FailUncommitted(h)
      PROVE  RunsSelected'
  <2>1. UNCHANGED <<cache, observed>>
    BY <1>9 DEF Request, Validate, RequestActivate, RequestRollback, ReadActive,
                Boot, Abort, FailUncommitted, GivesUp, replica
  <2> QED
    BY <1>3, <2>1
<1>10. ASSUME NEW h \in Handlers,
              Lookup(h) \/ Upsert(h) \/ Begin(h) \/ Retire(h) \/ Commit(h)
                \/ ReadBack(h)
       PROVE  RunsSelected'
  <2>1. UNCHANGED <<cache, observed>>
    BY <1>10 DEF Lookup, Upsert, Begin, Retire, Commit, ReadBack, replica
  <2> QED
    BY <1>3, <2>1
<1>11. CASE \/ \E r \in Replicas : BootFails(r)
            \/ OthersCommit \/ OthersRollBack \/ SourceChanges \/ UNCHANGED vars
  <2>1. UNCHANGED <<cache, observed>>
    BY <1>11 DEF BootFails, OthersCommit, OthersRollBack, SourceChanges, replica,
                 vars
  <2> QED
    BY <1>3, <2>1
<1> QED
  BY <1>5, <1>6, <1>7, <1>8, <1>9, <1>10, <1>11 DEF Next, Step

(* On a store that rolls failing sessions back (PostgreSQL), however       *)
(* activations overlap, a replica that reports a generation runs the       *)
(* bundle an activation committed under it, or the shipped one: the        *)
(* process switches only after the store did, and a catch-up installs what *)
(* it read only when the digest matches.  On SQLite a catch-up may read an *)
(* activation that is undone later, and the next one corrects it.          *)
THEOREM RunsSelectedHolds ==
  ASSUME RollsBack, SourcesPinned
  PROVE  Spec => []RunsSelected
<1>1. Init => RunsSelected
  BY DEF Init, RunsSelected
<1>2. RunsSelected /\ PolicyInv /\ [Next]_vars => RunsSelected'
  BY ServesNext
<1>3. Spec => []PolicyInv
  BY InvInit, InvNext, PTL DEF Spec
<1> QED
  BY <1>1, <1>2, <1>3, PTL DEF Spec

-----------------------------------------------------------------------------
(* Where activation transactions exclude each other, the table holds one   *)
(* selection and a rollback restores what governed before.                 *)

(* What a transaction of handler h read is still so: nobody else writes.   *)
ReadsHold(h) ==
    InTransaction(h) =>
      /\ \A k \in Handlers : InTransaction(k) => k = h
      /\ \A b \in Bundles : row[b].gen < job[h].gen
      /\ \E b \in Bundles : row[b].gen + 1 = job[h].gen
      /\ \A p \in selected : p[1] < job[h].gen
      /\ pc[h] = "commit" => job[h].retire = Having("active") \ {job[h].bundle}
      /\ job[h].kind = "rollback" => job[h].bundle \in LastGood

(* OneSelection, said of each selection and each row, of what the table    *)
(* shows and of what is durable.                                           *)
Selection(rows, choices) ==
    /\ \A p, q \in choices : p # q => p[1] # q[1]
    /\ \A p \in choices : rows[p[2]].status \in Governing /\ p[1] <= rows[p[2]].gen
    /\ \A b \in Bundles :
         LET last == \A p \in choices : p[1] <= rows[b].gen IN
         /\ rows[b].status = "active" => last
         /\ RollsBack /\ rows[b].status \in Governing /\ last =>
              rows[b].status = "active"

Governs(b) == row[b].status \in Governing

SelectionTable ==
    Selection(row, selected) /\ Selection(durable.row, durable.selected)

SelectionInv == SelectionTable /\ \A h \in Handlers : ReadsHold(h)

LEMMA TableIsOneSelection ==
  ASSUME Tables, SelectionTable
  PROVE  OneSelection
<1>1. ASSUME NEW b \in Bundles
      PROVE  LET mine == {p \in selected : p[2] = b} IN
             /\ mine = {} <=> row[b].status \in {"none", "candidate"}
             /\ mine # {} => /\ <<row[b].gen, b>> \in mine
                             /\ \A p \in mine : p[1] <= row[b].gen
             /\ LET chosen == mine # {} /\ \A p \in selected : p[1] <= row[b].gen IN
                /\ row[b].status = "active" => chosen
                /\ RollsBack /\ chosen => row[b].status = "active"
  <2> DEFINE mine == {p \in selected : p[2] = b}
  <2>1. row[b].status \in {"none", "candidate"} <=> ~Governs(b)
    BY DEF Tables, Table, RowTypes, Governs, Governing
  <2>2. Governs(b) => <<row[b].gen, b>> \in mine
    BY DEF Governs, Governing, Tables, Table
  <2>3. mine # {} => Governs(b)
    BY DEF SelectionTable, Selection, Governs
  <2>4. \A p \in mine : p[1] <= row[b].gen
    BY DEF SelectionTable, Selection
  <2>5. mine # {} <=> Governs(b)
    BY <2>2, <2>3
  <2>6. /\ row[b].status = "active" => \A p \in selected : p[1] <= row[b].gen
        /\ RollsBack /\ Governs(b) /\ (\A p \in selected : p[1] <= row[b].gen) =>
             row[b].status = "active"
    BY DEF SelectionTable, Selection, Governs
  <2>7. row[b].status = "active" => Governs(b)
    BY DEF Governs, Governing
  <2> QED
    BY <2>1, <2>2, <2>4, <2>5, <2>6, <2>7
<1> QED
  BY <1>1 DEF OneSelection, SelectionTable, Selection

LEMMA SelectionInit == Init => SelectionInv
  BY DEF Init, SelectionInv, SelectionTable, Selection, ReadsHold, InTransaction,
         Governing, NoRow, Shown

(* A step that writes no table and leaves every handler where it was or    *)
(* outside a transaction.                                                  *)
LEMMA QuietStep ==
  ASSUME SelectionInv, UNCHANGED store,
         \A k \in Handlers : \/ pc'[k] = pc[k] /\ job'[k] = job[k]
                             \/ pc'[k] \notin {"retire", "commit"}
  PROVE  SelectionInv'
<1>1. SelectionTable'
  BY DEF SelectionInv, SelectionTable, Selection, Governs, Governing, store
<1>2. LastGood' = LastGood /\ Having("active")' = Having("active")
  BY DEF LastGood, Newest, Having, store
<1>3. \A k \in Handlers : InTransaction(k)' =>
         InTransaction(k) /\ pc'[k] = pc[k] /\ job'[k] = job[k]
  BY DEF InTransaction
<1>4. ASSUME NEW h \in Handlers PROVE ReadsHold(h)'
  <2> SUFFICES ASSUME InTransaction(h)'
               PROVE  /\ \A k \in Handlers : InTransaction(k)' => k = h
                      /\ \A b \in Bundles : row'[b].gen < job'[h].gen
                      /\ \E b \in Bundles : row'[b].gen + 1 = job'[h].gen
                      /\ \A p \in selected' : p[1] < job'[h].gen
                      /\ pc'[h] = "commit" =>
                           job'[h].retire = Having("active")' \ {job'[h].bundle}
                      /\ job'[h].kind = "rollback" => job'[h].bundle \in LastGood'
    BY DEF ReadsHold
  <2>1. /\ InTransaction(h) /\ ReadsHold(h)
        /\ pc'[h] = pc[h] /\ job'[h] = job[h]
    BY <1>3 DEF SelectionInv
  <2> QED
    BY <1>2, <1>3, <2>1 DEF ReadsHold, store
<1> QED
  BY <1>1, <1>4 DEF SelectionInv

(* The common case: handler h alone moves, to a stage outside.             *)
LEMMA QuietHandler ==
  ASSUME PolicyInv, SelectionInv, UNCHANGED store, NEW h \in Handlers, NEW s,
         s \notin {"retire", "commit"}, pc' = [pc EXCEPT ![h] = s],
         \A k \in Handlers \ {h} : job'[k] = job[k]
  PROVE  SelectionInv'
<1>1. ASSUME NEW k \in Handlers
      PROVE  \/ pc'[k] = pc[k] /\ job'[k] = job[k]
             \/ pc'[k] \notin {"retire", "commit"}
  BY DEF PolicyInv, HandlersSound
<1> QED
  BY <1>1, QuietStep

(* Without overlap a handler the store answers is the only one that may be *)
(* in a transaction.                                                       *)
LEMMA FreeMeansAlone ==
  ASSUME ~Overlap, NEW h \in Handlers, StoreFree(h), NEW k \in Handlers,
         InTransaction(k)
  PROVE  k = h
  BY DEF StoreFree, InTransaction

-----------------------------------------------------------------------------
(* The steps of a transaction *)

LEMMA BeginSelects ==
  ASSUME ~Overlap, PolicyInv, SelectionInv, NEW h \in Handlers, Begin(h)
  PROVE  SelectionInv'
<1>1. CASE Finish(h)
  <2>1. /\ pc' = [pc EXCEPT ![h] = "idle"] /\ UNCHANGED store
        /\ \A k \in Handlers \ {h} : job'[k] = job[k]
    BY <1>1 DEF Begin, Finish, Goto, PolicyInv, HandlersSound
  <2> QED
    BY <2>1, QuietHandler
<1>2. ASSUME NEW b \in Target(h), NEW g \in Highest,
             job' = [job EXCEPT ![h] = [@ EXCEPT !.bundle = b, !.gen = g + 1]],
             Goto(h, "retire")
      PROVE  SelectionInv'
  <2>1. /\ pc[h] = "begin" /\ StoreFree(h) /\ UNCHANGED store
        /\ pc' = [pc EXCEPT ![h] = "retire"]
    BY <1>2 DEF Begin, Goto
  <2>2. /\ pc \in [Handlers -> Stages] /\ job \in [Handlers -> JobTypes]
        /\ g \in Nat
    BY HighestIsNat DEF PolicyInv, HandlersSound
  <2>3. /\ pc'[h] = "retire" /\ job'[h].gen = g + 1 /\ job'[h].bundle = b
        /\ job'[h].kind = job[h].kind
    BY <1>2, <2>1, <2>2 DEF JobTypes
  <2>4. ASSUME NEW k \in Handlers, k # h
        PROVE  ~InTransaction(k)'
    <3>1. ~InTransaction(k)
      BY <2>1, <2>4, FreeMeansAlone
    <3> QED
      BY <2>1, <2>2, <2>4, <3>1 DEF InTransaction
  <2>5. SelectionTable'
    BY <2>1 DEF SelectionInv, SelectionTable, Selection, Governs, Governing, store
  <2>6. \A c \in Bundles : row[c].gen <= g /\ row[c].gen \in Nat
    BY DEF Highest, PolicyInv, Tables, Table, RowTypes
  <2>7. \A p \in selected : p[1] \in Nat /\ p[2] \in Bundles
                              /\ p[1] <= row[p[2]].gen
    BY DEF PolicyInv, Tables, Table, SelectionInv, SelectionTable, Selection
  <2>8. \A p \in selected : p[1] < g + 1
    BY <2>2, <2>6, <2>7
  <2>9. job'[h].kind = "rollback" => job'[h].bundle \in LastGood'
    BY <2>1, <2>3 DEF Target, LastGood, Newest, Having, store
  <2>10. /\ \A c \in Bundles : row'[c].gen < job'[h].gen
         /\ \A p \in selected' : p[1] < job'[h].gen
         /\ \E c \in Bundles : row'[c].gen + 1 = job'[h].gen
    <3>1. \E c \in Bundles : row[c].gen = g
      BY DEF Highest
    <3> QED BY <2>1, <2>2, <2>3, <2>6, <2>8, <3>1 DEF store
  <2>11. ReadsHold(h)'
    BY <2>3, <2>4, <2>9, <2>10 DEF ReadsHold
  <2>12. ASSUME NEW k \in Handlers PROVE ReadsHold(k)'
    BY <2>4, <2>11 DEF ReadsHold
  <2> QED
    BY <2>5, <2>12 DEF SelectionInv
<1> QED
  BY <1>1, <1>2 DEF Begin

LEMMA RetireSelects ==
  ASSUME ~Overlap, PolicyInv, SelectionInv, NEW h \in Handlers, Retire(h)
  PROVE  SelectionInv'
<1>1. /\ pc[h] = "retire" /\ StoreFree(h) /\ UNCHANGED store
      /\ pc' = [pc EXCEPT ![h] = "commit"]
      /\ job' = [job EXCEPT ![h].retire = Having("active") \ {job[h].bundle}]
  BY DEF Retire, Goto
<1>2. pc \in [Handlers -> Stages] /\ job \in [Handlers -> JobTypes]
  BY DEF PolicyInv, HandlersSound
<1>3. /\ pc'[h] = "commit" /\ job'[h].gen = job[h].gen
      /\ job'[h].bundle = job[h].bundle /\ job'[h].kind = job[h].kind
      /\ job'[h].retire = Having("active") \ {job[h].bundle}
  BY <1>1, <1>2 DEF JobTypes
<1>4. InTransaction(h) /\ ReadsHold(h)
  BY <1>1 DEF InTransaction, SelectionInv
<1>5. ASSUME NEW k \in Handlers, k # h
      PROVE  ~InTransaction(k)'
  <2>1. ~InTransaction(k)
    BY <1>1, <1>5, FreeMeansAlone
  <2> QED
    BY <1>1, <1>2, <1>5, <2>1 DEF InTransaction
<1>6. SelectionTable'
  BY <1>1 DEF SelectionInv, SelectionTable, Selection, Governs, Governing, store
<1>7. LastGood' = LastGood /\ Having("active")' = Having("active")
  BY <1>1 DEF LastGood, Newest, Having, store
<1>8. ReadsHold(h)'
  BY <1>1, <1>3, <1>4, <1>5, <1>7 DEF ReadsHold, store
<1>9. ASSUME NEW k \in Handlers PROVE ReadsHold(k)'
  BY <1>5, <1>8 DEF ReadsHold
<1> QED
  BY <1>6, <1>9 DEF SelectionInv

(* The rows an activation leaves.                                          *)
LEMMA SelectedAlone ==
  ASSUME PolicyInv, SelectionInv, NEW h \in Handlers, pc[h] = "commit", Select(h)
  PROVE  /\ job[h].bundle \in Bundles /\ job[h].gen \in Nat
         /\ row'[job[h].bundle] = [status |-> "active", gen |-> job[h].gen]
         /\ \A b \in Bundles \ {job[h].bundle} :
              /\ row'[b].gen = row[b].gen
              /\ row'[b].status \notin {"active"}
              /\ Governs(b)' <=> Governs(b)
<1>1. /\ job[h] \in JobTypes /\ Sound(pc[h], job[h])
      /\ ReadsHold(h)
  BY DEF PolicyInv, HandlersSound, SelectionInv
<1>2. job[h].bundle \in Bundles /\ job[h].gen \in Nat
  BY <1>1 DEF Sound, HasRow, JobTypes
<1>3. job[h].retire = Having("active") \ {job[h].bundle}
  BY <1>1 DEF ReadsHold, InTransaction
<1>4. /\ row' = [Retired(h) EXCEPT ![job[h].bundle] =
                   [status |-> "active", gen |-> job[h].gen]]
      /\ row \in [Bundles -> RowTypes]
  BY DEF Select, PolicyInv, Tables, Table
<1>5. row'[job[h].bundle] = [status |-> "active", gen |-> job[h].gen]
  BY <1>2, <1>4 DEF Retired
<1>6. ASSUME NEW b \in Bundles, b # job[h].bundle
      PROVE  /\ row'[b].gen = row[b].gen
             /\ row'[b].status \notin {"active"}
             /\ Governs(b)' <=> Governs(b)
  <2>1. row'[b] = IF b \in job[h].retire /\ row[b].status = "active"
                  THEN [row[b] EXCEPT !.status = "previous"] ELSE row[b]
    BY <1>4, <1>6 DEF Retired
  <2>2. CASE row[b].status = "active"
    <3>1. b \in job[h].retire
      BY <1>3, <1>6, <2>2 DEF Having
    <3>2. row'[b] = [row[b] EXCEPT !.status = "previous"]
      BY <2>1, <2>2, <3>1
    <3>3. row'[b].status = "previous" /\ row'[b].gen = row[b].gen
      BY <1>4, <3>2 DEF RowTypes
    <3> QED
      BY <2>2, <3>3 DEF Governs, Governing
  <2>3. CASE row[b].status # "active"
    BY <2>1, <2>3 DEF Governs, Governing
  <2> QED
    BY <2>2, <2>3
<1> QED
  BY <1>2, <1>5, <1>6

LEMMA SelectKeepsSelection ==
  ASSUME PolicyInv, SelectionInv, NEW h \in Handlers, pc[h] = "commit", Select(h)
  PROVE  Selection(row', selected')
<1> DEFINE b0 == job[h].bundle
           g0 == job[h].gen
<1>1. /\ b0 \in Bundles /\ g0 \in Nat
      /\ row'[b0] = [status |-> "active", gen |-> g0]
      /\ \A b \in Bundles \ {b0} : /\ row'[b].gen = row[b].gen
                                   /\ row'[b].status \notin {"active"}
                                   /\ Governs(b)' <=> Governs(b)
  BY SelectedAlone
<1>2. selected' = selected \cup {<<g0, b0>>}
  BY DEF Select
<1>3. /\ \A b \in Bundles : row[b].gen < g0
      /\ \A p \in selected : p[1] < g0
  BY DEF SelectionInv, ReadsHold, InTransaction
<1>4. \A p \in selected : p[1] \in Nat /\ p[2] \in Bundles
  BY DEF PolicyInv, Tables, Table, Governing
<1>5. Selection(row, selected)
  BY DEF SelectionInv, SelectionTable, Selection
<1>6. ASSUME NEW p \in selected', NEW q \in selected', p # q
      PROVE  p[1] # q[1]
  <2>1. p \in selected \/ p = <<g0, b0>>
    BY <1>2
  <2>2. q \in selected \/ q = <<g0, b0>>
    BY <1>2
  <2>3. CASE p \in selected /\ q \in selected
    BY <1>5, <1>6, <2>3 DEF SelectionTable, Selection
  <2>4. CASE p \in selected /\ q = <<g0, b0>>
    BY <1>1, <1>3, <1>4, <2>4
  <2>5. CASE p = <<g0, b0>> /\ q \in selected
    BY <1>1, <1>3, <1>4, <2>5
  <2> QED
    BY <1>6, <2>1, <2>2, <2>3, <2>4, <2>5
<1>7. ASSUME NEW p \in selected'
      PROVE  Governs(p[2])' /\ p[1] <= row'[p[2]].gen /\ p[1] <= g0
  <2>1. CASE p = <<g0, b0>>
    BY <1>1, <2>1 DEF Governs, Governing
  <2>2. CASE p \in selected /\ p[2] = b0
    <3>1. p[1] \in Nat /\ p[1] < g0
      BY <1>3, <1>4, <2>2
    <3> QED
      BY <1>1, <2>2, <3>1 DEF Governs, Governing
  <2>3. CASE p \in selected /\ p[2] # b0
    <3>1. p[1] \in Nat /\ p[1] < g0 /\ p[2] \in Bundles \ {b0}
      BY <1>3, <1>4, <2>3
    <3>2. Governs(p[2]) /\ p[1] <= row[p[2]].gen
      BY <1>5, <2>3 DEF Selection, Governs
    <3> QED
      BY <1>1, <3>1, <3>2
  <2> QED
    BY <1>2, <2>1, <2>2, <2>3
<1>8. ASSUME NEW b \in Bundles
      PROVE  row'[b].status = "active" <=>
               Governs(b)' /\ \A p \in selected' : p[1] <= row'[b].gen
  <2>1. CASE b = b0
    <3>1. row'[b].status = "active" /\ row'[b].gen = g0
      BY <1>1, <2>1
    <3> QED
      BY <1>7, <3>1 DEF Governs, Governing
  <2>2. CASE b # b0
    <3>1. row'[b].status # "active" /\ row'[b].gen = row[b].gen
      BY <1>1, <2>2
    <3>2. row[b].gen \in Nat /\ row[b].gen < g0
      BY <1>3 DEF PolicyInv, Tables, Table, RowTypes
    <3>3. <<g0, b0>> \in selected' /\ ~(g0 <= row'[b].gen)
      BY <1>1, <1>2, <3>1, <3>2
    <3>4. ~(\A p \in selected' : p[1] <= row'[b].gen)
      BY <3>3
    <3> QED
      BY <3>1, <3>4
  <2> QED
    BY <2>1, <2>2
<1> QED
  BY <1>6, <1>7, <1>8 DEF Selection, Governs, Governing

LEMMA CommitSelects ==
  ASSUME ~Overlap, PolicyInv, SelectionInv, NEW h \in Handlers, Commit(h)
  PROVE  SelectionInv'
<1>1. /\ pc[h] = "commit" /\ StoreFree(h) /\ durable' = Shown' /\ Select(h)
      /\ pc' = [pc EXCEPT ![h] = IF job[h].kind = "rollback" THEN "read"
                                 ELSE "switch"]
      /\ pc \in [Handlers -> Stages]
  BY DEF Commit, Goto, PolicyInv, HandlersSound
<1>2. SelectionTable'
  BY <1>1, SelectKeepsSelection DEF SelectionTable, Selection, Shown
<1>3. ASSUME NEW k \in Handlers PROVE ~InTransaction(k)'
  <2>1. CASE k = h
    BY <1>1, <2>1 DEF InTransaction
  <2>2. CASE k # h
    BY <1>1, <2>2, FreeMeansAlone DEF InTransaction
  <2> QED
    BY <2>1, <2>2
<1> QED
  BY <1>2, <1>3 DEF SelectionInv, ReadsHold

(* An upsert neither promotes nor demotes a bundle.                        *)
LEMMA UpsertKeepsSelection ==
  ASSUME PolicyInv, SelectionInv, NEW h \in Handlers, job[h].bundle \in Bundles
  PROVE  Selection(Upserted(h), selected)
<1>1. ASSUME NEW b \in Bundles
      PROVE  /\ Upserted(h)[b].gen = row[b].gen
             /\ Upserted(h)[b].status = "active" <=> row[b].status = "active"
             /\ Upserted(h)[b].status \in Governing <=> row[b].status \in Governing
  BY UpsertedRows DEF PolicyInv, Governing
<1>2. Selection(row, selected) /\ \A p \in selected : p[2] \in Bundles
  BY DEF SelectionInv, SelectionTable, PolicyInv, Tables, Table
<1> QED
  BY <1>1, <1>2 DEF Selection

LEMMA UpsertSelects ==
  ASSUME ~Overlap, PolicyInv, SelectionInv, NEW h \in Handlers, Upsert(h)
  PROVE  SelectionInv'
<1>1. /\ pc[h] = "upsert" /\ StoreFree(h) /\ selected' = selected
      /\ durable' = Shown' /\ row' = Upserted(h) /\ pc \in [Handlers -> Stages]
      /\ job[h].bundle \in Bundles
  BY DEF Upsert, PolicyInv, HandlersSound, Sound
<1>2. SelectionTable'
  BY <1>1, UpsertKeepsSelection DEF SelectionTable, Selection, Shown
<1>3. ASSUME NEW k \in Handlers PROVE ~InTransaction(k)'
  <2>1. ~InTransaction(k)
    BY <1>1, FreeMeansAlone DEF InTransaction
  <2>2. pc' = [pc EXCEPT ![h] = "idle"] \/ pc' = [pc EXCEPT ![h] = "begin"]
    BY DEF Upsert, Finish, Goto
  <2> QED
    BY <1>1, <2>1, <2>2 DEF InTransaction
<1> QED
  BY <1>2, <1>3 DEF SelectionInv, ReadsHold

(* Without its other half an activation leaves no row active, and every    *)
(* row its place.                                                          *)
LEMMA RetireKeepsSelection ==
  ASSUME PolicyInv, SelectionInv, ~RollsBack, NEW h \in Handlers
  PROVE  Selection(Retired(h), selected)
<1>1. ASSUME NEW b \in Bundles
      PROVE  /\ Retired(h)[b].gen = row[b].gen
             /\ Retired(h)[b].status = "active" => row[b].status = "active"
             /\ row[b].status \in Governing => Retired(h)[b].status \in Governing
  BY RetiredRows DEF PolicyInv, Governing
<1>2. Selection(row, selected) /\ \A p \in selected : p[2] \in Bundles
  BY DEF SelectionInv, SelectionTable, PolicyInv, Tables, Table
<1> QED
  BY <1>1, <1>2 DEF Selection

LEMMA FailUncommittedSelects ==
  ASSUME PolicyInv, SelectionInv, NEW h \in Handlers, FailUncommitted(h)
  PROVE  SelectionInv'
<1>1. /\ ~RollsBack /\ StoreFree(h) /\ durable' = durable
      /\ pc' = [pc EXCEPT ![h] = "idle"] /\ pc \in [Handlers -> Stages]
      /\ ~Overlap
  BY PolicyAssumption
  DEF FailUncommitted, GivesUp, Finish, Goto, PolicyInv, HandlersSound
<1>2. Selection(row', selected')
  <2>1. CASE pc[h] = "upsert" /\ row' = Upserted(h) /\ UNCHANGED selected
    <3>1. job[h].bundle \in Bundles
      BY <2>1 DEF PolicyInv, HandlersSound, Sound
    <3> QED
      BY <2>1, <3>1, UpsertKeepsSelection
  <2>2. CASE row' = Retired(h) /\ UNCHANGED selected
    BY <1>1, <2>2, RetireKeepsSelection
  <2>3. CASE pc[h] = "commit" /\ Select(h)
    BY <2>3, SelectKeepsSelection
  <2> QED
    BY <2>1, <2>2, <2>3 DEF FailUncommitted
<1>3. SelectionTable'
  BY <1>1, <1>2 DEF SelectionInv, SelectionTable, Selection
<1>4. ASSUME NEW k \in Handlers PROVE ~InTransaction(k)'
  <2>1. InTransaction(k) => k = h
    BY <1>1, FreeMeansAlone
  <2> QED
    BY <1>1, <2>1 DEF InTransaction
<1> QED
  BY <1>3, <1>4 DEF SelectionInv, ReadsHold

LEMMA OthersSelect ==
  ASSUME PolicyInv, SelectionInv, OthersCommit \/ OthersRollBack
  PROVE  SelectionInv'
<1>1. \A h \in Handlers : ~InTransaction(h)'
  BY DEF OthersCommit, OthersRollBack, Uncommitted, InTransaction
<1>2. SelectionTable'
  BY DEF OthersCommit, OthersRollBack, GoBack, SelectionInv, SelectionTable, Shown
<1> QED
  BY <1>1, <1>2 DEF SelectionInv, ReadsHold

(* With the one process that shares a connection goes every transaction.   *)
LEMMA RestartSelects ==
  ASSUME PolicyInv, SelectionInv, NEW r \in Replicas, Restart(r)
  PROVE  SelectionInv'
<1>1. /\ GoBack
      /\ \A k \in Handlers : IF On[k] = r THEN pc'[k] = "idle"
                             ELSE pc'[k] = pc[k] /\ job'[k] = job[k]
  BY DEF Restart
<1>2. CASE RollsBack
  <2>1. UNCHANGED store
    BY <1>1, <1>2 DEF GoBack, Shown, PolicyInv, Tables, store
  <2> QED
    BY <1>1, <2>1, QuietStep
<1>3. CASE ~RollsBack
  <2>1. \A k \in Handlers : On[k] = r
    BY <1>3, PolicyAssumption
  <2>2. \A k \in Handlers : ~InTransaction(k)'
    BY <1>1, <2>1 DEF InTransaction
  <2>3. SelectionTable'
    BY <1>1 DEF GoBack, SelectionInv, SelectionTable, Selection
  <2> QED
    BY <2>2, <2>3 DEF SelectionInv, ReadsHold
<1> QED
  BY <1>2, <1>3

-----------------------------------------------------------------------------
(* Every other step is quiet *)

LEMMA RequestSelects ==
  ASSUME PolicyInv, SelectionInv, NEW h \in Handlers, Request(h)
  PROVE  SelectionInv'
<1>1. UNCHANGED store
  BY DEF Request, Validate, RequestActivate, RequestRollback, ReadActive, Boot
<1>2. \E s \in {"upsert", "lookup", "begin", "install"} :
        pc' = [pc EXCEPT ![h] = s]
  BY DEF Request, Validate, RequestActivate, RequestRollback, ReadActive, Boot,
         Goto
<1>3. \A k \in Handlers \ {h} : job'[k] = job[k]
  <2>1. \E j : job' = [job EXCEPT ![h] = j]
    BY DEF Request, Validate, RequestActivate, RequestRollback, ReadActive, Boot
  <2> QED
    BY <2>1 DEF PolicyInv, HandlersSound
<1> QED
  BY <1>1, <1>2, <1>3, QuietHandler

LEMMA OtherStepSelects ==
  ASSUME PolicyInv, SelectionInv, NEW h \in Handlers,
         Lookup(h) \/ SwitchOver(h) \/ ReadBack(h) \/ Fallback(h) \/ Install(h)
           \/ Abort(h)
  PROVE  SelectionInv'
<1>1. UNCHANGED store
  BY DEF Lookup, SwitchOver, ReadBack, Fallback, Install, Abort, store
<1>2. \E s \in {"upsert", "idle", "install", "fallback"} :
        pc' = [pc EXCEPT ![h] = s]
  BY DEF Lookup, SwitchOver, ReadBack, Fallback, Install, Abort, GivesUp, Finish,
         Goto, AfterLookup
<1>3. \A k \in Handlers \ {h} : job'[k] = job[k]
  <2>1. job' = job \/ \E j : job' = [job EXCEPT ![h] = j]
    BY DEF Lookup, SwitchOver, ReadBack, Fallback, Install, Abort, GivesUp, Finish
  <2> QED
    BY <2>1 DEF PolicyInv, HandlersSound
<1> QED
  BY <1>1, <1>2, <1>3, QuietHandler

LEMMA WorldSelects ==
  ASSUME PolicyInv, SelectionInv,
         \/ \E r \in Replicas : BootFails(r) \/ Reload(r)
         \/ SourceChanges
         \/ UNCHANGED vars
  PROVE  SelectionInv'
<1>1. UNCHANGED store
  BY DEF BootFails, Reload, SourceChanges, vars, store
<1>2. ASSUME NEW k \in Handlers
      PROVE  \/ pc'[k] = pc[k] /\ job'[k] = job[k]
             \/ pc'[k] \notin {"retire", "commit"}
  BY DEF BootFails, Reload, SourceChanges, vars
<1> QED
  BY <1>1, <1>2, QuietStep

LEMMA SelectionNext ==
  ASSUME ~Overlap, PolicyInv, SelectionInv, [Next]_vars
  PROVE  SelectionInv'
<1>1. ASSUME NEW h \in Handlers, Request(h) PROVE SelectionInv'
  BY <1>1, RequestSelects
<1>2. ASSUME NEW h \in Handlers, Step(h) PROVE SelectionInv'
  BY <1>2, OtherStepSelects, UpsertSelects, BeginSelects, RetireSelects,
     CommitSelects DEF Step
<1>3. ASSUME NEW h \in Handlers, Abort(h) \/ FailUncommitted(h) PROVE SelectionInv'
  BY <1>3, OtherStepSelects, FailUncommittedSelects
<1> QED
  BY <1>1, <1>2, <1>3, OthersSelect, RestartSelects, WorldSelects DEF Next

LEMMA SelectionAlways ==
  ASSUME ~Overlap
  PROVE  Spec => [](PolicyInv /\ SelectionInv)
<1>1. Init => PolicyInv /\ SelectionInv
  BY InvInit, SelectionInit
<1>2. PolicyInv /\ SelectionInv /\ [Next]_vars => (PolicyInv /\ SelectionInv)'
  BY InvNext, SelectionNext
<1> QED
  BY <1>1, <1>2, PTL DEF Spec

(* Where the store lets one activation transaction in at a time            *)
(* (activate_policy_bundle), an active row is the one selected last, and   *)
(* every row carries the last generation it was given, through any number  *)
(* of crashes, boots and rollbacks.  A store that rolls a failing          *)
(* activation back (PostgreSQL) always has that active row; on SQLite, of  *)
(* one replica, a half-way activation can leave none, but no other one.    *)
THEOREM OneSelectionHolds ==
  ASSUME ~Overlap
  PROVE  Spec => []OneSelection
<1>1. PolicyInv /\ SelectionInv => OneSelection
  BY TableIsOneSelection DEF PolicyInv, SelectionInv
<1> QED
  BY <1>1, SelectionAlways, PTL

(* What a rollback is about to commit governed last before the current     *)
(* bundle did.                                                             *)
LEMMA CommitRestores ==
  ASSUME PolicyInv, SelectionInv, NEW h \in Handlers, pc[h] = "commit",
         job[h].kind = "rollback"
  PROVE  /\ job[h].bundle \notin Current
         /\ \A p \in selected :
              p[2] \in Current \/
                \E q \in selected : q[2] = job[h].bundle /\ q[1] >= p[1]
<1> DEFINE b0 == job[h].bundle
<1>1. b0 \in LastGood
  BY DEF SelectionInv, ReadsHold, InTransaction
<1>2. /\ b0 \in Bundles /\ row[b0].status = "previous"
      /\ \A c \in Bundles : row[c].status = "previous" =>
                              row[b0].gen >= row[c].gen
  BY <1>1 DEF LastGood, Newest, Having
<1>3. b0 \notin Current
  BY <1>2 DEF Current, Newest, Having
<1>4. <<row[b0].gen, b0>> \in selected
  BY <1>2 DEF PolicyInv, Tables, Table, Governing
<1>5. ASSUME NEW p \in selected, p[2] \notin Current
      PROVE  \E q \in selected : q[2] = b0 /\ q[1] >= p[1]
  <2> DEFINE c == p[2]
  <2>1. /\ c \in Bundles /\ p[1] \in Nat /\ row[c].gen \in Nat
        /\ row[b0].gen \in Nat
    BY <1>2 DEF PolicyInv, Tables, Table, RowTypes
  <2>2. Governs(c) /\ p[1] <= row[c].gen
    BY DEF SelectionInv, SelectionTable, Selection, Governs
  <2>3. row[c].status # "active"
    <3> SUFFICES ASSUME row[c].status = "active" PROVE FALSE
      OBVIOUS
    <3>1. \A q \in selected : q[1] <= row[c].gen
      BY <2>1 DEF SelectionInv, SelectionTable, Selection
    <3>2. ASSUME NEW d \in Having("active") PROVE row[c].gen >= row[d].gen
      <4>1. d \in Bundles /\ <<row[d].gen, d>> \in selected
        BY DEF Having, PolicyInv, Tables, Table, Governing
      <4>2. row[d].gen \in Nat
        BY <4>1 DEF PolicyInv, Tables, Table, RowTypes
      <4> QED
        BY <2>1, <3>1, <4>1, <4>2
    <3>3. c \in Current
      BY <2>1, <3>2 DEF Current, Newest, Having
    <3> QED
      BY <1>5, <3>3
  <2>4. row[c].status = "previous"
    BY <2>2, <2>3 DEF Governs, Governing
  <2>5. row[b0].gen >= p[1]
    BY <1>2, <2>1, <2>2, <2>4
  <2> QED
    BY <1>4, <2>5
<1> QED
  BY <1>3, <1>5

(* There, too, a rollback restores the bundle that governed before the     *)
(* current one did (get_previous_policy_bundle, chosen in the transaction  *)
(* that switches); after an activation that SQLite kept only half of, the  *)
(* one that governed until then.                                           *)
THEOREM RollbackRestoresHolds ==
  ASSUME ~Overlap
  PROVE  Spec => RollbackRestores
<1> DEFINE GoesBack ==
      \A h \in Handlers :
         pc[h] = "commit" /\ job[h].kind = "rollback" /\ selected' # selected =>
           /\ job[h].bundle \notin Current
           /\ \A p \in selected :
                p[2] \in Current \/
                  \E q \in selected : q[2] = job[h].bundle /\ q[1] >= p[1]
<1>1. PolicyInv /\ SelectionInv => [GoesBack]_vars
  BY CommitRestores
<1>2. Spec => [][GoesBack]_vars
  BY <1>1, SelectionAlways, PTL
<1> QED
  BY <1>2 DEF RollbackRestores

-----------------------------------------------------------------------------
(* PolicyLifecycle implements PolicyContract.                              *)

LEMMA LatestIsHighest ==
  ASSUME Tables, NEW g \in Highest
  PROVE  Latest = g
<1>1. \A f \in Highest : f \in Nat /\ f <= g /\ g <= f
  BY HighestIsNat DEF Highest
<1>2. Latest \in Highest
  BY DEF Latest
<1> QED
  BY <1>1, <1>2

(* Before anything was selected no row has a generation.                   *)
LEMMA ContractInit == Init => Contract!Init
<1> SUFFICES ASSUME Init PROVE Contract!Init
  OBVIOUS
<1>1. row = [b \in Bundles |-> NoRow] /\ cache = [r \in Replicas |-> Root]
  BY DEF Init
<1>2. \A b \in Bundles : Standing(b) = "never" /\ row[b].gen = 0
  BY <1>1 DEF Standing, NoRow
<1>3. 0 \in Highest
  BY <1>2, PolicyAssumption DEF Highest
<1>4. Latest = 0
  BY <1>3, InvInit, LatestIsHighest DEF PolicyInv
<1> QED
  BY <1>1, <1>2, <1>4 DEF Contract!Init

(* A step that keeps every row's standing and generation, and lets at most *)
(* one replica take up a bundle that was selected.                         *)
LEMMA ContractRuns ==
  ASSUME PolicyInv,
         \A b \in Bundles : Standing(b)' = Standing(b) /\ row'[b].gen = row[b].gen,
         \/ cache' = cache
         \/ \E r \in Replicas, b \in Bundles :
               /\ cache' = [cache EXCEPT ![r] = b]
               /\ b = Root \/ Governs(b)
  PROVE  [Contract!Next]_(Contract!vars)
<1>1. /\ [b \in Bundles |-> Standing(b)]' = [b \in Bundles |-> Standing(b)]
      /\ [b \in Bundles |-> row[b].gen]' = [b \in Bundles |-> row[b].gen]
  OBVIOUS
<1>2. Highest' = Highest
  BY DEF Highest
<1>3. Latest' = Latest
  BY <1>2 DEF Latest
<1>4. CASE cache' = cache
  BY <1>1, <1>3, <1>4 DEF Contract!vars
<1>5. ASSUME NEW r \in Replicas, NEW b \in Bundles,
             cache' = [cache EXCEPT ![r] = b], b = Root \/ Governs(b)
      PROVE  Contract!Next
  <2>1. Governs(b) => [c \in Bundles |-> Standing(c)][b] # "never"
    BY <1>5 DEF Governs, Governing, Standing
  <2>2. Contract!Run(r, b)
    BY <1>1, <1>3, <1>5, <2>1 DEF Contract!Run
  <2> QED
    BY <1>5, <2>2 DEF Contract!Next
<1> QED
  BY <1>4, <1>5

(* The commit of a transaction is the next selection.                      *)
LEMMA ContractSelects ==
  ASSUME PolicyInv, SelectionInv, PolicyInv', NEW h \in Handlers, Commit(h)
  PROVE  Contract!Next
<1>0. pc[h] = "commit" /\ Select(h)
  BY DEF Commit
<1>1. PICK b0 \in Bundles, g0 \in Nat : b0 = job[h].bundle /\ g0 = job[h].gen
  BY <1>0, SelectedAlone
<1>2. /\ row'[b0] = [status |-> "active", gen |-> g0]
      /\ \A b \in Bundles \ {b0} : /\ row'[b].gen = row[b].gen
                                   /\ row'[b].status # "active"
                                   /\ Governs(b)' <=> Governs(b)
  BY <1>0, <1>1, SelectedAlone
<1>3. /\ \A b \in Bundles : row[b] \in RowTypes /\ row'[b] \in RowTypes
      /\ cache' = cache
  BY DEF PolicyInv, Tables, Table, Commit, replica
<1>4. /\ \A b \in Bundles : row[b].gen < g0 /\ row[b].gen \in Nat
      /\ \E b \in Bundles : row[b].gen + 1 = g0
  <2>1. ReadsHold(h) /\ InTransaction(h)
    BY DEF SelectionInv, Commit, InTransaction
  <2> QED
    BY <1>1, <1>3, <2>1 DEF ReadsHold, RowTypes
<1>5. Latest + 1 = g0
  <2>1. PICK g \in Nat : g + 1 = g0 /\ \E b \in Bundles : row[b].gen = g
    BY <1>4
  <2>2. \A b \in Bundles : row[b].gen <= g
    BY <1>4, <2>1
  <2>3. g \in Highest
    BY <2>1, <2>2 DEF Highest
  <2> QED
    BY <2>1, <2>3, LatestIsHighest DEF PolicyInv
<1>6. Latest' = g0
  <2>1. row'[b0].gen = g0
    BY <1>2
  <2>2. \A b \in Bundles : row'[b].gen <= g0
    BY <1>2, <1>4, <2>1
  <2>3. (g0 \in Highest)'
    BY <2>1, <2>2 DEF Highest
  <2>4. \A f \in Highest' : f <= g0 /\ g0 <= f /\ f \in Nat
    BY <1>3, <2>3 DEF Highest, RowTypes
  <2>5. Latest' \in Highest'
    BY <2>3 DEF Latest
  <2> QED
    BY <2>4, <2>5
<1>7. [b \in Bundles |-> row[b].gen]' =
        [[b \in Bundles |-> row[b].gen] EXCEPT ![b0] = Latest']
  <2>1. \A b \in Bundles : row'[b].gen = IF b = b0 THEN Latest' ELSE row[b].gen
    BY <1>2, <1>6
  <2> QED
    BY <2>1
<1>8. ASSUME NEW c \in Bundles
      PROVE  Standing(c)' = IF c = b0 THEN "governs"
                            ELSE IF Standing(c) = "governs" THEN "stands by"
                            ELSE Standing(c)
  <2>1. CASE c = b0
    BY <1>2, <2>1 DEF Standing
  <2>2. CASE c # b0
    <3>1. row'[c].status # "active" /\ (Governs(c)' <=> Governs(c))
      BY <1>2, <2>2
    <3> QED
      BY <2>2, <3>1 DEF Standing, Governs, Governing
  <2> QED
    BY <2>1, <2>2
<1>9. [b \in Bundles |-> Standing(b)]' =
        [c \in Bundles |-> IF c = b0 THEN "governs"
                           ELSE IF [b \in Bundles |-> Standing(b)][c] = "governs"
                           THEN "stands by"
                           ELSE [b \in Bundles |-> Standing(b)][c]]
  BY <1>8
<1>10. Contract!Select(b0)
  BY <1>3, <1>5, <1>6, <1>7, <1>9 DEF Contract!Select
<1> QED
  BY <1>10 DEF Contract!Next

(* What a step does to the caches.                                         *)
LEMMA OneCacheMoves ==
  ASSUME RollsBack, PolicyInv, [Next]_vars
  PROVE  \/ cache' = cache
         \/ /\ UNCHANGED store
            /\ \E r \in Replicas, b \in Bundles : cache' = [cache EXCEPT ![r] = b]
<1>1. ASSUME NEW h \in Handlers, Request(h) \/ Abort(h) PROVE cache' = cache
  BY <1>1 DEF Request, Validate, RequestActivate, RequestRollback, ReadActive,
              Boot, Abort, GivesUp, replica
<1>2. ASSUME NEW h \in Handlers,
             Lookup(h) \/ Upsert(h) \/ Begin(h) \/ Retire(h) \/ Commit(h) \/ ReadBack(h)
      PROVE  cache' = cache
  BY <1>2 DEF Lookup, Upsert, Begin, Retire, Commit, ReadBack, replica
<1>3. ASSUME NEW h \in Handlers, SwitchOver(h) \/ Fallback(h) \/ Install(h)
      PROVE  /\ UNCHANGED store
             /\ \/ cache' = cache
                \/ \E b \in Bundles : cache' = [cache EXCEPT ![On[h]] = b]
  <2>1. job[h] \in JobTypes /\ Sound(pc[h], job[h]) /\ source \in Contents
    BY DEF PolicyInv, HandlersSound, ReplicasTyped
  <2>2. CASE SwitchOver(h)
    <3>1. job[h].bundle \in Bundles
      BY <2>1, <2>2 DEF SwitchOver, Sound, JobTypes
    <3> QED
      BY <2>2, <3>1 DEF SwitchOver, RunBundle
  <2>3. CASE Fallback(h)
    <3>1. source[job[h].bundle] \in Bundles \cup {None}
      BY <2>1, <2>3, SourceTyped DEF Fallback, Sound, JobTypes, PolicyInv
    <3> QED
      BY <2>3, <3>1 DEF Fallback, RunBundle
  <2>4. CASE Install(h)
    <3>1. job[h].found \in Bundles
      BY <2>1, <2>4 DEF Install, Sound
    <3> QED
      BY <2>4, <3>1 DEF Install, RunBundle
  <2> QED
    BY <1>3, <2>2, <2>3, <2>4
<1>4. ASSUME NEW r \in Replicas, Restart(r) \/ Reload(r)
      PROVE  UNCHANGED store /\ cache' = [cache EXCEPT ![r] = Root]
  BY <1>4 DEF Restart, Fresh, GoBack, Reload, store, PolicyInv, Tables, Shown
<1>5. CASE (\E r \in Replicas : BootFails(r)) \/ SourceChanges \/ UNCHANGED vars
  BY <1>5 DEF BootFails, SourceChanges, replica, vars
<1>6. ~OthersCommit /\ ~OthersRollBack /\ \A h \in Handlers : ~FailUncommitted(h)
  BY DEF OthersCommit, OthersRollBack, Uncommitted, FailUncommitted, PolicyInv,
         Tables
<1>7. Root \in Bundles /\ \A h \in Handlers : On[h] \in Replicas
  BY PolicyAssumption
<1> QED
  BY <1>1, <1>2, <1>3, <1>4, <1>5, <1>6, <1>7 DEF Next, Step

(* A recorded candidate is invisible to the contract.                      *)
LEMMA UpsertInvisible ==
  ASSUME PolicyInv, NEW h \in Handlers, Upsert(h), NEW b \in Bundles
  PROVE  Standing(b)' = Standing(b) /\ row'[b].gen = row[b].gen
<1>1. job[h].bundle \in Bundles /\ row' = Upserted(h)
  BY DEF Upsert, PolicyInv, HandlersSound, Sound
<1>2. /\ row'[b].gen = row[b].gen
      /\ \/ row'[b].status = row[b].status
         \/ {row'[b].status, row[b].status} \cap Governing = {}
  BY <1>1, UpsertedRows DEF PolicyInv
<1> QED
  BY <1>2 DEF Standing, Governing

LEMMA ContractNext ==
  ASSUME ~Overlap, RollsBack, PolicyInv, PolicyInv', SelectionInv, SelectionInv',
         RunsSelected', [Next]_vars
  PROVE  [Contract!Next]_(Contract!vars)
<1>1. ASSUME NEW h \in Handlers, Commit(h) PROVE Contract!Next
  BY <1>1, ContractSelects
<1>2. ASSUME NEW h \in Handlers, Upsert(h) PROVE [Contract!Next]_(Contract!vars)
  <2>1. cache' = cache
    BY <1>2 DEF Upsert
  <2> QED
    BY <1>2, <2>1, UpsertInvisible, ContractRuns
<1>3. CASE UNCHANGED store
  <2>1. \A b \in Bundles : /\ Standing(b)' = Standing(b) /\ row'[b].gen = row[b].gen
                           /\ Governs(b)' <=> Governs(b)
    BY <1>3 DEF store, Standing, Governs, Governing
  <2>2. ASSUME NEW r \in Replicas, NEW b \in Bundles,
               cache' = [cache EXCEPT ![r] = b]
        PROVE  b = Root \/ Governs(b)
    <3>1. cache'[r] = b
      BY <2>2 DEF PolicyInv, ReplicasTyped
    <3>2. b = Root \/ <<observed'[r], b>> \in selected'
      BY <3>1 DEF RunsSelected
    <3>3. <<observed'[r], b>> \in selected' => Governs(b)'
      BY DEF SelectionInv, SelectionTable, Selection, Governs
    <3> QED
      BY <2>1, <3>2, <3>3
  <2> QED
    BY <2>1, <2>2, OneCacheMoves, ContractRuns
<1> QED
  BY <1>1, <1>2, <1>3, RowsMove DEF Unfinished

(* Where activation transactions exclude each other and the store rolls a  *)
(* failing one back (PostgreSQL, operators activating one at a time), the  *)
(* statements of activate_policy_bundle and rollback_policy_bundle, the    *)
(* candidates recorded beside them, and the replicas that switch, catch    *)
(* up, boot and die look like single, numbered selections, each displacing *)
(* the one before, and replicas that follow some of them.                  *)
THEOREM ContractKept ==
  ASSUME ~Overlap, RollsBack, SourcesPinned
  PROVE  Spec => KeepsContract
<1> DEFINE Strong == PolicyInv /\ SelectionInv /\ RunsSelected
<1>1. Init => Strong
  BY InvInit, SelectionInit DEF Init, RunsSelected
<1>2. Strong /\ [Next]_vars => Strong'
  BY InvNext, SelectionNext, ServesNext
<1>3. Strong /\ Strong' /\ [Next]_vars => [Contract!Next]_(Contract!vars)
  BY ContractNext
<1>4. Spec => []Strong
  BY <1>1, <1>2, PTL DEF Spec
<1> QED
  BY <1>3, <1>4, ContractInit, PTL DEF Spec, KeepsContract, Contract!Spec

(* An active row is demoted only in the commit that makes another one      *)
(* active (activate_policy_bundle), and validating a bundle again does not *)
(* demote it.                                                              *)
LEMMA GovernedNext ==
  ASSUME RollsBack, PolicyInv, [Next]_vars,
         selected # {} => Having("active") # {}
  PROVE  selected' # {} => Having("active")' # {}
<1>1. ASSUME NEW h \in Handlers, Commit(h) PROVE Having("active")' # {}
  <2>1. HasRow(job[h].bundle) /\ job[h].gen \in Nat /\ Select(h)
    BY <1>1 DEF Commit, PolicyInv, HandlersSound, Sound, JobTypes
  <2>2. /\ job[h].bundle \in Bundles
        /\ row'[job[h].bundle] = [status |-> "active", gen |-> job[h].gen]
    BY <2>1, SelectedRows DEF PolicyInv, HasRow
  <2> QED
    BY <2>1, <2>2 DEF Having
<1>2. ASSUME NEW h \in Handlers, Upsert(h), NEW b \in Having("active")
      PROVE  b \in Having("active")' /\ selected' = selected
  <2>1. Standing(b)' = "governs"
    BY <1>2, UpsertInvisible DEF Having, Standing
  <2> QED
    BY <1>2, <2>1 DEF Having, Standing, Upsert
<1>3. CASE UNCHANGED store
  BY <1>3 DEF store, Having
<1>4. ASSUME NEW h \in Handlers, Upsert(h) PROVE selected' = selected
  BY <1>4 DEF Upsert
<1> QED
  BY <1>1, <1>2, <1>3, <1>4, RowsMove DEF Unfinished

(* On PostgreSQL, whose pool rolls a failing activation back: once a       *)
(* bundle was selected, some bundle governs at every moment, also while    *)
(* activations overlap, fail or are rolled back.  No boot finds the table  *)
(* without an active row and seeds the configured bundle over what an      *)
(* operator selected before (ensure_bootstrapped, activate_policy_bundle). *)
(* On SQLite that happens, as soon as an activation fails between its two  *)
(* UPDATEs.                                                                *)
THEOREM AlwaysGoverned ==
  ASSUME RollsBack
  PROVE  Spec => [](selected # {} => Having("active") # {})
<1> DEFINE Strong == PolicyInv /\ (selected # {} => Having("active") # {})
<1>1. Init => Strong
  BY InvInit DEF Init
<1>2. Strong /\ [Next]_vars => Strong'
  BY InvNext, GovernedNext
<1> QED
  BY <1>1, <1>2, PTL DEF Spec

-----------------------------------------------------------------------------
(* What a probe can and cannot repair                                      *)

(* What handler h can do to its replica as long as b stays selected is     *)
(* nothing: it has not committed, and the sync it may be in is of what the *)
(* replica runs already.                                                   *)
Harmless(h, b) ==
    \/ pc[h] \in {"idle", "lookup", "upsert", "begin", "retire", "commit"}
    \/ /\ pc[h] = "install" /\ job[h].kind = "sync"
       /\ job[h].found = b /\ job[h].foundGen = row[b].gen

(* Replica r runs the selected bundle b, which is durable,                 *)
(* and says it is not ready.                                               *)
Unready(r, b) ==
    /\ up[r] /\ failed[r] /\ durable = Shown
    /\ Current = {b} /\ cache[r] = b /\ observed[r] = row[b].gen
    /\ \A h \in Handlers : On[h] = r => Harmless(h, b)

LEMMA StillUnready ==
  ASSUME NEW r \in Replicas, NEW b \in Bundles, Unready(r, b),
         UNCHANGED <<cache[r], observed[r], Current, row[b].gen>>,
         up'[r], failed'[r], durable' = Shown',
         \A h \in Handlers : On[h] = r => Harmless(h, b)'
  PROVE  Unready(r, b)'
  BY DEF Unready

(* What a step may change in others is nothing to a harmless handler.      *)
LEMMA StillHarmless ==
  ASSUME NEW h \in Handlers, NEW b \in Bundles, Harmless(h, b),
         pc'[h] = pc[h], job'[h] = job[h], row'[b].gen = row[b].gen
  PROVE  Harmless(h, b)'
  BY DEF Harmless

(* A recorded candidate does not change what is current.                   *)
LEMMA UpsertKeepsCurrent ==
  ASSUME PolicyInv, NEW h \in Handlers, Upsert(h)
  PROVE  Current' = Current /\ \A b \in Bundles : row'[b].gen = row[b].gen
<1>1. \A b \in Bundles : row'[b].gen = row[b].gen
  BY UpsertInvisible
<1>2. ASSUME NEW b \in Bundles
      PROVE  row'[b].status = "active" <=> row[b].status = "active"
  BY UpsertInvisible DEF Standing
<1>3. Having("active")' = Having("active")
  BY <1>2 DEF Having
<1>4. Having("active") \subseteq Bundles
  BY DEF Having
<1> QED
  BY <1>1, <1>3, <1>4 DEF Current, Newest

(* A step of handler h that leaves the rest of the replica alone.          *)
LEMMA HandlerStaysUnready ==
  ASSUME PolicyInv, NEW r \in Replicas, NEW b \in Bundles, Unready(r, b),
         NEW h \in Handlers,
         UNCHANGED <<cache[r], observed[r], Current, row[b].gen>>, up'[r], failed'[r],
         durable' = Shown', \A k \in Handlers \ {h} : pc'[k] = pc[k] /\ job'[k] = job[k],
         On[h] = r => Harmless(h, b)'
  PROVE  Unready(r, b)'
<1>1. ASSUME NEW k \in Handlers, On[k] = r PROVE Harmless(k, b)'
  <2>1. Harmless(k, b)
    BY <1>1 DEF Unready
  <2>2. CASE k = h
    BY <1>1, <2>2
  <2>3. CASE k # h
    BY <2>1, <2>3, StillHarmless
  <2> QED
    BY <2>2, <2>3
<1> QED
  BY <1>1, StillUnready

LEMMA RequestStaysUnready ==
  ASSUME PolicyInv, NEW r \in Replicas, NEW b \in Bundles, Unready(r, b),
         NEW h \in Handlers, Request(h)
  PROVE  Unready(r, b)'
<1>1. /\ pc \in [Handlers -> Stages] /\ job \in [Handlers -> JobTypes]
      /\ up[r] /\ failed[r] /\ Current = {b} /\ durable = Shown
  BY DEF PolicyInv, HandlersSound, Unready
<1>2. UNCHANGED <<store, up, cache, observed, failed>>
  BY DEF Request, Validate, RequestActivate, RequestRollback, ReadActive, Boot,
         replica
<1>3. /\ UNCHANGED <<Current, row[b].gen, cache[r], observed[r]>>
      /\ up'[r] /\ failed'[r] /\ durable' = Shown'
  BY <1>1, <1>2 DEF store, Shown, Current, Newest, Having
<1>4. \A k \in Handlers \ {h} : pc'[k] = pc[k] /\ job'[k] = job[k]
  BY <1>1 DEF Request, Validate, RequestActivate, RequestRollback, ReadActive, Boot,
              Goto
<1>5. ASSUME On[h] = r PROVE Harmless(h, b)'
  <2>1. CASE Validate(h) \/ RequestActivate(h) \/ RequestRollback(h)
    <3>1. pc'[h] \in {"lookup", "upsert", "begin"}
      BY <1>1, <2>1 DEF Validate, RequestActivate, RequestRollback, Goto
    <3> QED
      BY <3>1 DEF Harmless
  <2>2. CASE ReadActive(h)
    <3>1. /\ pc'[h] = "install"
          /\ job'[h] = [NoJob EXCEPT !.kind = "sync", !.found = b,
                                     !.foundGen = row[b].gen]
      BY <1>1, <2>2 DEF ReadActive, Goto
    <3>2. /\ job'[h].kind = "sync" /\ job'[h].found = b
          /\ job'[h].foundGen = row[b].gen
      BY <3>1 DEF NoJob
    <3> QED
      BY <1>3, <3>1, <3>2 DEF Harmless
  <2>3. CASE Boot(h)
    BY <1>1, <1>5, <2>3 DEF Boot
  <2> QED
    BY <2>1, <2>2, <2>3 DEF Request
<1> QED
  BY <1>3, <1>4, <1>5, HandlerStaysUnready

(* Handlers of other replicas reach r only through the table.              *)
LEMMA StepElsewhere ==
  ASSUME PolicyInv, NEW r \in Replicas, NEW h \in Handlers, On[h] # r,
         Step(h) \/ Abort(h)
  PROVE  UNCHANGED <<up[r], cache[r], observed[r], failed[r]>>
<1>1. CASE Lookup(h)
  BY <1>1 DEF Lookup, Finish, replica, PolicyInv, ReplicasTyped
<1>2. CASE Upsert(h) \/ Begin(h) \/ Retire(h)
  BY <1>2 DEF Upsert, Begin, Retire, Finish, replica, PolicyInv, ReplicasTyped
<1>3. CASE Commit(h) \/ ReadBack(h)
  BY <1>3 DEF Commit, ReadBack, replica
<1>4. CASE SwitchOver(h)
  BY <1>4 DEF SwitchOver, RunBundle, Finish, PolicyInv, ReplicasTyped
<1>5. CASE Fallback(h)
  <2>1. failed' = failed /\ Finish(h)
    BY <1>5 DEF Fallback
  <2>2. up'[r] = up[r]
    BY <2>1 DEF Finish, PolicyInv, ReplicasTyped
  <2>3. \/ UNCHANGED <<cache, observed>>
        \/ RunBundle(On[h], source[job[h].bundle], job[h].gen)
    BY <1>5 DEF Fallback
  <2>4. UNCHANGED <<cache[r], observed[r]>>
    BY <2>3 DEF RunBundle, PolicyInv, ReplicasTyped
  <2> QED
    BY <2>1, <2>2, <2>4
<1>6. CASE Install(h)
  BY <1>6 DEF Install, RunBundle, Finish, PolicyInv, ReplicasTyped
<1>7. CASE Abort(h)
  BY <1>7 DEF Abort, GivesUp, Finish, PolicyInv, ReplicasTyped
<1> QED
  BY <1>1, <1>2, <1>3, <1>4, <1>5, <1>6, <1>7 DEF Step

(* A harmless handler does no more to its own replica.                     *)
LEMMA HarmlessStep ==
  ASSUME PolicyInv, NEW b \in Bundles, NEW h \in Handlers, Unready(On[h], b),
         Step(h) \/ Abort(h), ~Commit(h)
  PROVE  /\ UNCHANGED <<cache[On[h]], observed[On[h]]>>
         /\ up'[On[h]] /\ failed'[On[h]]
         /\ pc'[h] \in {"idle", "upsert", "begin", "retire", "commit"}
<1>1. /\ pc \in [Handlers -> Stages] /\ Harmless(h, b)
      /\ up[On[h]] /\ failed[On[h]]
      /\ cache[On[h]] = b /\ observed[On[h]] = row[b].gen
      /\ up \in [Replicas -> BOOLEAN] /\ failed \in [Replicas -> BOOLEAN]
      /\ On[h] \in Replicas
  BY PolicyAssumption DEF PolicyInv, HandlersSound, ReplicasTyped, Unready
<1>2. ASSUME Finish(h) PROVE pc'[h] = "idle" /\ up'[On[h]]
  BY <1>1, <1>2 DEF Finish, Goto
<1>3. CASE Lookup(h)
  BY <1>1, <1>2, <1>3 DEF Lookup, Goto, AfterLookup, replica
<1>4. CASE Upsert(h)
  BY <1>1, <1>2, <1>4 DEF Upsert, Goto
<1>5. CASE Begin(h)
  BY <1>1, <1>2, <1>5 DEF Begin, Goto
<1>6. CASE Retire(h)
  BY <1>1, <1>6 DEF Retire, Goto, replica
<1>7. CASE Install(h)
  <2>1. job[h].kind = "sync" /\ UpToDate(h)
    BY <1>1, <1>7 DEF Install, Harmless, UpToDate
  <2>2. Finish(h) /\ UNCHANGED <<cache, observed, failed>>
    BY <1>7, <2>1 DEF Install
  <2> QED
    BY <1>1, <1>2, <2>2
<1>8. CASE Abort(h)
  <2>1. Finish(h) /\ UNCHANGED <<cache, observed>> /\ failed'[On[h]]
    BY <1>1, <1>8 DEF Abort, GivesUp
  <2> QED
    BY <1>2, <2>1
<1>9. ~SwitchOver(h) /\ ~ReadBack(h) /\ ~Fallback(h)
  BY <1>1 DEF Harmless, SwitchOver, ReadBack, Fallback
<1> QED
  BY <1>3, <1>4, <1>5, <1>6, <1>7, <1>8, <1>9 DEF Step

LEMMA StepStaysUnready ==
  ASSUME PolicyInv, NEW r \in Replicas, NEW b \in Bundles, Unready(r, b),
         NEW h \in Handlers, Step(h) \/ Abort(h), ~Commit(h)
  PROVE  Unready(r, b)'
<1>1. /\ up[r] /\ failed[r] /\ durable = Shown
      /\ pc \in [Handlers -> Stages] /\ job \in [Handlers -> JobTypes]
  BY DEF Unready, PolicyInv, HandlersSound
<1>2. UNCHANGED <<cache[r], observed[r]>> /\ up'[r] /\ failed'[r]
  <2>1. CASE On[h] = r
    BY <2>1, HarmlessStep
  <2>2. CASE On[h] # r
    BY <1>1, <2>2, StepElsewhere
  <2> QED
    BY <2>1, <2>2
<1>3. Current' = Current /\ row'[b].gen = row[b].gen /\ durable' = Shown'
  <2>1. CASE Upsert(h)
    BY <2>1, UpsertKeepsCurrent DEF Upsert
  <2>2. CASE ~Upsert(h)
    <3>1. row' = row /\ durable' = Shown'
      BY <1>1, <2>2 DEF Step, Lookup, Begin, Retire, SwitchOver, ReadBack, Fallback,
                  Install, Abort, store, Shown
    <3> QED
      BY <3>1 DEF Current, Newest, Having
  <2> QED
    BY <2>1, <2>2
<1>4. \E stage, j : pc' = [pc EXCEPT ![h] = stage] /\ job' = [job EXCEPT ![h] = j]
  <2>1. ASSUME job' = job PROVE job' = [job EXCEPT ![h] = job[h]]
    BY <1>1, <2>1
  <2>2. CASE Abort(h)
    BY <2>2 DEF Abort, GivesUp, Finish, Goto
  <2>3. CASE Step(h)
    BY <2>1, <2>3
       DEF Step, Lookup, Upsert, Begin, Retire, SwitchOver, ReadBack, Fallback,
           Install, Finish, Goto
  <2> QED
    BY <2>2, <2>3
<1>5. \A k \in Handlers \ {h} : pc'[k] = pc[k] /\ job'[k] = job[k]
  BY <1>1, <1>4
<1>6. On[h] = r => Harmless(h, b)'
  BY HarmlessStep DEF Harmless
<1> QED
  BY <1>2, <1>3, <1>5, <1>6, HandlerStaysUnready

LEMMA WorldStaysUnready ==
  ASSUME PolicyInv, NEW r \in Replicas, NEW b \in Bundles, Unready(r, b),
         \/ \E q \in Replicas : \/ BootFails(q)
                                \/ q # r /\ (Restart(q) \/ Reload(q))
         \/ SourceChanges \/ UNCHANGED vars
  PROVE  Unready(r, b)'
<1>1. /\ up[r] /\ failed[r] /\ durable = Shown
      /\ \A h \in Handlers : On[h] = r => Harmless(h, b)
      /\ up \in [Replicas -> BOOLEAN] /\ failed \in [Replicas -> BOOLEAN]
      /\ cache \in [Replicas -> Bundles] /\ observed \in [Replicas -> Nat]
  BY DEF Unready, PolicyInv, ReplicasTyped
<1>2. UNCHANGED store
  BY <1>1 DEF BootFails, Restart, GoBack, Reload, SourceChanges, vars, store, Shown
<1>3. UNCHANGED <<Current, row[b].gen>>
  BY <1>2 DEF store, Current, Newest, Having
<1>4. /\ UNCHANGED <<cache[r], observed[r]>> /\ up'[r] /\ failed'[r]
      /\ \A h \in Handlers : On[h] = r => pc'[h] = pc[h] /\ job'[h] = job[h]
  <2>1. ASSUME NEW q \in Replicas, BootFails(q)
        PROVE  UNCHANGED <<cache, observed, pc, job>> /\ up'[r] /\ failed'[r]
    BY <1>1, <2>1 DEF BootFails
  <2>2. ASSUME NEW q \in Replicas, q # r, Restart(q)
        PROVE  /\ UNCHANGED <<cache[r], observed[r]>> /\ up'[r] /\ failed'[r]
               /\ \A h \in Handlers : On[h] = r => pc'[h] = pc[h] /\ job'[h] = job[h]
    BY <1>1, <2>2 DEF Restart, Fresh
  <2>3. ASSUME NEW q \in Replicas, q # r, Reload(q)
        PROVE  UNCHANGED <<cache[r], observed, pc, job>> /\ up'[r] /\ failed'[r]
    BY <1>1, <2>3 DEF Reload
  <2>4. CASE SourceChanges \/ UNCHANGED vars
    BY <1>1, <2>4 DEF SourceChanges, replica, vars
  <2> QED
    BY <2>1, <2>2, <2>3, <2>4
<1>5. \A h \in Handlers : On[h] = r => Harmless(h, b)'
  BY <1>1, <1>3, <1>4, StillHarmless
<1> QED
  BY <1>1, <1>2, <1>3, <1>4, <1>5, StillUnready DEF store, Shown

(* A replica that runs the selected bundle and still answers 503 gets      *)
(* ready again only through a new selection (on SQLite also one that was   *)
(* not committed), its own restart or a reload of the shipped bundle:      *)
(* however many probes, evaluations, validations and failing activations   *)
(* it serves, sync_active_policy_bundle finds nothing to do and keeps      *)
(* bootstrap_error.                                                        *)
THEOREM ProbesNeverRepair ==
  Spec => [][\A r \in Replicas : \A b \in Bundles :
               Unready(r, b) =>
                 \/ Unready(r, b)'
                 \/ Restart(r) \/ Reload(r)
                 \/ \E h \in Handlers : Commit(h) \/ FailUncommitted(h)]_vars
<1> DEFINE Repaired(r) ==
      Restart(r) \/ Reload(r) \/ \E h \in Handlers : Commit(h) \/ FailUncommitted(h)
<1>1. ASSUME PolicyInv, [Next]_vars, NEW r \in Replicas, NEW b \in Bundles,
             Unready(r, b), ~Repaired(r)
      PROVE  Unready(r, b)'
  <2>1. ASSUME NEW h \in Handlers, Request(h) PROVE Unready(r, b)'
    BY <1>1, <2>1, RequestStaysUnready
  <2>2. ASSUME NEW h \in Handlers, Step(h) \/ Abort(h) PROVE Unready(r, b)'
    BY <1>1, <2>2, StepStaysUnready
  <2>3. ASSUME NEW q \in Replicas, BootFails(q) \/ Restart(q) \/ Reload(q)
        PROVE  Unready(r, b)'
    <3>1. q = r => ~Restart(q) /\ ~Reload(q)
      BY <1>1 DEF Restart, Fresh, Reload
    <3> QED
      BY <1>1, <2>3, <3>1, WorldStaysUnready
  <2>4. CASE SourceChanges \/ UNCHANGED vars
    BY <1>1, <2>4, WorldStaysUnready
  <2>5. ~OthersCommit /\ ~OthersRollBack
    BY <1>1 DEF Unready, OthersCommit, OthersRollBack, Uncommitted
  <2> QED
    BY <1>1, <2>1, <2>2, <2>3, <2>4, <2>5 DEF Next
<1>2. PolicyInv /\ [Next]_vars =>
        [\A r \in Replicas : \A b \in Bundles :
           Unready(r, b) =>
             \/ Unready(r, b)'
             \/ Restart(r) \/ Reload(r)
             \/ \E h \in Handlers : Commit(h) \/ FailUncommitted(h)]_vars
  BY <1>1
<1>3. Spec => []PolicyInv
  BY InvInit, InvNext, PTL DEF Spec
<1> QED
  BY <1>2, <1>3, PTL DEF Spec

=============================================================================
