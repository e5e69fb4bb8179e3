-------------------------- MODULE PolicyLifecycle --------------------------
(***************************************************************************)
(* Which policy bundle governs: the durable table policy_bundles, and the  *)
(* bundle every replica keeps in its process.  Operators validate,         *)
(* activate and roll back bundles through any replica; every evaluation    *)
(* and readiness probe first catches up with the table; replicas boot,     *)
(* die and boot again; the place a bundle was loaded from may change.      *)
(*                                                                         *)
(* A handler h runs on the replica On[h]; pc[h] is its next step.  A step  *)
(* is one store session, one SQL statement of the activation transaction,  *)
(* or one section under the lifecycle's lock.                              *)
(***************************************************************************)
EXTENDS Integers, FiniteSets

CONSTANTS
    Handlers,   \* request handlers, over all replicas
    Replicas,
    On,         \* On[h]: the replica handler h runs on
    Bundles,    \* bundle contents, by digest
    Root,       \* the bundle shipped with the image: loaded on first use
    Seed,       \* the bundle of the configured source: activated on first boot
    Contents,   \* what the recorded source of each bundle may yield
    Overlap,    \* activation transactions of two handlers may overlap
    RollsBack,  \* what a failing session executed is undone
    None,       \* no bundle; a source that cannot be read
    MaxGen      \* no activation is asked for beyond this generation: the
                \* bound of model checking

(* Overlap is TRUE for PostgreSQL at READ COMMITTED, and FALSE where the   *)
(* activations are serialised: one process on SQLite, whose connection is  *)
(* held under one lock, or operators that activate one at a time.  The     *)
(* pool of PostgreSQL rolls a failing session back.  SQLite's connection,  *)
(* which all handlers of the one process share, keeps what it executed     *)
(* for whoever commits next.                                               *)
ASSUME PolicyAssumption ==
    /\ On \in [Handlers -> Replicas]
    /\ Root \in Bundles /\ Seed \in Bundles /\ None \notin Bundles
    /\ Contents \subseteq [Bundles -> Bundles \cup {None}]
    /\ Overlap \in BOOLEAN /\ RollsBack \in BOOLEAN
    /\ ~RollsBack => ~Overlap /\ \A r, s \in Replicas : r = s
    /\ MaxGen \in Nat

VARIABLES
    row,        \* table policy_bundles, as the sessions of all handlers read it
    selected,   \* history: every <<generation, bundle>> an activation gave it
    durable,    \* both as last committed: what a crash leaves
    source,     \* source[b]: what the recorded source of bundle b yields now
    up,         \* replicas that have booted
    cache,      \* the bundle in each replica's process
    previous,   \* the bundle it replaced there
    observed,   \* the generation the replica believes it runs
    failed,     \* bootstrap_error is set: /readyz answers 503
    known,      \* validated candidates in each replica's memory
    pc, job

store == <<row, selected, durable>>
replica == <<up, cache, previous, observed, failed, known>>
vars == <<row, selected, durable, source, up, cache, previous, observed,
          failed, known, pc, job>>

-----------------------------------------------------------------------------
Kinds == {"validate", "activate", "rollback", "sync", "boot"}
Stages == {"idle", "lookup", "upsert", "begin", "retire", "commit", "switch",
           "read", "install", "fallback"}

NoJob == [kind |-> "none", bundle |-> None, gen |-> 0, retire |-> {},
          found |-> None, foundGen |-> 0]

NoRow == [status |-> "none", gen |-> 0]

Fresh(r) == /\ cache' = [cache EXCEPT ![r] = Root]
            /\ previous' = [previous EXCEPT ![r] = None]
            /\ observed' = [observed EXCEPT ![r] = 0]
            /\ failed' = [failed EXCEPT ![r] = FALSE]
            /\ known' = [known EXCEPT ![r] = {}]

(* What the sessions read, committed or not. *)
Shown == [row |-> row, selected |-> selected]

Init == /\ row = [b \in Bundles |-> NoRow]
        /\ selected = {} /\ durable = Shown
        /\ source \in Contents
        /\ up = [r \in Replicas |-> FALSE]
        /\ cache = [r \in Replicas |-> Root]
        /\ previous = [r \in Replicas |-> None]
        /\ observed = [r \in Replicas |-> 0]
        /\ failed = [r \in Replicas |-> FALSE]
        /\ known = [r \in Replicas |-> {}]
        /\ pc = [h \in Handlers |-> "idle"]
        /\ job = [h \in Handlers |-> NoJob]

Goto(h, stage) == pc' = [pc EXCEPT ![h] = stage]

(* The handler is done; a boot ends with the replica serving. *)
Finish(h) == /\ Goto(h, "idle")
             /\ job' = [job EXCEPT ![h] = NoJob]
             /\ up' = IF job[h].kind = "boot" THEN [up EXCEPT ![On[h]] = TRUE]
                      ELSE up

NoLock(h) == TRUE

InTransaction(h) == pc[h] \in {"retire", "commit"}

(* The store answers h: on SQLite not while a transaction holds the lock. *)
StoreFree(h) == Overlap \/ \A k \in Handlers \ {h} : ~InTransaction(k)

Serving(h) == pc[h] = "idle" /\ up[On[h]]

-----------------------------------------------------------------------------
(* Reading the table *)

Having(status) == {b \in Bundles : row[b].status = status}

OldestFirst(S) == {b \in S : \A c \in S : row[b].gen <= row[c].gen}

(* ORDER BY generation DESC: the newest of S; equal generations tie. *)
Newest(S) == {b \in S : \A c \in S : row[b].gen >= row[c].gen}

Current == Newest(Having("active"))
OldestGood == OldestFirst(Having("previous"))
LastGood == Newest(Having("previous"))

(* SELECT MAX(generation): the one element. *)
Highest == {g \in {row[b].gen : b \in Bundles} :
              \A b \in Bundles : row[b].gen <= g}

(* The bound of model checking: nobody asks for one more activation.       *)
Room == \A g \in Highest : g < MaxGen

-----------------------------------------------------------------------------
(* Validate and activate *)

(* A bundle that loads becomes a candidate, in memory first. *)
Validate(h) ==
    /\ Serving(h)
    /\ \E b \in Bundles :
         /\ known' = [known EXCEPT ![On[h]] = @ \cup {b}]
         /\ job' = [job EXCEPT ![h] = [NoJob EXCEPT !.kind = "validate",
                                                    !.bundle = b]]
    /\ Goto(h, "upsert")
    /\ UNCHANGED <<store, source, up, cache, previous, observed, failed>>

RequestActivate(h) ==
    /\ Serving(h) /\ Room
    /\ \E b \in Bundles :
         job' = [job EXCEPT ![h] = [NoJob EXCEPT !.kind = "activate",
                                                 !.bundle = b]]
    /\ Goto(h, "lookup")
    /\ UNCHANGED <<store, source, replica>>

WithoutUpsert == "begin"

(* What is found is recorded again, in case only this replica knows it. *)
AfterLookup == "upsert"

InMemory(r) == known[r] \cup ({cache[r], previous[r]} \ {None})

(* The named bundle, from memory or else from its recorded source; what    *)
(* that source yields now need not be the bundle that was validated.       *)
Lookup(h) ==
    LET r == On[h]
        b == job[h].bundle
        loaded == IF row[b].status = "none" THEN None ELSE source[b] IN
    /\ pc[h] = "lookup"
    /\ \/ /\ b \in InMemory(r)
          /\ Goto(h, AfterLookup)
          /\ UNCHANGED <<job, replica>>
       \/ /\ b \notin InMemory(r) /\ loaded # None
          /\ known' = [known EXCEPT ![r] = @ \cup {loaded}]
          /\ job' = [job EXCEPT ![h].bundle = loaded]
          /\ Goto(h, AfterLookup)
          /\ UNCHANGED <<up, cache, previous, observed, failed>>
       \/ /\ b \notin InMemory(r) /\ loaded = None
          /\ Finish(h)
          /\ UNCHANGED <<cache, previous, observed, failed, known>>
    /\ UNCHANGED <<store, source>>

AlwaysCandidate(status) == "candidate"

UpsertStatus(status) ==
    IF status \in {"active", "previous"} THEN status ELSE "candidate"

Upserted(h) == [row EXCEPT ![job[h].bundle].status = UpsertStatus(@)]

Upsert(h) ==
    /\ pc[h] = "upsert" /\ StoreFree(h)
    /\ row' = Upserted(h) /\ UNCHANGED selected
    /\ durable' = Shown'
    /\ IF job[h].kind = "validate" THEN Finish(h)
       ELSE Goto(h, "begin") /\ UNCHANGED <<job, up>>
    /\ UNCHANGED <<source, cache, previous, observed, failed, known>>

(* A rollback chooses its target inside the transaction.  Overlapping      *)
(* activations can take away the one it saw before: it fails then.         *)
Target(h) == IF job[h].kind = "rollback" THEN LastGood ELSE {job[h].bundle}

(* First statements: the target and SELECT MAX(generation). *)
Begin(h) ==
    /\ pc[h] = "begin" /\ StoreFree(h)
    /\ \/ /\ \E b \in Target(h), g \in Highest :
               job' = [job EXCEPT ![h] = [@ EXCEPT !.bundle = b, !.gen = g + 1]]
          /\ Goto(h, "retire")
          /\ UNCHANGED up
       \/ Target(h) = {} /\ Finish(h)
    /\ UNCHANGED <<store, source, cache, previous, observed, failed, known>>

(* UPDATE of the other active rows: the rows this statement sees. *)
Retire(h) ==
    /\ pc[h] = "retire" /\ StoreFree(h)
    /\ job' = [job EXCEPT ![h].retire = Having("active") \ {job[h].bundle}]
    /\ Goto(h, "commit")
    /\ UNCHANGED <<store, source, replica>>

(* A row another transaction changed meanwhile no longer matches.          *)
Retired(h) ==
    [b \in Bundles |-> IF b \in job[h].retire /\ row[b].status = "active"
                       THEN [row[b] EXCEPT !.status = "previous"] ELSE row[b]]

(* The other UPDATE. *)
Select(h) ==
    LET b == job[h].bundle IN
    /\ row' = [Retired(h) EXCEPT ![b] = [status |-> "active", gen |-> job[h].gen]]
    /\ selected' = selected \cup {<<job[h].gen, b>>}

Commit(h) ==
    /\ pc[h] = "commit" /\ StoreFree(h)
    /\ Select(h) /\ durable' = Shown'
    /\ Goto(h, IF job[h].kind = "rollback" THEN "read" ELSE "switch")
    /\ UNCHANGED <<source, replica, job>>

GenerationNow(h) == CHOOSE g \in Highest : TRUE

(* The generation the activation itself was given. *)
Generation(h) == job[h].gen

RunBundle(r, b, g) == /\ cache' = [cache EXCEPT ![r] = b]
                      /\ observed' = [observed EXCEPT ![r] = g]

(* Only now does the replica that activated switch over. *)
SwitchOver(h) ==
    LET r == On[h] IN
    /\ pc[h] = "switch"
    /\ RunBundle(r, job[h].bundle, Generation(h))
    /\ previous' = IF job[h].kind = "boot" /\ cache[r] = job[h].bundle
                   THEN previous ELSE [previous EXCEPT ![r] = cache[r]]
    /\ failed' = [failed EXCEPT ![r] = FALSE]
    /\ Finish(h)
    /\ UNCHANGED <<store, source, known>>

-----------------------------------------------------------------------------
(* Roll back *)

(* With a durable previous bundle the store decides; without one the       *)
(* replica activates what it ran before.                                   *)
RequestRollback(h) ==
    LET r == On[h] IN
    /\ Serving(h) /\ StoreFree(h) /\ Room
    /\ \/ /\ LastGood # {}
          /\ job' = [job EXCEPT ![h] = [NoJob EXCEPT !.kind = "rollback"]]
          /\ Goto(h, "begin")
       \/ /\ LastGood = {} /\ previous[r] # None
          /\ job' = [job EXCEPT ![h] = [NoJob EXCEPT !.kind = "activate",
                                                     !.bundle = previous[r]]]
          /\ Goto(h, "lookup")
    /\ UNCHANGED <<store, source, replica>>

(* The forced sync of a rollback, and what it does when that fails: load   *)
(* the activated record without comparing digests.                         *)
ReadBack(h) ==
    /\ pc[h] = "read"
    /\ \/ /\ StoreFree(h)
          /\ \E b \in Current :
               job' = [job EXCEPT ![h] = [@ EXCEPT !.found = b,
                                                   !.foundGen = row[b].gen]]
          /\ Goto(h, "install")
       \/ Goto(h, "fallback") /\ UNCHANGED job
    /\ UNCHANGED <<store, source, replica>>

Fallback(h) ==
    LET r == On[h]
        loaded == source[job[h].bundle] IN
    /\ pc[h] = "fallback"
    /\ IF loaded = None THEN UNCHANGED <<cache, observed, previous>>
       ELSE /\ RunBundle(r, loaded, job[h].gen)
            /\ previous' = [previous EXCEPT ![r] = cache[r]]
    /\ Finish(h)
    /\ UNCHANGED <<store, source, failed, known>>

-----------------------------------------------------------------------------
(* Catch up: before every evaluation, probe and listing, and at boot *)

ReadActive(h) ==
    /\ Serving(h) /\ StoreFree(h)
    /\ \E b \in Current :
         job' = [job EXCEPT ![h] = [NoJob EXCEPT !.kind = "sync", !.found = b,
                                                 !.foundGen = row[b].gen]]
    /\ Goto(h, "install")
    /\ UNCHANGED <<store, source, replica>>

SameGeneration(h) == observed[On[h]] = job[h].foundGen

UpToDate(h) == /\ observed[On[h]] = job[h].foundGen
               /\ cache[On[h]] = job[h].found

(* A load that fails or yields another digest keeps the running bundle.    *)
Install(h) ==
    LET r == On[h]
        b == job[h].found
        skip == job[h].kind = "sync" /\ UpToDate(h)
        ok == source[b] = b IN
    /\ pc[h] = "install"
    /\ \/ /\ skip
          /\ UNCHANGED <<cache, observed, previous, failed>>
       \/ /\ ~skip /\ ok
          /\ RunBundle(r, b, job[h].foundGen)
          /\ previous' = IF cache[r] = b THEN previous
                         ELSE [previous EXCEPT ![r] = cache[r]]
          /\ failed' = [failed EXCEPT ![r] = FALSE]
       \/ /\ ~skip /\ ~ok
          /\ failed' = [failed EXCEPT ![r] = TRUE]
          /\ UNCHANGED <<cache, observed, previous>>
    /\ IF ~ok /\ job[h].kind = "rollback"
       THEN Goto(h, "fallback") /\ UNCHANGED <<job, up>>
       ELSE Finish(h)
    /\ UNCHANGED <<store, source, known>>

(* ensure_bootstrapped: follow the durable selection, else seed it.  The   *)
(* replica serves nothing before its boot has ended.                       *)
Boot(h) ==
    LET r == On[h] IN
    /\ ~up[r] /\ StoreFree(h)
    /\ \A k \in Handlers : On[k] = r => pc[k] = "idle"
    /\ \/ /\ \E b \in Current :
               job' = [job EXCEPT ![h] = [NoJob EXCEPT !.kind = "boot",
                                            !.found = b, !.foundGen = row[b].gen]]
          /\ Goto(h, "install")
       \/ /\ Current = {}
          /\ job' = [job EXCEPT ![h] = [NoJob EXCEPT !.kind = "boot",
                                                     !.bundle = Seed]]
          /\ Goto(h, "upsert")
    /\ UNCHANGED <<store, source, replica>>

-----------------------------------------------------------------------------
(* The rest of the world *)

GivesUp(h) == /\ failed' = IF job[h].kind = "boot"
                              THEN [failed EXCEPT ![On[h]] = TRUE] ELSE failed
              /\ Finish(h)
              /\ UNCHANGED <<source, cache, previous, observed, known>>

(* The store fails a handler: its transaction never happened, or it did    *)
(* and the answer was lost.                                                *)
Abort(h) ==
    /\ pc[h] \in {"lookup", "upsert", "begin", "retire", "commit", "switch", "read"}
    /\ GivesUp(h)
    /\ UNCHANGED store

(* On SQLite what a session executed before it failed stays on the shared  *)
(* connection: an upsert or an activation that could not be committed, or  *)
(* the first UPDATE of an activation only, after which nothing governs.    *)
FailUncommitted(h) ==
    /\ ~RollsBack /\ StoreFree(h)
    /\ \/ pc[h] = "upsert" /\ row' = Upserted(h) /\ UNCHANGED selected
       \/ pc[h] = "commit" /\ row' = Retired(h) /\ UNCHANGED selected
       \/ pc[h] = "commit" /\ Select(h)
    /\ GivesUp(h)
    /\ UNCHANGED durable

Uncommitted == durable # Shown /\ \A h \in Handlers : ~InTransaction(h)

(* Any session that commits or rolls back on that connection takes it      *)
(* along: an evaluation that is recorded, a purge that fails.              *)
OthersCommit == /\ Uncommitted
                /\ durable' = Shown
                /\ UNCHANGED <<row, selected, source, replica, pc, job>>

GoBack == /\ row' = durable.row /\ selected' = durable.selected
          /\ UNCHANGED durable

OthersRollBack == /\ Uncommitted
                  /\ GoBack
                  /\ UNCHANGED <<source, replica, pc, job>>

(* A boot that cannot read the store leaves the replica serving the        *)
(* shipped bundle, not ready.                                              *)
BootFails(r) ==
    /\ ~up[r]
    /\ \A k \in Handlers : On[k] = r => pc[k] = "idle"
    /\ up' = [up EXCEPT ![r] = TRUE]
    /\ failed' = [failed EXCEPT ![r] = TRUE]
    /\ UNCHANGED <<store, source, cache, previous, observed, known, pc, job>>

(* A replica dies with everything in its memory, and SQLite's connection   *)
(* with what was not committed.                                            *)
Restart(r) ==
    /\ up' = [up EXCEPT ![r] = FALSE]
    /\ Fresh(r)
    /\ pc' = [h \in Handlers |-> IF On[h] = r THEN "idle" ELSE pc[h]]
    /\ job' = [h \in Handlers |-> IF On[h] = r THEN NoJob ELSE job[h]]
    /\ GoBack
    /\ UNCHANGED source

(* POST /governance/policy-bundle/reload: the shipped bundle again. *)
Reload(r) ==
    /\ up[r]
    /\ cache' = [cache EXCEPT ![r] = Root]
    /\ UNCHANGED <<store, source, up, previous, observed, failed, known, pc, job>>

SourceChanges == /\ source' \in Contents
                 /\ UNCHANGED <<store, replica, pc, job>>

Step(h) == \/ Lookup(h) \/ Upsert(h) \/ Begin(h) \/ Retire(h) \/ Commit(h)
           \/ SwitchOver(h) \/ ReadBack(h) \/ Fallback(h) \/ Install(h)

Request(h) == \/ Validate(h) \/ RequestActivate(h) \/ RequestRollback(h)
              \/ ReadActive(h) \/ Boot(h)

Next == \/ \E h \in Handlers : Request(h) \/ Step(h) \/ Abort(h)
                               \/ FailUncommitted(h)
        \/ \E r \in Replicas : BootFails(r) \/ Restart(r) \/ Reload(r)
        \/ OthersCommit \/ OthersRollBack \/ SourceChanges

Spec == Init /\ [][Next]_vars

(* A handler that started goes on, replicas are booted, and probes arrive  *)
(* however busy the replica is.                                            *)
FairSpec ==
    /\ Spec
    /\ \A h \in Handlers : /\ WF_vars(Step(h)) /\ WF_vars(Boot(h))
                           /\ SF_vars(ReadActive(h))

-----------------------------------------------------------------------------
(* Properties *)

RowTypes == [status: {"none", "candidate", "active", "previous"}, gen: Nat]

JobTypes == [kind: Kinds \cup {"none"}, bundle: Bundles \cup {None}, gen: Nat,
             retire: SUBSET Bundles, found: Bundles \cup {None}, foundGen: Nat]

(* Types, and what a handler relies on at each stage: a transaction works  *)
(* on a bundle that has its row, a sync on one that was selected; on a     *)
(* store that rolls back everything it shows is committed.                 *)
TypeOK ==
    /\ Shown \in [row: [Bundles -> RowTypes], selected: SUBSET (Nat \X Bundles)]
    /\ RollsBack => durable = Shown
    /\ source \in Contents
    /\ up \in [Replicas -> BOOLEAN] /\ failed \in [Replicas -> BOOLEAN]
    /\ cache \in [Replicas -> Bundles]
    /\ previous \in [Replicas -> Bundles \cup {None}]
    /\ observed \in [Replicas -> Nat]
    /\ known \in [Replicas -> SUBSET Bundles]
    /\ pc \in [Handlers -> Stages] /\ job \in [Handlers -> JobTypes]
    /\ \A h \in Handlers :
         /\ pc[h] \in {"retire", "commit", "switch"} =>
              job[h].gen > 0 /\ job[h].bundle \in Bundles
                /\ row[job[h].bundle].status # "none"
         /\ RollsBack /\ pc[h] = "install" =>
              <<job[h].foundGen, job[h].found>> \in selected

(* As long as activations do not overlap, the table holds one selection:   *)
(* its active row is the last one selected, every row carries the last     *)
(* generation it was given, and re-validating a bundle never demotes it    *)
(* (activate_policy_bundle and the CASE in upsert_policy_bundle_candidate, *)
(* with bootstraps, rollbacks and crashes in between).  A store that does  *)
(* not roll back may lose its active row to an activation that failed      *)
(* half-way, but no other bundle becomes active, and it still knows which  *)
(* one was selected last.                                                  *)
OneSelection ==
    /\ \A p, q \in selected : p # q => p[1] # q[1]
    /\ \A b \in Bundles :
         LET mine == {p \in selected : p[2] = b} IN
         /\ mine = {} <=> row[b].status \in {"none", "candidate"}
         /\ mine # {} => /\ <<row[b].gen, b>> \in mine
                         /\ \A p \in mine : p[1] <= row[b].gen
         /\ LET chosen == mine # {} /\ \A p \in selected : p[1] <= row[b].gen IN
            /\ row[b].status = "active" => chosen
            /\ RollsBack /\ chosen => row[b].status = "active"

(* A replica that reports generation g runs the bundle that was given g,   *)
(* or the shipped bundle after a reload: never one that some operator      *)
(* merely validated, nor one whose activation did not commit (the store    *)
(* switches before the process does, and rolls back what fails).           *)
RunsSelected ==
    \A r \in Replicas :
      \/ cache[r] = Root
      \/ <<observed[r], cache[r]>> \in selected

(* A rollback restores the bundle that governed before the current one     *)
(* did: the most recently selected one that is not current (the choice of  *)
(* get_previous_policy_bundle against the history of activations).         *)
RollbackRestores ==
    [][\A h \in Handlers :
         pc[h] = "commit" /\ job[h].kind = "rollback" /\ selected' # selected =>
           /\ job[h].bundle \notin Current
           /\ \A p \in selected :
                p[2] \in Current \/
                  \E q \in selected : q[2] = job[h].bundle /\ q[1] >= p[1]]_vars

(* The table as PolicyContract sees it: a candidate is invisible there.    *)
Latest == CHOOSE g \in Highest : TRUE

Standing(b) == CASE row[b].status = "active" -> "governs"
                 [] row[b].status = "previous" -> "stands by"
                 [] OTHER -> "never"

Contract == INSTANCE PolicyContract WITH
    Shipped <- Root,
    standing <- [b \in Bundles |-> Standing(b)],
    last <- [b \in Bundles |-> row[b].gen],
    latest <- Latest,
    runs <- cache

(* As long as activations do not overlap and a failing one is rolled back, *)
(* table and processes keep the promise of PolicyContract: the statements  *)
(* of activate_policy_bundle, with candidates recorded, handlers that fail *)
(* and replicas that die in between, are one selection, which displaces    *)
(* what governed.                                                          *)
KeepsContract == Contract!Spec

(* Once activations pause and the selected bundle can be loaded, every     *)
(* replica that stays up runs it again and again, whatever it ran before:  *)
(* also after POST /governance/policy-bundle/reload put the shipped bundle *)
(* back (sync compares generation and digest).                             *)
CatchesUp ==
    \A r \in Replicas, b \in Bundles :
      <>[](up[r] /\ Current = {b} /\ source[b] = b) => []<>(cache[r] = b)

-----------------------------------------------------------------------------
(* What the documentation says, where the code does otherwise *)

(* routers/health.py: /readyz is "store ping + valid policy bundle".  A    *)
(* rollback whose forced sync failed and whose fallback then succeeded     *)
(* leaves bootstrap_error behind; later syncs find nothing to do and never *)
(* clear it.                                                               *)
ReadyAgain ==
    \A r \in Replicas, b \in Bundles :
      <>[](up[r] /\ Current = {b} /\ source[b] = b) => []<>(~failed[r])
=============================================================================
