----------------------------- MODULE StudioCache -----------------------------
(***************************************************************************)
(* The results Tree Studio serves (project/tree_studio.py) and where it    *)
(* keeps them: the run cache and the artifact cache of StudioHandler, the  *)
(* raw backtest cache behind both, and the tables runs and run_artifacts   *)
(* (v2/run_history.py) that outlive the process.                           *)
(*                                                                         *)
(* Each request has a thread.  It reads the hub's coverage for a           *)
(* fingerprint, looks its key up in memory and on disk, and else loads the *)
(* data, computes, and stores: a lock guards each look at a cache and each *)
(* store, nothing guards what lies between.  The hub is updated by another *)
(* program at any moment.                                                  *)
(*                                                                         *)
(* A result is abstracted to what it was computed from: the tree, the      *)
(* settings beside it, how the walk-forward loop was run, and the version  *)
(* of the data.  A cache is a dict in insertion order: a sequence of       *)
(* entries.                                                                *)
(*                                                                         *)
(* KeyOfConfigOnly, RawKeyOfWindow, EvictsFirst, ConfigAsSettings,         *)
(* LinksByName and AnswerUnrecorded are no part of the model: each is the  *)
(* bug that the definition after it excludes, for trying the properties    *)
(* against.                                                                *)
(***************************************************************************)
EXTENDS Naturals, Sequences, SequencesExt

CONSTANTS
    Threads,
    Trees,      \* configurations, apart from their study and pruning settings
    Settings,   \* those settings
    Growing,    \* the settings whose pruning policy asks for expanding windows
    Questions,  \* bound: the requests that are made, endpoint and configuration
    RunLimit, ArtifactLimit, RawLimit,  \* the caches' limits
    MaxData,    \* bound: how often the hub's data changes
    MaxRequests,\* bound: requests
    MaxEdits,   \* bound: saves of the tree
    MaxCrashes, \* bound: restarts of the server
    Outages,    \* whether reading the hub's coverage may fail
    None, Unavailable

AllPaths == {"estimate", "backtest", "study", "pruning", "audit", "report"}

Configs == [tree : Trees, settings : Settings]

ASSUME QuestionsAreServed == Questions \subseteq [path : AllPaths, config : Configs]
ASSUME SettingsGrow == Growing \subseteq Settings
ASSUME LimitsArePositive == {RunLimit, ArtifactLimit, RawLimit} \subseteq Nat \ {0}
ASSUME BoundsAreNat == {MaxData, MaxRequests, MaxEdits, MaxCrashes} \subseteq Nat

VARIABLES
    data,       \* the version of the hub's data
    runCache, artifactCache, rawCache,
    runs,       \* the table runs by cache_key: the payload and the linked tree
    reports,    \* run_artifacts: the last report attached, by cache_key
    saved,      \* the configuration stored in trees under the root's name
    wasSaved,   \* history: every configuration that was
    pc, op,     \* by thread: the next step of its request, what it holds
    answer,     \* by thread: the last response
    requests, edits, crashes    \* counts under their bounds

memory  == <<runCache, artifactCache, rawCache>>
disk    == <<runs, reports>>
library == <<saved, wasSaved>>
thread  == <<pc, op, answer>>
counts  == <<requests, edits, crashes>>
vars    == <<data, memory, disk, library, thread, counts>>

-----------------------------------------------------------------------------
Fingerprints == 0..MaxData \cup {Unavailable}
Artifacts == {"audit", "report"}

\* What _run_full_backtest and _v2_estimate_payload return ...
Raws == [tree : Trees, series : BOOLEAN, expanding : BOOLEAN, version : 0..MaxData]
\* ... and what a producer makes of it.
Results == [path : AllPaths, settings : Settings, raw : Raws]

ASSUME NoneIsNoValue ==
    /\ None \notin Configs \cup Results
    /\ None \notin [question : [path : AllPaths, config : Configs], since : Nat]
    /\ None \notin [question : [path : AllPaths, config : Configs], version : Nat]
ASSUME UnavailableIsNoVersion == Unavailable \notin Nat
ASSUME OutagesIsBoolean == Outages \in BOOLEAN

KeyOfConfigOnly(path, config, fp) == [path |-> path, config |-> config, fp |-> 0]
CacheKey(path, config, fp) == [path |-> path, config |-> config, fp |-> fp]
Keys == [path : AllPaths, config : Configs, fp : Fingerprints]

\* The settings do not reach the walk-forward loop, so its key leaves them out.
RawKeyOfWindow(tree, series, expanding, fp) ==
    [tree |-> tree, series |-> series, expanding |-> FALSE, fp |-> fp]
RawKey(tree, series, expanding, fp) ==
    [tree |-> tree, series |-> series, expanding |-> expanding, fp |-> fp]
RawKeys == [tree : Trees, series : BOOLEAN, expanding : BOOLEAN, fp : Fingerprints]

Blank == [path |-> None, config |-> None, fp |-> None, rawFp |-> None,
          raw |-> None, link |-> FALSE, since |-> 0]
NoAnswer == [path |-> None, config |-> None, fp |-> None, result |-> None,
             since |-> 0, cached |-> FALSE]

Labels == {"idle", "memory", "disk", "fill",
           "raw_fingerprint", "raw_lookup", "load", "raw_store",
           "store", "link", "record", "attach"}

Init ==
    /\ data = 0
    /\ runCache = <<>> /\ artifactCache = <<>> /\ rawCache = <<>>
    /\ runs = [k \in {} |-> None]
    /\ reports = [k \in {} |-> None]
    /\ saved = None /\ wasSaved = {}
    /\ pc = [t \in Threads |-> "idle"]
    /\ op = [t \in Threads |-> Blank]
    /\ answer = [t \in Threads |-> NoAnswer]
    /\ requests = 0 /\ edits = 0 /\ crashes = 0

-----------------------------------------------------------------------------
(* Bounded dicts                                                           *)

Entries(cache) == ToSet(cache)
Holds(cache, k) == \E e \in Entries(cache) : e.key = k
Lookup(cache, k) == (CHOOSE e \in Entries(cache) : e.key = k).value

\* cache[k] = v: in place when the key is there, at the end when it is not.
Assign(cache, k, v) ==
    LET entry == [key |-> k, value |-> v]
    IN  IF Holds(cache, k)
        THEN [i \in DOMAIN cache |-> IF cache[i].key = k THEN entry ELSE cache[i]]
        ELSE Append(cache, entry)

\* The run cache and the raw cache make room for a key they do not hold ...
EvictsFirst(cache, limit, k) ==
    IF Len(cache) >= limit THEN Tail(cache) ELSE cache
MakeRoom(cache, limit, k) ==
    IF Len(cache) >= limit /\ ~Holds(cache, k) THEN Tail(cache) ELSE cache

Put(cache, limit, k, v) == Assign(MakeRoom(cache, limit, k), k, v)

\* ... the artifact cache makes room whenever it is full.
PutArtifact(cache, k, v) ==
    Assign(IF Len(cache) >= ArtifactLimit THEN Tail(cache) ELSE cache, k, v)

-----------------------------------------------------------------------------
(* Requests                                                                *)

Goto(t, label, held) ==
    /\ pc' = [pc EXCEPT ![t] = label]
    /\ op' = [op EXCEPT ![t] = held]
    /\ UNCHANGED answer

Respond(t, result, cached) ==
    /\ pc' = [pc EXCEPT ![t] = "idle"]
    /\ op' = [op EXCEPT ![t] = Blank]
    /\ answer' = [answer EXCEPT ![t] =
         [path |-> op[t].path, config |-> op[t].config, fp |-> op[t].fp,
          result |-> result, since |-> op[t].since, cached |-> cached]]

IsArtifact(t) == op[t].path \in Artifacts
Key(t) == CacheKey(op[t].path, op[t].config, op[t].fp)
ConfigAsSettings(t) ==
    [path |-> op[t].path, settings |-> op[t].config, raw |-> op[t].raw]
Product(t) ==
    [path |-> op[t].path, settings |-> op[t].config.settings, raw |-> op[t].raw]

\* How the producer of each endpoint runs the walk-forward loop, if it does.
UsesBacktest(path) == path \in {"backtest", "pruning", "audit", "report"}
WantsSeries(path) == path = "audit"
WantsExpanding(path, config) == path = "pruning" /\ config.settings \in Growing

RawKeyOf(t) ==
    RawKey(op[t].config.tree, WantsSeries(op[t].path),
           WantsExpanding(op[t].path, op[t].config), op[t].rawFp)

\* snapshot._coverage_fingerprint: the version the coverage rows show, or the
\* sentinel of a hub that cannot be read.
Coverage == {data} \cup (IF Outages THEN {Unavailable} ELSE {})

\* The request arrives and its fingerprint is read.
Ask(t, q) ==
    /\ pc[t] = "idle" /\ requests < MaxRequests
    /\ requests' = requests + 1
    /\ pc' = [pc EXCEPT ![t] = "memory"]
    /\ \E fp \in Coverage :
         op' = [op EXCEPT ![t] = [Blank EXCEPT !.path = q.path, !.config = q.config,
                                               !.fp = fp, !.since = data]]
    /\ answer' = [answer EXCEPT ![t] = NoAnswer]
    /\ UNCHANGED <<data, memory, disk, library, edits, crashes>>

\* The producer starts: with a fingerprint of its own, or with the data.
Produce(t) ==
    Goto(t, IF UsesBacktest(op[t].path) THEN "raw_fingerprint" ELSE "load", op[t])

LookInMemory(t) ==
    LET cache == IF IsArtifact(t) THEN artifactCache ELSE runCache
    IN  /\ pc[t] = "memory"
        /\ \/ Holds(cache, Key(t)) /\ Respond(t, Lookup(cache, Key(t)), TRUE)
           \/ /\ ~Holds(cache, Key(t))
              /\ IF op[t].path = "audit" THEN Produce(t) ELSE Goto(t, "disk", op[t])
        /\ UNCHANGED <<data, memory, disk, library, counts>>

\* get_by_cache_key, whose payload is then kept in memory, or get_report_artifact.
LookOnDisk(t) ==
    /\ pc[t] = "disk"
    /\ \/ /\ op[t].path = "report" /\ Key(t) \in DOMAIN reports
          /\ Respond(t, reports[Key(t)], TRUE)
       \/ /\ op[t].path # "report" /\ Key(t) \in DOMAIN runs
          /\ Goto(t, "fill", [op[t] EXCEPT !.raw = runs[Key(t)].payload.raw])
       \/ /\ Key(t) \notin (IF op[t].path = "report" THEN DOMAIN reports ELSE DOMAIN runs)
          /\ Produce(t)
    /\ UNCHANGED <<data, memory, disk, library, counts>>

FillFromDisk(t) ==
    /\ pc[t] = "fill"
    /\ runCache' = Put(runCache, RunLimit, Key(t), Product(t))
    /\ Respond(t, Product(t), TRUE)
    /\ UNCHANGED <<data, artifactCache, rawCache, disk, library, counts>>

-----------------------------------------------------------------------------
(* Producers                                                               *)

\* _run_full_backtest asks the hub for a fingerprint again.
ReadRawFingerprint(t) ==
    /\ pc[t] = "raw_fingerprint"
    /\ \E fp \in Coverage : Goto(t, "raw_lookup", [op[t] EXCEPT !.rawFp = fp])
    /\ UNCHANGED <<data, memory, disk, library, counts>>

LookUpRaw(t) ==
    /\ pc[t] = "raw_lookup"
    /\ \/ /\ Holds(rawCache, RawKeyOf(t))
          /\ Goto(t, "store", [op[t] EXCEPT !.raw = Lookup(rawCache, RawKeyOf(t))])
       \/ /\ ~Holds(rawCache, RawKeyOf(t))
          /\ Goto(t, "load", op[t])
    /\ UNCHANGED <<data, memory, disk, library, counts>>

\* The data are loaded once, and what follows is computed from them.
LoadAndCompute(t) ==
    /\ pc[t] = "load"
    /\ Goto(t, IF UsesBacktest(op[t].path) THEN "raw_store" ELSE "store",
            [op[t] EXCEPT !.raw =
               [tree |-> op[t].config.tree, series |-> WantsSeries(op[t].path),
                expanding |-> WantsExpanding(op[t].path, op[t].config),
                version |-> data]])
    /\ UNCHANGED <<data, memory, disk, library, counts>>

StoreRaw(t) ==
    /\ pc[t] = "raw_store"
    /\ rawCache' = Put(rawCache, RawLimit, RawKeyOf(t), op[t].raw)
    /\ Goto(t, "store", op[t])
    /\ UNCHANGED <<data, runCache, artifactCache, disk, library, counts>>

\* Every product is kept in memory; all but the audit bundle are then recorded.
StoreProduct(t) ==
    /\ pc[t] = "store"
    /\ IF IsArtifact(t)
       THEN /\ artifactCache' = PutArtifact(artifactCache, Key(t), Product(t))
            /\ UNCHANGED runCache
       ELSE /\ runCache' = Put(runCache, RunLimit, Key(t), Product(t))
            /\ UNCHANGED artifactCache
    /\ IF op[t].path = "audit" THEN Respond(t, Product(t), FALSE)
       ELSE Goto(t, "link", op[t])
    /\ UNCHANGED <<data, rawCache, disk, library, counts>>

\* _tree_id_for_config: linked only to a saved tree that is this configuration.
LinksByName(t) == saved # None
IsSavedTree(t) == saved = op[t].config

LinkToTree(t) ==
    /\ pc[t] = "link"
    /\ Goto(t, "record", [op[t] EXCEPT !.link = IsSavedTree(t)])
    /\ UNCHANGED <<data, memory, disk, library, counts>>

\* record_run's upsert.
SetRow(table, k, row) ==
    [x \in DOMAIN table \cup {k} |-> IF x = k THEN row ELSE table[x]]

AnswerUnrecorded(t) == runs
WithRun(t) == SetRow(runs, Key(t), [payload |-> Product(t), linked |-> op[t].link])

RecordRun(t) ==
    /\ pc[t] = "record"
    /\ runs' = WithRun(t)
    /\ IF op[t].path = "report" THEN Goto(t, "attach", op[t])
       ELSE Respond(t, Product(t), FALSE)
    /\ UNCHANGED <<data, memory, reports, library, counts>>

AttachReport(t) ==
    /\ pc[t] = "attach"
    /\ reports' = SetRow(reports, Key(t), Product(t))
    /\ Respond(t, Product(t), FALSE)
    /\ UNCHANGED <<data, memory, runs, library, counts>>

\* The request is answered with an error: too few observations, an infeasible
\* node, a locked database.
Fail(t) ==
    /\ pc[t] \in {"disk", "load", "store", "link", "record", "attach"}
    /\ pc' = [pc EXCEPT ![t] = "idle"]
    /\ op' = [op EXCEPT ![t] = Blank]
    /\ UNCHANGED <<data, memory, disk, library, answer, counts>>

-----------------------------------------------------------------------------
(* What happens around the requests                                        *)

ClearCaches ==
    /\ runCache \o artifactCache # <<>>
    /\ runCache' = <<>> /\ artifactCache' = <<>>
    /\ UNCHANGED <<data, rawCache, disk, library, thread, counts>>

SaveModel(config) ==
    /\ saved # config /\ edits < MaxEdits
    /\ edits' = edits + 1
    /\ saved' = config
    /\ wasSaved' = wasSaved \cup {config}
    /\ UNCHANGED <<data, memory, disk, thread, requests, crashes>>

DeleteModel ==
    /\ saved # None
    /\ saved' = None
    /\ UNCHANGED <<data, memory, disk, wasSaved, thread, counts>>

DataChanges ==
    /\ data < MaxData
    /\ data' = data + 1
    /\ UNCHANGED <<memory, disk, library, thread, counts>>

\* The server dies and is started again.
Restart ==
    /\ crashes < MaxCrashes
    /\ crashes' = crashes + 1
    /\ runCache' = <<>> /\ artifactCache' = <<>> /\ rawCache' = <<>>
    /\ pc' = [t \in Threads |-> "idle"]
    /\ op' = [t \in Threads |-> Blank]
    /\ UNCHANGED <<data, disk, library, answer, requests, edits>>

Serve(t) ==
    \/ \E q \in Questions : Ask(t, q)
    \/ LookInMemory(t) \/ LookOnDisk(t) \/ FillFromDisk(t)
    \/ ReadRawFingerprint(t) \/ LookUpRaw(t) \/ LoadAndCompute(t) \/ StoreRaw(t)
    \/ StoreProduct(t) \/ LinkToTree(t) \/ RecordRun(t) \/ AttachReport(t)
    \/ Fail(t)

Next ==
    \/ \E t \in Threads : Serve(t)
    \/ ClearCaches \/ DeleteModel \/ DataChanges \/ Restart
    \/ \E config \in Configs : SaveModel(config)

Spec == Init /\ [][Next]_vars

-----------------------------------------------------------------------------
(* Properties                                                              *)

Rows == [payload : Results, linked : BOOLEAN]
DictOf(K, V) == UNION {[D -> V] : D \in SUBSET K}

\* Every variable has the type its dict, table or local variable has.
TypeOK ==
    /\ data \in 0..MaxData
    /\ \A e \in Entries(runCache) \cup Entries(artifactCache) :
         e.key \in Keys /\ e.value \in Results
    /\ \A e \in Entries(rawCache) : e.key \in RawKeys /\ e.value \in Raws
    /\ DOMAIN runs \subseteq Keys /\ \A k \in DOMAIN runs : runs[k] \in Rows
    /\ DOMAIN reports \subseteq Keys /\ \A k \in DOMAIN reports : reports[k] \in Results
    /\ saved \in Configs \cup {None} /\ wasSaved \subseteq Configs
    /\ pc \in [Threads -> Labels]
    /\ \A t \in Threads :
         /\ op[t].path \in AllPaths \cup {None} /\ op[t].config \in Configs \cup {None}
         /\ op[t].fp \in Fingerprints \cup {None} /\ op[t].raw \in Raws \cup {None}
         /\ answer[t].result \in Results \cup {None}

\* What is kept under a key, in memory or on disk, whichever thread put it there,
\* is what the key's request asks for, computed the way that endpoint computes it
\* from data at least as new as the key's fingerprint.
RightlyRun(r) ==
    LET config == [tree |-> r.raw.tree, settings |-> r.settings]
    IN  /\ r.raw.series = WantsSeries(r.path)
        /\ r.raw.expanding = WantsExpanding(r.path, config)
IsNew(version, fp) == fp = Unavailable \/ version >= fp
IsFor(r, k) ==
    /\ r.path = k.path
    /\ k.config = [tree |-> r.raw.tree, settings |-> r.settings]
    /\ RightlyRun(r)
    /\ IsNew(r.raw.version, k.fp)
EntriesAreTrue ==
    /\ \A e \in Entries(runCache) \cup Entries(artifactCache) : IsFor(e.value, e.key)
    /\ \A k \in DOMAIN runs : IsFor(runs[k].payload, k)
    /\ \A k \in DOMAIN reports : IsFor(reports[k], k)
    /\ \A e \in Entries(rawCache) :
         /\ e.key = RawKey(e.value.tree, e.value.series, e.value.expanding, e.key.fp)
         /\ IsNew(e.value.version, e.key.fp)

\* The caches keep to their limits, and the run cache and the raw cache lose an
\* entry only to a new key's when they are full, or all of them to a reset.
GivesWayTo(old, new, limit) ==
    /\ Len(new) <= limit
    /\ \A e \in Entries(old) :
         \/ Holds(new, e.key)
         \/ new = <<>>
         \/ Len(old) = limit /\ Len(new) = limit
EvictsOnlyForRoom ==
    [][/\ GivesWayTo(runCache, runCache', RunLimit)
       /\ GivesWayTo(rawCache, rawCache', RawLimit)
       /\ Len(artifactCache') <= ArtifactLimit]_vars

\* A run that was computed and answered is on disk from then on, through restarts
\* and cleared caches, with a payload for the same key (a later computation under
\* it may have replaced it).
AnsweredRunsAreKept ==
    \A t \in Threads :
        LET a == answer[t]
            k == CacheKey(a.path, a.config, a.fp)
        IN  a.result # None /\ ~a.cached /\ a.path # "audit" =>
              k \in DOMAIN runs /\ (a.path = "report" => k \in DOMAIN reports)

\* A run is linked to a saved tree only if its very configuration was saved: one
\* that was edited and not saved, or only shares the tree's name, stays unlinked.
LinksAreTrue ==
    \A k \in DOMAIN runs : runs[k].linked => k.config \in wasSaved

\* The whole of it, for a hub whose coverage can be read: caches, disk, races and
\* restarts never show.  What was told is read from the result, not from the key.
Question(r) ==
    IF RightlyRun(r)
    THEN [path |-> r.path, config |-> [tree |-> r.raw.tree, settings |-> r.settings]]
    ELSE None
Service == INSTANCE ResultService WITH
    Nothing <- None,
    asked <- [t \in Threads |->
                IF pc[t] = "idle" THEN None
                ELSE [question |-> [path |-> op[t].path, config |-> op[t].config],
                      since |-> op[t].since]],
    told <- [t \in Threads |->
               IF answer[t].result = None THEN None
               ELSE [question |-> Question(answer[t].result),
                     version |-> answer[t].result.raw.version]]
ImplementsResultService == Service!Spec
=============================================================================
