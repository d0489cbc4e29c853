-------------------------- MODULE StudioCacheProofs --------------------------
(***************************************************************************)
(* What the caches and tables of Tree Studio keep, for all sets of threads,*)
(* configurations and requests, limits of the caches, refreshes of the hub *)
(* and restarts: every entry is true of its key, what was computed and     *)
(* answered stays on disk, and the whole implements ResultService.         *)
(***************************************************************************)
EXTENDS StudioCache, TLAPS

-----------------------------------------------------------------------------
(* Bounded dicts                                                           *)

Entry(K, V) == [key : K, value : V]

LEMMA EntriesOfSeq ==
    ASSUME NEW S, NEW cache \in Seq(S), NEW e \in Entries(cache)
    PROVE  e \in S /\ \E i \in 1..Len(cache) : e = cache[i]
BY DEF Entries, ToSet

\* A lookup of a key that is there finds the value of an entry with that key.
LEMMA LookupFinds ==
    ASSUME NEW cache, NEW k, Holds(cache, k)
    PROVE  \E e \in Entries(cache) : e.key = k /\ e.value = Lookup(cache, k)
<1>1. PICK x \in Entries(cache) : x.key = k
  BY DEF Holds
<1> DEFINE found == CHOOSE e \in Entries(cache) : e.key = k
<1>2. found \in Entries(cache) /\ found.key = k
  BY <1>1
<1> QED  BY <1>2 DEF Lookup

LEMMA AppendKeeps ==
    ASSUME NEW S, NEW cache \in Seq(S), NEW x \in S
    PROVE  /\ Append(cache, x) \in Seq(S)
           /\ Len(Append(cache, x)) = Len(cache) + 1
           /\ Entries(Append(cache, x)) = Entries(cache) \cup {x}
<1> DEFINE a == Append(cache, x)
<1>1. /\ a \in Seq(S) /\ Len(a) = Len(cache) + 1 /\ a[Len(a)] = x
      /\ \A i \in 1..Len(cache) : a[i] = cache[i]
  OBVIOUS
<1>2. DOMAIN a = 1..Len(cache) + 1 /\ DOMAIN cache = 1..Len(cache)
  BY <1>1
<1>3. Entries(a) \subseteq Entries(cache) \cup {x}
  <2> SUFFICES ASSUME NEW i \in 1..Len(cache) + 1 PROVE a[i] \in Entries(cache) \cup {x}
    BY <1>2 DEF Entries, ToSet
  <2> QED  BY <1>1, <1>2 DEF Entries, ToSet
<1>4. Entries(cache) \cup {x} \subseteq Entries(a)
  <2>1. \A i \in 1..Len(cache) : cache[i] \in Entries(a)
    <3> SUFFICES ASSUME NEW i \in 1..Len(cache) PROVE cache[i] \in Entries(a)
      OBVIOUS
    <3>1. i \in DOMAIN a /\ a[i] = cache[i]
      BY <1>1, <1>2
    <3> QED  BY <3>1 DEF Entries, ToSet
  <2>2. x \in Entries(a)
    <3>1. Len(a) \in DOMAIN a
      BY <1>1, <1>2
    <3> QED  BY <1>1, <3>1 DEF Entries, ToSet
  <2> QED  BY <1>2, <2>1, <2>2 DEF Entries, ToSet
<1> QED  BY <1>1, <1>3, <1>4

LEMMA TailKeeps ==
    ASSUME NEW S, NEW cache \in Seq(S), cache # <<>>
    PROVE  /\ Tail(cache) \in Seq(S)
           /\ Len(Tail(cache)) = Len(cache) - 1
           /\ Entries(Tail(cache)) \subseteq Entries(cache)
<1>1. /\ Tail(cache) \in Seq(S) /\ Len(Tail(cache)) = Len(cache) - 1
      /\ Len(cache) \in Nat \ {0}
      /\ \A i \in 1..(Len(cache) - 1) : Tail(cache)[i] = cache[i + 1]
  OBVIOUS
<1>2. DOMAIN Tail(cache) = 1..(Len(cache) - 1) /\ DOMAIN cache = 1..Len(cache)
  BY <1>1
<1>3. \A i \in 1..(Len(cache) - 1) : Tail(cache)[i] \in Entries(cache)
  <2> SUFFICES ASSUME NEW i \in 1..(Len(cache) - 1) PROVE Tail(cache)[i] \in Entries(cache)
    OBVIOUS
  <2>1. i + 1 \in DOMAIN cache /\ Tail(cache)[i] = cache[i + 1]
    BY <1>1, <1>2
  <2> QED  BY <2>1 DEF Entries, ToSet
<1> QED  BY <1>1, <1>2, <1>3 DEF Entries, ToSet

\* cache[k] = v loses no key, and adds the one entry.
LEMMA AssignKeeps ==
    ASSUME NEW K, NEW V, NEW cache \in Seq(Entry(K, V)), NEW k \in K, NEW v \in V,
           NEW put, put = Assign(cache, k, v)
    PROVE  /\ put \in Seq(Entry(K, V))
           /\ Len(put) = IF Holds(cache, k) THEN Len(cache) ELSE Len(cache) + 1
           /\ \A e \in Entries(put) : e \in Entries(cache) \/ e = [key |-> k, value |-> v]
           /\ \A e \in Entries(cache) : Holds(put, e.key)
<1> DEFINE entry == [key |-> k, value |-> v]
<1>1. entry \in Entry(K, V) /\ entry.key = k
  BY DEF Entry
<1>2. CASE ~Holds(cache, k)
  <2>1. put = Append(cache, entry)
    BY <1>2 DEF Assign
  <2>2. /\ put \in Seq(Entry(K, V)) /\ Len(put) = Len(cache) + 1
        /\ Entries(put) = Entries(cache) \cup {entry}
    <3> HIDE DEF entry
    <3> QED  BY <1>1, <2>1, AppendKeeps
  <2> QED  BY <1>2, <2>2 DEF Holds
<1>3. CASE Holds(cache, k)
  <2>1. put = [i \in DOMAIN cache |-> IF cache[i].key = k THEN entry ELSE cache[i]]
    BY <1>3 DEF Assign
  <2>2. DOMAIN cache = 1..Len(cache) /\ Len(cache) \in Nat
    OBVIOUS
  <2>3. \A i \in 1..Len(cache) :
          /\ put[i] \in Entry(K, V)
          /\ put[i] = entry \/ put[i] = cache[i]
          /\ put[i].key = cache[i].key
    <3> HIDE DEF entry
    <3> QED  BY <1>1, <2>1, <2>2
  <2>4. put \in Seq(Entry(K, V)) /\ Len(put) = Len(cache) /\ DOMAIN put = 1..Len(cache)
    <3> HIDE DEF entry
    <3> QED  BY <2>1, <2>2, <2>3
  <2>5. \A e \in Entries(put) : e \in Entries(cache) \/ e = entry
    <3> HIDE DEF entry
    <3> QED  BY <2>2, <2>3, <2>4 DEF Entries, ToSet
  <2>6. \A e \in Entries(cache) : Holds(put, e.key)
    <3> HIDE DEF entry
    <3> SUFFICES ASSUME NEW i \in 1..Len(cache) PROVE Holds(put, cache[i].key)
      BY <2>2 DEF Entries, ToSet
    <3>1. put[i] \in Entries(put)
      BY <2>4 DEF Entries, ToSet
    <3> QED  BY <2>3, <3>1 DEF Holds
  <2> QED  BY <1>3, <2>4, <2>5, <2>6
<1> QED  BY <1>2, <1>3

\* The run cache and the raw cache: room is made only for a new key, and then one
\* entry goes.
LEMMA PutKeeps ==
    ASSUME NEW K, NEW V, NEW cache \in Seq(Entry(K, V)), NEW k \in K, NEW v \in V,
           NEW limit \in Nat \ {0}, Len(cache) <= limit,
           NEW put, put = Put(cache, limit, k, v)
    PROVE  /\ put \in Seq(Entry(K, V)) /\ Len(put) <= limit
           /\ \A e \in Entries(put) : e \in Entries(cache) \/ e = [key |-> k, value |-> v]
           /\ GivesWayTo(cache, put, limit)
<1> DEFINE room == MakeRoom(cache, limit, k)
<1>1. put = Assign(room, k, v)
  BY DEF Put
<1>2. CASE Len(cache) < limit \/ Holds(cache, k)
  <2>1. room = cache
    BY <1>2 DEF MakeRoom
  <2> HIDE DEF room
  <2>2. /\ put \in Seq(Entry(K, V))
        /\ Len(put) = IF Holds(cache, k) THEN Len(cache) ELSE Len(cache) + 1
        /\ \A e \in Entries(put) : e \in Entries(cache) \/ e = [key |-> k, value |-> v]
        /\ \A e \in Entries(cache) : Holds(put, e.key)
    BY <1>1, <2>1, AssignKeeps
  <2>3. Len(put) <= limit
    BY <1>2, <2>2
  <2> QED  BY <2>2, <2>3, Zenon DEF GivesWayTo
<1>3. CASE Len(cache) = limit /\ ~Holds(cache, k)
  <2>1. room = Tail(cache) /\ cache # <<>>
    BY <1>3 DEF MakeRoom
  <2> HIDE DEF room
  <2>2. /\ room \in Seq(Entry(K, V)) /\ Len(room) = limit - 1
        /\ Entries(room) \subseteq Entries(cache)
    BY <1>3, <2>1, TailKeeps
  <2>3. ~Holds(room, k)
    BY <1>3, <2>2 DEF Holds
  <2>4. /\ put \in Seq(Entry(K, V))
        /\ Len(put) = IF Holds(room, k) THEN Len(room) ELSE Len(room) + 1
        /\ \A e \in Entries(put) : e \in Entries(room) \/ e = [key |-> k, value |-> v]
    BY <1>1, <2>2, AssignKeeps
  <2>5. Len(put) = limit
    BY <2>2, <2>3, <2>4
  <2>6. \A e \in Entries(put) : e \in Entries(cache) \/ e = [key |-> k, value |-> v]
    BY <2>2, <2>4, Zenon
  <2> QED  BY <1>3, <2>4, <2>5, <2>6 DEF GivesWayTo
<1> QED  BY <1>2, <1>3

\* The artifact cache keeps to its limit too.
LEMMA PutArtifactKeeps ==
    ASSUME NEW K, NEW V, NEW cache \in Seq(Entry(K, V)), NEW k \in K, NEW v \in V,
           Len(cache) <= ArtifactLimit, NEW put, put = PutArtifact(cache, k, v)
    PROVE  /\ put \in Seq(Entry(K, V)) /\ Len(put) <= ArtifactLimit
           /\ \A e \in Entries(put) : e \in Entries(cache) \/ e = [key |-> k, value |-> v]
<1> DEFINE room == IF Len(cache) >= ArtifactLimit THEN Tail(cache) ELSE cache
<1>1. put = Assign(room, k, v)
  BY DEF PutArtifact
<1>2. ArtifactLimit \in Nat \ {0}
  BY LimitsArePositive
<1>3. /\ room \in Seq(Entry(K, V)) /\ Len(room) \in Nat /\ Len(room) < ArtifactLimit
      /\ Entries(room) \subseteq Entries(cache)
  <2>1. CASE Len(cache) >= ArtifactLimit
    <3>1. cache # <<>>
      BY <1>2, <2>1
    <3> QED  BY <1>2, <2>1, <3>1, TailKeeps
  <2>2. CASE ~(Len(cache) >= ArtifactLimit)
    BY <1>2, <2>2
  <2> QED  BY <2>1, <2>2
<1> HIDE DEF room
<1>4. /\ put \in Seq(Entry(K, V))
      /\ Len(put) = IF Holds(room, k) THEN Len(room) ELSE Len(room) + 1
      /\ \A e \in Entries(put) : e \in Entries(room) \/ e = [key |-> k, value |-> v]
  BY <1>1, <1>3, AssignKeeps
<1>5. Len(put) <= ArtifactLimit
  BY <1>2, <1>3, <1>4
<1>6. \A e \in Entries(put) : e \in Entries(cache) \/ e = [key |-> k, value |-> v]
  BY <1>3, <1>4, Zenon
<1> QED  BY <1>4, <1>5, <1>6

-----------------------------------------------------------------------------
(* The invariant                                                           *)

\* r is what a request with key k asks for, computed from data the hub has had by
\* now; from data as new as the fingerprint, if the hub can always be read.
IsKept(r, k, now) ==
    /\ k \in Keys /\ r \in Results
    /\ r.path = k.path
    /\ k.config = [tree |-> r.raw.tree, settings |-> r.settings]
    /\ RightlyRun(r)
    /\ r.raw.version <= now
    /\ ~Outages => IsNew(r.raw.version, k.fp)

\* The same of a raw backtest.
IsRawKept(v, k, now) ==
    /\ k \in RawKeys /\ v \in Raws
    /\ k = RawKey(v.tree, v.series, v.expanding, k.fp)
    /\ v.version <= now
    /\ ~Outages => IsNew(v.version, k.fp)

MemoryInv ==
    /\ data \in 0..MaxData
    /\ runCache \in Seq(Entry(Keys, Results)) /\ Len(runCache) <= RunLimit
    /\ artifactCache \in Seq(Entry(Keys, Results)) /\ Len(artifactCache) <= ArtifactLimit
    /\ rawCache \in Seq(Entry(RawKeys, Raws)) /\ Len(rawCache) <= RawLimit
    /\ \A e \in Entries(runCache) : IsKept(e.value, e.key, data)
    /\ \A e \in Entries(artifactCache) : IsKept(e.value, e.key, data)
    /\ \A e \in Entries(rawCache) : IsRawKept(e.value, e.key, data)

DiskInv ==
    /\ saved \in wasSaved \cup {None} /\ wasSaved \subseteq Configs
    /\ \A k \in DOMAIN runs :
         /\ runs[k] \in Rows
         /\ IsKept(runs[k].payload, k, data)
         /\ runs[k].linked => k.config \in wasSaved
    /\ \A k \in DOMAIN reports : IsKept(reports[k], k, data)

\* What a request holds, and what it was told.
Held == [path : AllPaths \cup {None}, config : Configs \cup {None},
         fp : Fingerprints \cup {None}, rawFp : Fingerprints \cup {None},
         raw : Raws \cup {None}, link : BOOLEAN, since : Nat]
Said == [path : AllPaths \cup {None}, config : Configs \cup {None},
         fp : Fingerprints \cup {None}, result : Results \cup {None},
         since : Nat, cached : BOOLEAN]

\* A request that has read the second fingerprint, and one that has its backtest.
HasRawFp(p, o) ==
    p \in {"raw_lookup", "raw_store"} \/ (p = "load" /\ UsesBacktest(o.path))
HasRaw(p) == p \in {"fill", "raw_store", "store", "link", "record", "attach"}

\* What a request that stands at label p and holds o has established, given the
\* version of the data, the keys in the table runs and the trees that were saved.
Asked(p, o, now) ==
    p # "idle" =>
      /\ o.path \in AllPaths /\ o.config \in Configs /\ o.fp \in Fingerprints
      /\ o.since <= now
      /\ ~Outages => o.fp = o.since
RawFingerprinted(p, o, now) ==
    /\ p \in {"raw_fingerprint", "raw_lookup", "raw_store"} => UsesBacktest(o.path)
    /\ HasRawFp(p, o) =>
         /\ o.rawFp \in Fingerprints
         /\ ~Outages => o.rawFp \in o.fp..now
    /\ p = "raw_store" /\ ~Outages => o.raw.version >= o.rawFp
Computed(p, o, now) ==
    HasRaw(p) =>
      /\ o.raw \in Raws
      /\ o.raw.tree = o.config.tree
      /\ o.raw.series = WantsSeries(o.path)
      /\ o.raw.expanding = WantsExpanding(o.path, o.config)
      /\ o.raw.version <= now
      /\ ~Outages => o.raw.version >= o.fp
Recorded(p, o, rows) ==
    p = "attach" => o.path = "report" /\ CacheKey(o.path, o.config, o.fp) \in rows
Linked(p, o, ever) == p = "record" /\ o.link => o.config \in ever

Ready(p, o, now, rows, ever) ==
    /\ Asked(p, o, now) /\ RawFingerprinted(p, o, now) /\ Computed(p, o, now)
    /\ Recorded(p, o, rows) /\ Linked(p, o, ever)

ThreadInv ==
    /\ pc \in [Threads -> Labels] /\ op \in [Threads -> Held]
    /\ answer \in [Threads -> Said]
    /\ \A t \in Threads : Ready(pc[t], op[t], data, DOMAIN runs, wasSaved)

CacheInv == MemoryInv /\ DiskInv /\ ThreadInv /\ AnsweredRunsAreKept

-----------------------------------------------------------------------------
(* What was established stays so                                           *)

LEMMA KeptLater ==
    ASSUME NEW r, NEW k, NEW now \in Nat, NEW later \in Nat, now <= later
    PROVE  IsKept(r, k, now) => IsKept(r, k, later)
<1> SUFFICES ASSUME IsKept(r, k, now) PROVE r.raw.version <= later
  BY DEF IsKept
<1>1. r.raw.version \in Nat /\ r.raw.version <= now
  BY BoundsAreNat DEF IsKept, Results, Raws
<1> QED  BY <1>1

LEMMA RawKeptLater ==
    ASSUME NEW v, NEW k, NEW now \in Nat, NEW later \in Nat, now <= later
    PROVE  IsRawKept(v, k, now) => IsRawKept(v, k, later)
<1> SUFFICES ASSUME IsRawKept(v, k, now) PROVE v.version <= later
  BY DEF IsRawKept
<1>1. v.version \in Nat /\ v.version <= now
  BY BoundsAreNat DEF IsRawKept, Raws
<1> QED  BY <1>1

LEMMA ReadyLater ==
    ASSUME NEW p, NEW o \in Held, NEW now \in Nat, NEW later \in Nat, now <= later,
           NEW rows, NEW more, rows \subseteq more,
           NEW ever, NEW since, ever \subseteq since,
           Ready(p, o, now, rows, ever)
    PROVE  Ready(p, o, later, more, since)
<1>1. o.since \in Nat
  BY DEF Held
<1>2. Asked(p, o, later)
  BY <1>1 DEF Ready, Asked
<1>3. RawFingerprinted(p, o, later)
  <2>1. ASSUME HasRawFp(p, o), ~Outages PROVE o.rawFp \in o.fp..later
    <3>1. o.rawFp \in o.fp..now /\ o.fp = o.since
      BY <2>1 DEF Ready, Asked, RawFingerprinted, HasRawFp
    <3> QED  BY <1>1, <3>1
  <2> QED  BY <2>1 DEF Ready, RawFingerprinted
<1>4. Computed(p, o, later)
  <2>1. ASSUME HasRaw(p) PROVE o.raw.version <= later
    <3>1. o.raw.version \in Nat /\ o.raw.version <= now
      BY <2>1, BoundsAreNat DEF Ready, Computed, Raws
    <3> QED  BY <3>1
  <2> QED  BY <2>1 DEF Ready, Computed
<1>5. Recorded(p, o, more) /\ Linked(p, o, since)
  BY DEF Ready, Recorded, Linked
<1> QED  BY <1>2, <1>3, <1>4, <1>5 DEF Ready

\* What a request makes of a backtest it has is what its key stands for.
LEMMA ProductIsKept ==
    ASSUME NEW p, HasRaw(p), NEW o \in Held, NEW now \in Nat,
           Asked(p, o, now), Computed(p, o, now)
    PROVE  IsKept([path |-> o.path, settings |-> o.config.settings, raw |-> o.raw],
                  CacheKey(o.path, o.config, o.fp), now)
<1> DEFINE r == [path |-> o.path, settings |-> o.config.settings, raw |-> o.raw]
           k == CacheKey(o.path, o.config, o.fp)
<1>1. /\ o.path \in AllPaths /\ o.config \in Configs /\ o.fp \in Fingerprints
      /\ o.since \in Nat /\ (~Outages => o.fp = o.since)
  BY DEF Asked, HasRaw, Held
<1>2. /\ o.raw \in Raws /\ o.raw.tree = o.config.tree
      /\ o.raw.series = WantsSeries(o.path)
      /\ o.raw.expanding = WantsExpanding(o.path, o.config)
      /\ o.raw.version <= now /\ (~Outages => o.raw.version >= o.fp)
  BY DEF Computed
<1>3. k \in Keys /\ k.path = o.path /\ k.config = o.config /\ k.fp = o.fp
  BY <1>1 DEF CacheKey, Keys
<1>4. r \in Results /\ r.path = o.path /\ r.settings = o.config.settings /\ r.raw = o.raw
  BY <1>1, <1>2 DEF Results, Configs
<1>5. o.config = [tree |-> r.raw.tree, settings |-> r.settings]
  BY <1>1, <1>2, <1>4 DEF Configs
<1> HIDE DEF r, k
<1>6. RightlyRun(r)
  BY <1>2, <1>4, <1>5 DEF RightlyRun
<1>7. ~Outages => IsNew(r.raw.version, k.fp)
  BY <1>2, <1>3, <1>4 DEF IsNew
<1> QED  BY <1>2, <1>3, <1>4, <1>5, <1>6, <1>7 DEF IsKept, r, k

-----------------------------------------------------------------------------
(* The threads                                                             *)

LEMMA Blanks == Blank \in Held /\ NoAnswer \in Said
BY DEF Blank, Held, NoAnswer, Said

LEMMA CacheInit == Init => CacheInv
<1> SUFFICES ASSUME Init PROVE CacheInv
  OBVIOUS
<1> USE DEF Init
<1>1. MemoryInv
  <2>1. data \in 0..MaxData
    BY BoundsAreNat
  <2>2. \A S, n : n \in Nat \ {0} => <<>> \in Seq(S) /\ Len(<<>>) <= n
    OBVIOUS
  <2>3. Entries(<<>>) = {}
    BY DEF Entries, ToSet
  <2> QED  BY <2>1, <2>2, <2>3, LimitsArePositive DEF MemoryInv
<1>2. DiskInv
  BY DEF DiskInv
<1>3. ThreadInv
  <2>1. pc \in [Threads -> Labels] /\ op \in [Threads -> Held] /\ answer \in [Threads -> Said]
    BY Blanks DEF Labels
  <2>2. \A t \in Threads : pc[t] = "idle"
    OBVIOUS
  <2>3. \A o, now, rows, ever : Ready("idle", o, now, rows, ever)
    BY DEF Ready, Asked, RawFingerprinted, HasRawFp, Computed, HasRaw, Recorded, Linked
  <2> QED  BY <2>1, <2>2, <2>3 DEF ThreadInv
<1>4. AnsweredRunsAreKept
  BY DEF AnsweredRunsAreKept, NoAnswer
<1> QED  BY <1>1, <1>2, <1>3, <1>4 DEF CacheInv

LEMMA IdleIsReady ==
    ASSUME NEW o, NEW now, NEW rows, NEW ever
    PROVE  Ready("idle", o, now, rows, ever)
BY DEF Ready, Asked, RawFingerprinted, HasRawFp, Computed, HasRaw, Recorded, Linked

\* Nothing that the requests rely on is taken back: the data get newer, rows and the
\* saved configurations stay.
Grows ==
    /\ data' \in 0..MaxData /\ data <= data'
    /\ DOMAIN runs \subseteq DOMAIN runs' /\ DOMAIN reports \subseteq DOMAIN reports'
    /\ wasSaved \subseteq wasSaved'

LEMMA OthersStayReady ==
    ASSUME CacheInv, Grows, NEW u \in Threads
    PROVE  Ready(pc[u], op[u], data', DOMAIN runs', wasSaved')
<1>1. /\ op[u] \in Held /\ Ready(pc[u], op[u], data, DOMAIN runs, wasSaved)
      /\ data \in Nat /\ data' \in Nat
  BY BoundsAreNat DEF CacheInv, MemoryInv, ThreadInv, Grows
<1> QED  BY <1>1, ReadyLater DEF Grows

\* A request that moves to a label it is ready for, or begins there.
LEMMA MoveKeeps ==
    ASSUME CacheInv, Grows, NEW t \in Threads, NEW label \in Labels, NEW held \in Held,
           pc' = [pc EXCEPT ![t] = label], op' = [op EXCEPT ![t] = held],
           answer' = answer \/ answer' = [answer EXCEPT ![t] = NoAnswer],
           Ready(label, held, data', DOMAIN runs', wasSaved')
    PROVE  ThreadInv' /\ AnsweredRunsAreKept'
<1>1. /\ pc' \in [Threads -> Labels] /\ op' \in [Threads -> Held]
      /\ answer' \in [Threads -> Said]
  BY Blanks DEF CacheInv, ThreadInv
<1>2. ASSUME NEW u \in Threads PROVE Ready(pc'[u], op'[u], data', DOMAIN runs', wasSaved')
  <2>1. CASE u = t
    <3>1. pc'[u] = label /\ op'[u] = held
      BY <2>1 DEF CacheInv, ThreadInv
    <3> QED  BY <3>1
  <2>2. CASE u # t
    <3>1. pc'[u] = pc[u] /\ op'[u] = op[u]
      BY <2>2 DEF CacheInv, ThreadInv
    <3> QED  BY <3>1, OthersStayReady
  <2> QED  BY <2>1, <2>2
<1>3. \A u \in Threads : answer'[u] = answer[u] \/ answer'[u].result = None
  BY DEF CacheInv, ThreadInv, NoAnswer
<1>4. AnsweredRunsAreKept'
  <2> SUFFICES ASSUME NEW u \in Threads, answer'[u].result # None, ~answer'[u].cached,
                      answer'[u].path # "audit",
                      NEW k, k = CacheKey(answer'[u].path, answer'[u].config, answer'[u].fp)
               PROVE  /\ k \in DOMAIN runs'
                      /\ answer'[u].path = "report" => k \in DOMAIN reports'
    BY DEF AnsweredRunsAreKept
  <2>1. answer'[u] = answer[u]
    BY <1>3
  <2> QED  BY <2>1 DEF CacheInv, AnsweredRunsAreKept, Grows
<1> QED  BY <1>1, <1>2, <1>4 DEF ThreadInv

LEMMA GotoKeeps ==
    ASSUME CacheInv, Grows, NEW t \in Threads, NEW label \in Labels, NEW held \in Held,
           Goto(t, label, held), Ready(label, held, data', DOMAIN runs', wasSaved')
    PROVE  ThreadInv' /\ AnsweredRunsAreKept'
BY MoveKeeps DEF Goto

\* A request that ends, and one that is answered.
LEMMA EndKeeps ==
    ASSUME CacheInv, Grows, NEW t \in Threads,
           pc' = [pc EXCEPT ![t] = "idle"], op' = [op EXCEPT ![t] = Blank],
           answer' \in [Threads -> Said]
    PROVE  ThreadInv'
<1>1. pc' \in [Threads -> Labels] /\ op' \in [Threads -> Held]
  BY Blanks DEF CacheInv, ThreadInv, Labels
<1>2. ASSUME NEW u \in Threads PROVE Ready(pc'[u], op'[u], data', DOMAIN runs', wasSaved')
  <2>1. CASE u = t
    <3>1. pc'[u] = "idle"
      BY <2>1 DEF CacheInv, ThreadInv
    <3> QED  BY <3>1, IdleIsReady
  <2>2. CASE u # t
    <3>1. pc'[u] = pc[u] /\ op'[u] = op[u]
      BY <2>2 DEF CacheInv, ThreadInv
    <3> QED  BY <3>1, OthersStayReady
  <2> QED  BY <2>1, <2>2
<1> QED  BY <1>1, <1>2 DEF ThreadInv

LEMMA RespondKeeps ==
    ASSUME CacheInv, Grows, NEW t \in Threads, pc[t] # "idle",
           NEW r \in Results, NEW cached \in BOOLEAN, Respond(t, r, cached),
           ~cached /\ op[t].path # "audit" =>
             /\ Key(t) \in DOMAIN runs'
             /\ op[t].path = "report" => Key(t) \in DOMAIN reports'
    PROVE  ThreadInv' /\ AnsweredRunsAreKept'
<1> DEFINE said == [path |-> op[t].path, config |-> op[t].config, fp |-> op[t].fp,
                    result |-> r, since |-> op[t].since, cached |-> cached]
<1>1. /\ pc' = [pc EXCEPT ![t] = "idle"] /\ op' = [op EXCEPT ![t] = Blank]
      /\ answer' = [answer EXCEPT ![t] = said]
  BY DEF Respond
<1>2. said \in Said
  <2>1. op[t] \in Held
    BY DEF CacheInv, ThreadInv
  <2> QED  BY <2>1 DEF Held, Said
<1>3. /\ said.path = op[t].path /\ said.cached = cached
      /\ CacheKey(said.path, said.config, said.fp) = Key(t)
  BY DEF Key
<1> HIDE DEF said
<1>4. answer' \in [Threads -> Said]
  BY <1>1, <1>2 DEF CacheInv, ThreadInv
<1>5. ThreadInv'
  BY <1>1, <1>4, EndKeeps
<1>6. ASSUME NEW u \in Threads, answer'[u].result # None, ~answer'[u].cached,
             answer'[u].path # "audit",
             NEW k, k = CacheKey(answer'[u].path, answer'[u].config, answer'[u].fp)
      PROVE  k \in DOMAIN runs' /\ (answer'[u].path = "report" => k \in DOMAIN reports')
  <2>1. CASE u = t
    <3>1. answer'[u] = said
      BY <1>1, <2>1 DEF CacheInv, ThreadInv
    <3> QED  BY <1>3, <1>6, <3>1
  <2>2. CASE u # t
    <3>1. answer'[u] = answer[u]
      BY <1>1, <2>2 DEF CacheInv, ThreadInv
    <3> QED  BY <1>6, <3>1 DEF CacheInv, AnsweredRunsAreKept, Grows
  <2> QED  BY <2>1, <2>2
<1>7. AnsweredRunsAreKept'
  BY <1>6 DEF AnsweredRunsAreKept
<1> QED  BY <1>5, <1>7

-----------------------------------------------------------------------------
(* What a step can do to the caches and the tables                         *)

RunCacheMoves ==
    \/ runCache' = runCache \/ runCache' = <<>>
    \/ \E k, r : IsKept(r, k, data) /\ runCache' = Put(runCache, RunLimit, k, r)
ArtifactCacheMoves ==
    \/ artifactCache' = artifactCache \/ artifactCache' = <<>>
    \/ \E k, r : IsKept(r, k, data) /\ artifactCache' = PutArtifact(artifactCache, k, r)
RawCacheMoves ==
    \/ rawCache' = rawCache \/ rawCache' = <<>>
    \/ \E k, v : IsRawKept(v, k, data) /\ rawCache' = Put(rawCache, RawLimit, k, v)
RunsMove ==
    \/ runs' = runs
    \/ \E k, row : /\ row \in Rows /\ IsKept(row.payload, k, data)
                   /\ row.linked => k.config \in wasSaved
                   /\ runs' = SetRow(runs, k, row)
ReportsMove ==
    \/ reports' = reports
    \/ \E k, r : IsKept(r, k, data) /\ reports' = SetRow(reports, k, r)
LibraryMoves ==
    /\ wasSaved \subseteq wasSaved' /\ wasSaved' \subseteq Configs
    /\ saved' \in wasSaved' \cup {None}
DataMoves == data' = data \/ (data < MaxData /\ data' = data + 1)

Moves ==
    /\ RunCacheMoves /\ ArtifactCacheMoves /\ RawCacheMoves
    /\ RunsMove /\ ReportsMove /\ LibraryMoves /\ DataMoves

LEMMA ThreadHolds ==
    ASSUME CacheInv, NEW t \in Threads
    PROVE  op[t] \in Held /\ Ready(pc[t], op[t], data, DOMAIN runs, wasSaved)
BY DEF CacheInv, ThreadInv

LEMMA ThreadProduct ==
    ASSUME CacheInv, NEW t \in Threads, HasRaw(pc[t])
    PROVE  /\ IsKept(Product(t), Key(t), data)
           /\ Product(t) \in Results /\ Key(t) \in Keys
<1>1. /\ op[t] \in Held /\ Asked(pc[t], op[t], data) /\ Computed(pc[t], op[t], data)
      /\ data \in Nat
  BY ThreadHolds, BoundsAreNat DEF Ready, CacheInv, MemoryInv
<1>2. IsKept(Product(t), Key(t), data)
  BY <1>1, ProductIsKept DEF Product, Key
<1> QED  BY <1>2 DEF IsKept

\* The raw backtest that a request computed belongs under the key it looked for.
LEMMA ThreadRaw ==
    ASSUME CacheInv, NEW t \in Threads, pc[t] = "raw_store"
    PROVE  IsRawKept(op[t].raw, RawKeyOf(t), data)
<1>1. /\ op[t] \in Held /\ Asked("raw_store", op[t], data)
      /\ RawFingerprinted("raw_store", op[t], data) /\ Computed("raw_store", op[t], data)
  BY ThreadHolds DEF Ready
<1> DEFINE o == op[t]
           k == RawKeyOf(t)
<1>2. /\ o.raw \in Raws /\ o.raw.tree = o.config.tree
      /\ o.raw.series = WantsSeries(o.path)
      /\ o.raw.expanding = WantsExpanding(o.path, o.config) /\ o.raw.version <= data
  BY <1>1 DEF Computed, HasRaw
<1>3. o.rawFp \in Fingerprints /\ (~Outages => o.raw.version >= o.rawFp)
  BY <1>1 DEF RawFingerprinted, HasRawFp
<1>4. k = RawKey(o.raw.tree, o.raw.series, o.raw.expanding, o.rawFp)
  BY <1>2 DEF RawKeyOf
<1> HIDE DEF o, k
<1>5. k \in RawKeys /\ k.fp = o.rawFp
  BY <1>2, <1>3, <1>4 DEF RawKey, RawKeys, Raws
<1> QED  BY <1>2, <1>3, <1>4, <1>5 DEF IsRawKept, IsNew, o, k

LEMMA ServeMoves ==
    ASSUME CacheInv, NEW t \in Threads, Serve(t)
    PROVE  Moves
<1> USE DEF memory, disk, library, counts
<1>1. LibraryMoves /\ DataMoves
  <2>1. UNCHANGED <<data, library>>
    BY DEF Serve, Ask, LookInMemory, LookOnDisk, FillFromDisk, ReadRawFingerprint,
           LookUpRaw, LoadAndCompute, StoreRaw, StoreProduct, LinkToTree, RecordRun,
           AttachReport, Fail
  <2> QED  BY <2>1 DEF LibraryMoves, DataMoves, CacheInv, DiskInv
<1>2. ASSUME UNCHANGED <<memory, disk>> PROVE Moves
  BY <1>1, <1>2
     DEF Moves, RunCacheMoves, ArtifactCacheMoves, RawCacheMoves, RunsMove, ReportsMove
<1>3. CASE FillFromDisk(t)
  <2>1. IsKept(Product(t), Key(t), data)
    BY <1>3, ThreadProduct DEF FillFromDisk, HasRaw
  <2>2. /\ runCache' = Put(runCache, RunLimit, Key(t), Product(t))
        /\ UNCHANGED <<artifactCache, rawCache, runs, reports>>
    BY <1>3 DEF FillFromDisk
  <2> QED  BY <1>1, <2>1, <2>2
       DEF Moves, RunCacheMoves, ArtifactCacheMoves, RawCacheMoves, RunsMove, ReportsMove
<1>4. CASE StoreRaw(t)
  <2>1. IsRawKept(op[t].raw, RawKeyOf(t), data)
    BY <1>4, ThreadRaw DEF StoreRaw
  <2>2. /\ rawCache' = Put(rawCache, RawLimit, RawKeyOf(t), op[t].raw)
        /\ UNCHANGED <<runCache, artifactCache, runs, reports>>
    BY <1>4 DEF StoreRaw
  <2> QED  BY <1>1, <2>1, <2>2
       DEF Moves, RunCacheMoves, ArtifactCacheMoves, RawCacheMoves, RunsMove, ReportsMove
<1>5. CASE StoreProduct(t)
  <2>1. IsKept(Product(t), Key(t), data)
    BY <1>5, ThreadProduct DEF StoreProduct, HasRaw
  <2>2. /\ \/ /\ artifactCache' = PutArtifact(artifactCache, Key(t), Product(t))
              /\ runCache' = runCache
           \/ /\ runCache' = Put(runCache, RunLimit, Key(t), Product(t))
              /\ artifactCache' = artifactCache
        /\ UNCHANGED <<rawCache, runs, reports>>
    BY <1>5 DEF StoreProduct
  <2> QED  BY <1>1, <2>1, <2>2
       DEF Moves, RunCacheMoves, ArtifactCacheMoves, RawCacheMoves, RunsMove, ReportsMove
<1>6. CASE RecordRun(t)
  <2>1. IsKept(Product(t), Key(t), data) /\ Product(t) \in Results
    BY <1>6, ThreadProduct DEF RecordRun, HasRaw
  <2> DEFINE row == [payload |-> Product(t), linked |-> op[t].link]
  <2>2. row \in Rows /\ row.payload = Product(t) /\ row.linked = op[t].link
    BY <2>1, ThreadHolds DEF Rows, Held
  <2>3. row.linked => Key(t).config \in wasSaved
    BY <1>6, <2>2, ThreadHolds DEF RecordRun, Ready, Linked, Key, CacheKey
  <2>4. runs' = SetRow(runs, Key(t), row) /\ UNCHANGED <<memory, reports>>
    BY <1>6 DEF RecordRun, WithRun
  <2> HIDE DEF row
  <2> QED  BY <1>1, <2>1, <2>2, <2>3, <2>4
       DEF Moves, RunCacheMoves, ArtifactCacheMoves, RawCacheMoves, RunsMove, ReportsMove
<1>7. CASE AttachReport(t)
  <2>1. IsKept(Product(t), Key(t), data)
    BY <1>7, ThreadProduct DEF AttachReport, HasRaw
  <2>2. reports' = SetRow(reports, Key(t), Product(t)) /\ UNCHANGED <<memory, runs>>
    BY <1>7 DEF AttachReport
  <2> QED  BY <1>1, <2>1, <2>2
       DEF Moves, RunCacheMoves, ArtifactCacheMoves, RawCacheMoves, RunsMove, ReportsMove
<1> QED
  BY <1>2, <1>3, <1>4, <1>5, <1>6, <1>7
     DEF Serve, Ask, LookInMemory, LookOnDisk, ReadRawFingerprint, LookUpRaw,
         LoadAndCompute, LinkToTree, Fail

LEMMA OutsideMoves ==
    ASSUME CacheInv,
           \/ ClearCaches \/ DeleteModel \/ DataChanges \/ Restart
           \/ \E config \in Configs : SaveModel(config)
           \/ UNCHANGED vars
    PROVE  Moves
BY DEF vars, memory, disk, library, thread, counts, ClearCaches, DeleteModel, DataChanges,
       Restart, SaveModel, Moves, RunCacheMoves, ArtifactCacheMoves, RawCacheMoves,
       RunsMove, ReportsMove, LibraryMoves, DataMoves, CacheInv, DiskInv

LEMMA StepMoves ==
    ASSUME CacheInv, [Next]_vars
    PROVE  Moves
BY ServeMoves, OutsideMoves DEF Next

LEMMA MovesGrow ==
    ASSUME CacheInv, Moves
    PROVE  Grows
<1>1. data \in 0..MaxData /\ MaxData \in Nat
  BY BoundsAreNat DEF CacheInv, MemoryInv
<1>2. data' \in 0..MaxData /\ data <= data'
  BY <1>1 DEF Moves, DataMoves
<1>3. DOMAIN runs \subseteq DOMAIN runs'
  <2>1. CASE runs' = runs
    BY <2>1
  <2>2. ASSUME NEW k, NEW row, runs' = SetRow(runs, k, row)
        PROVE  DOMAIN runs \subseteq DOMAIN runs'
    BY <2>2 DEF SetRow
  <2> QED  BY <2>1, <2>2 DEF Moves, RunsMove
<1>4. DOMAIN reports \subseteq DOMAIN reports'
  <2>1. CASE reports' = reports
    BY <2>1
  <2>2. ASSUME NEW k, NEW row, reports' = SetRow(reports, k, row)
        PROVE  DOMAIN reports \subseteq DOMAIN reports'
    BY <2>2 DEF SetRow
  <2> QED  BY <2>1, <2>2 DEF Moves, ReportsMove
<1> QED  BY <1>2, <1>3, <1>4 DEF Grows, Moves, LibraryMoves

LEMMA IsEntry ==
    ASSUME NEW r, NEW k, NEW now
    PROVE  /\ IsKept(r, k, now) => k \in Keys /\ r \in Results
           /\ IsRawKept(r, k, now) => k \in RawKeys /\ r \in Raws
BY DEF IsKept, IsRawKept

\* Each cache after a step: still a dict within its limit, whose entries are true.
LEMMA RunCacheKept ==
    ASSUME CacheInv, Moves
    PROVE  /\ runCache' \in Seq(Entry(Keys, Results)) /\ Len(runCache') <= RunLimit
           /\ \A e \in Entries(runCache') : IsKept(e.value, e.key, data')
           /\ GivesWayTo(runCache, runCache', RunLimit)
<1>1. /\ runCache \in Seq(Entry(Keys, Results)) /\ Len(runCache) <= RunLimit
      /\ \A e \in Entries(runCache) : IsKept(e.value, e.key, data)
      /\ RunLimit \in Nat \ {0}
  BY LimitsArePositive DEF CacheInv, MemoryInv
<1>2. data \in Nat /\ data' \in Nat /\ data <= data'
  BY MovesGrow, BoundsAreNat DEF Grows, CacheInv, MemoryInv
<1>3. CASE runCache' = runCache
  <2>1. \A e \in Entries(runCache) : IsKept(e.value, e.key, data')
    BY <1>1, <1>2, KeptLater
  <2> QED  BY <1>1, <1>3, <2>1 DEF GivesWayTo, Holds
<1>4. CASE runCache' = <<>>
  <2>1. Entries(<<>>) = {}
    BY DEF Entries, ToSet
  <2> QED  BY <1>1, <1>4, <2>1 DEF GivesWayTo
<1>5. ASSUME NEW k, NEW r, IsKept(r, k, data), runCache' = Put(runCache, RunLimit, k, r)
      PROVE  /\ runCache' \in Seq(Entry(Keys, Results)) /\ Len(runCache') <= RunLimit
             /\ \A e \in Entries(runCache') : IsKept(e.value, e.key, data')
             /\ GivesWayTo(runCache, runCache', RunLimit)
  <2>1. k \in Keys /\ r \in Results
    BY <1>5, IsEntry
  <2>2. /\ runCache' \in Seq(Entry(Keys, Results)) /\ Len(runCache') <= RunLimit
        /\ \A e \in Entries(runCache') : e \in Entries(runCache) \/ e = [key |-> k, value |-> r]
        /\ GivesWayTo(runCache, runCache', RunLimit)
    BY <1>1, <1>5, <2>1, PutKeeps
  <2>3. ASSUME NEW e \in Entries(runCache') PROVE IsKept(e.value, e.key, data')
    <3>1. IsKept(e.value, e.key, data)
      BY <1>1, <1>5, <2>2
    <3> QED  BY <1>2, <3>1, KeptLater
  <2> QED  BY <2>2, <2>3
<1> QED  BY <1>3, <1>4, <1>5 DEF Moves, RunCacheMoves

LEMMA ArtifactCacheKept ==
    ASSUME CacheInv, Moves
    PROVE  /\ artifactCache' \in Seq(Entry(Keys, Results))
           /\ Len(artifactCache') <= ArtifactLimit
           /\ \A e \in Entries(artifactCache') : IsKept(e.value, e.key, data')
<1>1. /\ artifactCache \in Seq(Entry(Keys, Results)) /\ Len(artifactCache) <= ArtifactLimit
      /\ \A e \in Entries(artifactCache) : IsKept(e.value, e.key, data)
      /\ ArtifactLimit \in Nat \ {0}
  BY LimitsArePositive DEF CacheInv, MemoryInv
<1>2. data \in Nat /\ data' \in Nat /\ data <= data'
  BY MovesGrow, BoundsAreNat DEF Grows, CacheInv, MemoryInv
<1>3. CASE artifactCache' = artifactCache
  <2>1. \A e \in Entries(artifactCache) : IsKept(e.value, e.key, data')
    BY <1>1, <1>2, KeptLater
  <2> QED  BY <1>1, <1>3, <2>1
<1>4. CASE artifactCache' = <<>>
  <2>1. Entries(<<>>) = {}
    BY DEF Entries, ToSet
  <2> QED  BY <1>1, <1>4, <2>1
<1>5. ASSUME NEW k, NEW r, IsKept(r, k, data),
             artifactCache' = PutArtifact(artifactCache, k, r)
      PROVE  /\ artifactCache' \in Seq(Entry(Keys, Results))
             /\ Len(artifactCache') <= ArtifactLimit
             /\ \A e \in Entries(artifactCache') : IsKept(e.value, e.key, data')
  <2>1. k \in Keys /\ r \in Results
    BY <1>5, IsEntry
  <2>2. /\ artifactCache' \in Seq(Entry(Keys, Results))
        /\ Len(artifactCache') <= ArtifactLimit
        /\ \A e \in Entries(artifactCache') :
             e \in Entries(artifactCache) \/ e = [key |-> k, value |-> r]
    BY <1>1, <1>5, <2>1, PutArtifactKeeps
  <2>3. ASSUME NEW e \in Entries(artifactCache') PROVE IsKept(e.value, e.key, data')
    <3>1. IsKept(e.value, e.key, data)
      BY <1>1, <1>5, <2>2
    <3> QED  BY <1>2, <3>1, KeptLater
  <2> QED  BY <2>2, <2>3
<1> QED  BY <1>3, <1>4, <1>5 DEF Moves, ArtifactCacheMoves

LEMMA RawCacheKept ==
    ASSUME CacheInv, Moves
    PROVE  /\ rawCache' \in Seq(Entry(RawKeys, Raws)) /\ Len(rawCache') <= RawLimit
           /\ \A e \in Entries(rawCache') : IsRawKept(e.value, e.key, data')
           /\ GivesWayTo(rawCache, rawCache', RawLimit)
<1>1. /\ rawCache \in Seq(Entry(RawKeys, Raws)) /\ Len(rawCache) <= RawLimit
      /\ \A e \in Entries(rawCache) : IsRawKept(e.value, e.key, data)
      /\ RawLimit \in Nat \ {0}
  BY LimitsArePositive DEF CacheInv, MemoryInv
<1>2. data \in Nat /\ data' \in Nat /\ data <= data'
  BY MovesGrow, BoundsAreNat DEF Grows, CacheInv, MemoryInv
<1>3. CASE rawCache' = rawCache
  <2>1. \A e \in Entries(rawCache) : IsRawKept(e.value, e.key, data')
    BY <1>1, <1>2, RawKeptLater
  <2> QED  BY <1>1, <1>3, <2>1 DEF GivesWayTo, Holds
<1>4. CASE rawCache' = <<>>
  <2>1. Entries(<<>>) = {}
    BY DEF Entries, ToSet
  <2> QED  BY <1>1, <1>4, <2>1 DEF GivesWayTo
<1>5. ASSUME NEW k, NEW v, IsRawKept(v, k, data), rawCache' = Put(rawCache, RawLimit, k, v)
      PROVE  /\ rawCache' \in Seq(Entry(RawKeys, Raws)) /\ Len(rawCache') <= RawLimit
             /\ \A e \in Entries(rawCache') : IsRawKept(e.value, e.key, data')
             /\ GivesWayTo(rawCache, rawCache', RawLimit)
  <2>1. k \in RawKeys /\ v \in Raws
    BY <1>5, IsEntry
  <2>2. /\ rawCache' \in Seq(Entry(RawKeys, Raws)) /\ Len(rawCache') <= RawLimit
        /\ \A e \in Entries(rawCache') : e \in Entries(rawCache) \/ e = [key |-> k, value |-> v]
        /\ GivesWayTo(rawCache, rawCache', RawLimit)
    BY <1>1, <1>5, <2>1, PutKeeps
  <2>3. ASSUME NEW e \in Entries(rawCache') PROVE IsRawKept(e.value, e.key, data')
    <3>1. IsRawKept(e.value, e.key, data)
      BY <1>1, <1>5, <2>2
    <3> QED  BY <1>2, <3>1, RawKeptLater
  <2> QED  BY <2>2, <2>3
<1> QED  BY <1>3, <1>4, <1>5 DEF Moves, RawCacheMoves

LEMMA MemoryKept ==
    ASSUME CacheInv, Moves
    PROVE  MemoryInv'
BY RunCacheKept, ArtifactCacheKept, RawCacheKept, MovesGrow DEF MemoryInv, Grows

LEMMA DiskKept ==
    ASSUME CacheInv, Moves
    PROVE  DiskInv'
<1>1. data \in Nat /\ data' \in Nat /\ data <= data' /\ wasSaved \subseteq wasSaved'
  BY MovesGrow, BoundsAreNat DEF Grows, CacheInv, MemoryInv
<1>2. ASSUME NEW x \in DOMAIN runs'
      PROVE  /\ runs'[x] \in Rows /\ IsKept(runs'[x].payload, x, data')
             /\ runs'[x].linked => x.config \in wasSaved'
  <2>1. ASSUME x \in DOMAIN runs, runs'[x] = runs[x]
        PROVE  /\ runs'[x] \in Rows /\ IsKept(runs'[x].payload, x, data')
               /\ runs'[x].linked => x.config \in wasSaved'
    BY <1>1, <2>1, KeptLater DEF CacheInv, DiskInv
  <2>2. ASSUME NEW k, NEW row \in Rows, IsKept(row.payload, k, data),
               row.linked => k.config \in wasSaved, runs' = SetRow(runs, k, row)
        PROVE  /\ runs'[x] \in Rows /\ IsKept(runs'[x].payload, x, data')
               /\ runs'[x].linked => x.config \in wasSaved'
    <3>1. CASE x = k
      <4>1. runs'[x] = row
        BY <2>2, <3>1 DEF SetRow
      <4> QED  BY <1>1, <2>2, <3>1, <4>1, KeptLater
    <3>2. CASE x # k
      <4>1. x \in DOMAIN runs /\ runs'[x] = runs[x]
        BY <1>2, <2>2, <3>2 DEF SetRow
      <4> QED  BY <2>1, <4>1
    <3> QED  BY <3>1, <3>2
  <2> QED  BY <1>2, <2>1, <2>2 DEF Moves, RunsMove
<1>3. ASSUME NEW x \in DOMAIN reports' PROVE IsKept(reports'[x], x, data')
  <2>1. ASSUME x \in DOMAIN reports, reports'[x] = reports[x]
        PROVE  IsKept(reports'[x], x, data')
    BY <1>1, <2>1, KeptLater DEF CacheInv, DiskInv
  <2>2. ASSUME NEW k, NEW r, IsKept(r, k, data), reports' = SetRow(reports, k, r)
        PROVE  IsKept(reports'[x], x, data')
    <3>1. CASE x = k
      <4>1. reports'[x] = r
        BY <2>2, <3>1 DEF SetRow
      <4> QED  BY <1>1, <2>2, <3>1, <4>1, KeptLater
    <3>2. CASE x # k
      <4>1. x \in DOMAIN reports /\ reports'[x] = reports[x]
        BY <1>3, <2>2, <3>2 DEF SetRow
      <4> QED  BY <2>1, <4>1
    <3> QED  BY <3>1, <3>2
  <2> QED  BY <1>3, <2>1, <2>2 DEF Moves, ReportsMove
<1> QED  BY <1>2, <1>3 DEF DiskInv, Moves, LibraryMoves

-----------------------------------------------------------------------------
(* The steps of a request                                                  *)

\* What a lookup in the run cache or the artifact cache returns.
LEMMA LookupIsKept ==
    ASSUME CacheInv, NEW cache \in {runCache, artifactCache}, NEW k, Holds(cache, k)
    PROVE  IsKept(Lookup(cache, k), k, data)
<1>1. PICK e \in Entries(cache) : e.key = k /\ e.value = Lookup(cache, k)
  BY LookupFinds
<1>2. \A x \in Entries(cache) : IsKept(x.value, x.key, data)
  BY DEF CacheInv, MemoryInv
<1> QED  BY <1>1, <1>2

\* What a lookup in the raw cache returns.
LEMMA RawLookupIsKept ==
    ASSUME CacheInv, NEW k, Holds(rawCache, k)
    PROVE  IsRawKept(Lookup(rawCache, k), k, data)
<1>1. PICK e \in Entries(rawCache) : e.key = k /\ e.value = Lookup(rawCache, k)
  BY LookupFinds
<1> QED  BY <1>1 DEF CacheInv, MemoryInv

LEMMA AskKeeps ==
    ASSUME CacheInv, Grows, NEW t \in Threads, NEW q \in Questions, Ask(t, q)
    PROVE  ThreadInv' /\ AnsweredRunsAreKept'
<1>1. PICK fp \in Coverage :
        op' = [op EXCEPT ![t] = [Blank EXCEPT !.path = q.path, !.config = q.config,
                                              !.fp = fp, !.since = data]]
  BY DEF Ask
<1> DEFINE held == [Blank EXCEPT !.path = q.path, !.config = q.config,
                                 !.fp = fp, !.since = data]
<1>2. /\ q.path \in AllPaths /\ q.config \in Configs /\ data' = data
      /\ fp \in Fingerprints /\ data \in Nat /\ (~Outages => fp = data)
  BY QuestionsAreServed, BoundsAreNat
     DEF Coverage, Fingerprints, CacheInv, MemoryInv, Ask
<1>3. held \in Held
  BY <1>2 DEF Held, Blank
<1>4. /\ held.path = q.path /\ held.config = q.config /\ held.fp = fp
      /\ held.since = data
  BY DEF Blank
<1> HIDE DEF held
<1>5. Ready("memory", held, data', DOMAIN runs', wasSaved')
  BY <1>2, <1>4 DEF Ready, Asked, RawFingerprinted, HasRawFp, Computed, HasRaw, Recorded,
                    Linked
<1>6. pc' = [pc EXCEPT ![t] = "memory"] /\ answer' = [answer EXCEPT ![t] = NoAnswer]
  BY DEF Ask
<1>7. op' = [op EXCEPT ![t] = held]
  BY <1>1 DEF held
<1>8. "memory" \in Labels
  BY DEF Labels
<1> QED  BY <1>3, <1>5, <1>6, <1>7, <1>8, MoveKeeps

\* A producer may start from anywhere a request has been asked.
LEMMA ProduceKeeps ==
    ASSUME CacheInv, Grows, NEW t \in Threads, pc[t] # "idle", Produce(t)
    PROVE  ThreadInv' /\ AnsweredRunsAreKept'
<1> DEFINE label == IF UsesBacktest(op[t].path) THEN "raw_fingerprint" ELSE "load"
<1>1. op[t] \in Held /\ Ready(pc[t], op[t], data', DOMAIN runs', wasSaved')
  BY ThreadHolds, OthersStayReady
<1>2. Ready(label, op[t], data', DOMAIN runs', wasSaved')
  BY <1>1 DEF Ready, Asked, RawFingerprinted, HasRawFp, Computed, HasRaw, Recorded, Linked
<1>3. label \in Labels /\ Goto(t, label, op[t])
  BY DEF Labels, Produce
<1> QED  BY <1>1, <1>2, <1>3, GotoKeeps

LEMMA LookKeeps ==
    ASSUME CacheInv, Grows, NEW t \in Threads, LookInMemory(t) \/ LookOnDisk(t)
    PROVE  ThreadInv' /\ AnsweredRunsAreKept'
<1>1. op[t] \in Held /\ Ready(pc[t], op[t], data', DOMAIN runs', wasSaved')
  BY ThreadHolds, OthersStayReady
<1>2. pc[t] \in {"memory", "disk"}
  BY DEF LookInMemory, LookOnDisk
<1>3. ASSUME NEW r, IsKept(r, Key(t), data), Respond(t, r, TRUE)
      PROVE  ThreadInv' /\ AnsweredRunsAreKept'
  <2>1. r \in Results
    BY <1>3, IsEntry
  <2> QED  BY <1>2, <1>3, <2>1, RespondKeeps
<1>4. CASE LookInMemory(t)
  <2> DEFINE cache == IF IsArtifact(t) THEN artifactCache ELSE runCache
  <2>1. CASE Holds(cache, Key(t)) /\ Respond(t, Lookup(cache, Key(t)), TRUE)
    <3>1. IsKept(Lookup(cache, Key(t)), Key(t), data)
      BY <2>1, LookupIsKept
    <3> QED  BY <1>3, <2>1, <3>1
  <2>2. CASE Goto(t, "disk", op[t])
    <3>1. Ready("disk", op[t], data', DOMAIN runs', wasSaved')
      BY <1>1, <1>2
         DEF Ready, Asked, RawFingerprinted, HasRawFp, Computed, HasRaw, Recorded, Linked
    <3> QED  BY <1>1, <2>2, <3>1, GotoKeeps DEF Labels
  <2>3. CASE Produce(t)
    BY <1>2, <2>3, ProduceKeeps
  <2> QED  BY <1>4, <2>1, <2>2, <2>3 DEF LookInMemory
<1>5. CASE LookOnDisk(t)
  <2>1. CASE Key(t) \in DOMAIN reports /\ Respond(t, reports[Key(t)], TRUE)
    <3>1. IsKept(reports[Key(t)], Key(t), data)
      BY <2>1 DEF CacheInv, DiskInv
    <3> QED  BY <1>3, <2>1, <3>1
  <2>2. ASSUME Key(t) \in DOMAIN runs,
               Goto(t, "fill", [op[t] EXCEPT !.raw = runs[Key(t)].payload.raw])
        PROVE  ThreadInv' /\ AnsweredRunsAreKept'
    <3> DEFINE r == runs[Key(t)].payload
               held == [op[t] EXCEPT !.raw = r.raw]
    <3>1. IsKept(r, Key(t), data)
      BY <2>2 DEF CacheInv, DiskInv
    <3>2. /\ r \in Results /\ r.path = op[t].path /\ RightlyRun(r)
          /\ op[t].config = [tree |-> r.raw.tree, settings |-> r.settings]
          /\ r.raw.version <= data /\ (~Outages => IsNew(r.raw.version, op[t].fp))
      BY <3>1 DEF IsKept, Key, CacheKey
    <3> HIDE DEF r
    <3>3. /\ held \in Held /\ held.raw = r.raw /\ held.path = op[t].path
          /\ held.config = op[t].config /\ held.fp = op[t].fp /\ held.since = op[t].since
      BY <1>1, <3>2 DEF Held, Results
    <3>4. Asked("fill", held, data')
      BY <1>1, <1>2, <3>3 DEF Ready, Asked
    <3>5. Computed("fill", held, data')
      <4>1. r.raw \in Raws /\ r.raw.tree = held.config.tree /\ r.settings = held.config.settings
        BY <3>2, <3>3 DEF Results
      <4>2. r.raw.series = WantsSeries(held.path)
        BY <3>2, <3>3 DEF RightlyRun
      <4>3. r.raw.expanding = WantsExpanding(held.path, held.config)
        BY <3>2, <3>3 DEF RightlyRun
      <4>4. r.raw.version <= data'
        <5>1. r.raw.version \in Nat /\ data \in Nat /\ data' \in Nat /\ data <= data'
          BY <4>1, BoundsAreNat DEF Raws, Grows, CacheInv, MemoryInv
        <5> QED  BY <3>2, <5>1
      <4>5. ~Outages => r.raw.version >= held.fp
        <5>1. ~Outages => held.fp \in Nat
          BY <3>3, <3>4 DEF Asked, Held
        <5> QED  BY <3>2, <3>3, <5>1, UnavailableIsNoVersion DEF IsNew
      <4> HIDE DEF held
      <4> QED  BY <3>3, <4>1, <4>2, <4>3, <4>4, <4>5 DEF Computed
    <3> HIDE DEF held
    <3>6. Ready("fill", held, data', DOMAIN runs', wasSaved')
      BY <3>4, <3>5 DEF Ready, RawFingerprinted, HasRawFp, Recorded, Linked
    <3>7. Goto(t, "fill", held) /\ "fill" \in Labels
      BY <2>2 DEF held, r, Labels
    <3> QED  BY <3>3, <3>6, <3>7, GotoKeeps
  <2>3. CASE Produce(t)
    BY <1>2, <2>3, ProduceKeeps
  <2> QED  BY <1>5, <2>1, <2>2, <2>3 DEF LookOnDisk
<1> QED  BY <1>4, <1>5

LEMMA ProducerKeeps ==
    ASSUME CacheInv, Grows, NEW t \in Threads,
           ReadRawFingerprint(t) \/ LookUpRaw(t) \/ LoadAndCompute(t) \/ StoreRaw(t)
    PROVE  ThreadInv' /\ AnsweredRunsAreKept'
<1> DEFINE o == op[t]
<1>1. /\ o \in Held /\ Ready(pc[t], o, data', DOMAIN runs', wasSaved')
      /\ Ready(pc[t], o, data, DOMAIN runs, wasSaved)
  BY ThreadHolds, OthersStayReady
<1>2. /\ pc[t] \in {"raw_fingerprint", "raw_lookup", "load", "raw_store"}
      /\ data' = data /\ data \in Nat /\ data \in 0..MaxData
  BY BoundsAreNat
     DEF ReadRawFingerprint, LookUpRaw, LoadAndCompute, StoreRaw, CacheInv, MemoryInv
<1>3. /\ o.path \in AllPaths /\ o.config \in Configs /\ o.fp \in Fingerprints
      /\ o.since \in Nat /\ o.since <= data /\ (~Outages => o.fp = o.since)
  BY <1>1, <1>2 DEF Ready, Asked, Held
<1>4. CASE ReadRawFingerprint(t)
  <2>1. PICK fp \in Coverage : Goto(t, "raw_lookup", [o EXCEPT !.rawFp = fp])
    BY <1>4 DEF ReadRawFingerprint
  <2> DEFINE held == [o EXCEPT !.rawFp = fp]
  <2>2. fp \in Fingerprints /\ (~Outages => fp = data)
    BY <1>2 DEF Coverage, Fingerprints
  <2>3. /\ held \in Held /\ held.rawFp = fp /\ held.path = o.path
        /\ held.config = o.config /\ held.fp = o.fp /\ held.since = o.since
    BY <1>1, <2>2 DEF Held
  <2>4. UsesBacktest(o.path)
    BY <1>1, <1>4 DEF ReadRawFingerprint, Ready, RawFingerprinted
  <2>5. Goto(t, "raw_lookup", held) /\ "raw_lookup" \in Labels
    BY <2>1 DEF Labels
  <2> HIDE DEF held
  <2>6. Asked("raw_lookup", held, data')
    BY <1>2, <1>3, <2>3 DEF Asked
  <2>7. RawFingerprinted("raw_lookup", held, data')
    <3>1. ~Outages => held.rawFp \in held.fp..data'
      BY <1>2, <1>3, <2>2, <2>3
    <3> QED  BY <2>2, <2>3, <2>4, <3>1 DEF RawFingerprinted
  <2>8. Ready("raw_lookup", held, data', DOMAIN runs', wasSaved')
    BY <2>6, <2>7 DEF Ready, Computed, HasRaw, Recorded, Linked
  <2> QED  BY <2>3, <2>5, <2>8, GotoKeeps
<1>5. CASE LookUpRaw(t)
  <2>1. RawFingerprinted("raw_lookup", o, data)
    BY <1>1, <1>5 DEF LookUpRaw, Ready
  <2>2. CASE Goto(t, "load", o)
    <3>1. Ready("load", o, data', DOMAIN runs', wasSaved')
      BY <1>1, <1>2, <1>3, <2>1
         DEF Ready, Asked, RawFingerprinted, HasRawFp, Computed, HasRaw, Recorded, Linked
    <3> QED  BY <1>1, <2>2, <3>1, GotoKeeps DEF Labels
  <2>3. ASSUME Holds(rawCache, RawKeyOf(t)),
               Goto(t, "store", [o EXCEPT !.raw = Lookup(rawCache, RawKeyOf(t))])
        PROVE  ThreadInv' /\ AnsweredRunsAreKept'
    <3> DEFINE v == Lookup(rawCache, RawKeyOf(t))
               held == [o EXCEPT !.raw = v]
    <3>1. IsRawKept(v, RawKeyOf(t), data)
      BY <2>3, RawLookupIsKept
    <3>2. /\ v \in Raws /\ v.tree = o.config.tree /\ v.series = WantsSeries(o.path)
          /\ v.expanding = WantsExpanding(o.path, o.config) /\ v.version <= data
          /\ (~Outages => IsNew(v.version, o.rawFp))
      BY <3>1 DEF IsRawKept, RawKeyOf, RawKey
    <3> HIDE DEF v
    <3>3. /\ held \in Held /\ held.raw = v /\ held.path = o.path
          /\ held.config = o.config /\ held.fp = o.fp /\ held.since = o.since
      BY <1>1, <3>2 DEF Held
    <3>4. ~Outages => v.version >= o.fp
      <4>1. ~Outages => o.rawFp \in o.fp..data
        BY <2>1 DEF RawFingerprinted, HasRawFp
      <4>2. v.version \in Nat
        BY <3>2, BoundsAreNat DEF Raws
      <4> QED  BY <1>2, <1>3, <3>2, <4>1, <4>2, UnavailableIsNoVersion DEF IsNew
    <3>5. Goto(t, "store", held) /\ "store" \in Labels
      BY <2>3 DEF v, Labels
    <3> HIDE DEF held
    <3>6. Asked("store", held, data') /\ Computed("store", held, data')
      BY <1>2, <1>3, <3>2, <3>3, <3>4 DEF Asked, Computed
    <3>7. Ready("store", held, data', DOMAIN runs', wasSaved')
      BY <3>6 DEF Ready, RawFingerprinted, HasRawFp, Recorded, Linked
    <3> QED  BY <3>3, <3>5, <3>7, GotoKeeps
  <2> QED  BY <1>5, <2>2, <2>3 DEF LookUpRaw
<1>6. CASE LoadAndCompute(t)
  <2> DEFINE v == [tree |-> o.config.tree, series |-> WantsSeries(o.path),
                   expanding |-> WantsExpanding(o.path, o.config), version |-> data]
             held == [o EXCEPT !.raw = v]
             label == IF UsesBacktest(o.path) THEN "raw_store" ELSE "store"
  <2>1. /\ v \in Raws /\ v.tree = o.config.tree /\ v.series = WantsSeries(o.path)
        /\ v.expanding = WantsExpanding(o.path, o.config) /\ v.version = data
    BY <1>2, <1>3 DEF Raws, Configs, WantsSeries, WantsExpanding
  <2>2. Goto(t, label, held) /\ label \in Labels
    BY <1>6 DEF LoadAndCompute, Labels
  <2> HIDE DEF v
  <2>3. /\ held \in Held /\ held.raw = v /\ held.path = o.path /\ held.rawFp = o.rawFp
        /\ held.config = o.config /\ held.fp = o.fp /\ held.since = o.since
    BY <1>1, <2>1 DEF Held
  <2>4. UsesBacktest(o.path) =>
          o.rawFp \in Fingerprints /\ (~Outages => o.rawFp \in o.fp..data)
    BY <1>1, <1>6 DEF LoadAndCompute, Ready, RawFingerprinted, HasRawFp
  <2> HIDE DEF held
  <2>5. Asked(label, held, data')
    BY <1>2, <1>3, <2>3 DEF Asked
  <2>6. RawFingerprinted(label, held, data')
    <3>1. UsesBacktest(o.path) /\ ~Outages => v.version >= o.rawFp
      BY <1>2, <1>3, <2>1, <2>4
    <3> QED  BY <1>2, <2>3, <2>4, <3>1 DEF RawFingerprinted, HasRawFp
  <2>7. Computed(label, held, data')
    <3>1. ~Outages => v.version >= o.fp
      BY <1>2, <1>3, <2>1
    <3> QED  BY <1>2, <2>1, <2>3, <3>1 DEF Computed
  <2>8. Ready(label, held, data', DOMAIN runs', wasSaved')
    BY <2>5, <2>6, <2>7 DEF Ready, Recorded, Linked
  <2> QED  BY <2>2, <2>3, <2>8, GotoKeeps
<1>7. CASE StoreRaw(t)
  <2>1. Ready("store", o, data', DOMAIN runs', wasSaved')
    BY <1>1, <1>7 DEF StoreRaw, Ready, Asked, RawFingerprinted, HasRawFp, Computed, HasRaw,
                      Recorded, Linked
  <2>2. Goto(t, "store", o) /\ "store" \in Labels
    BY <1>7 DEF StoreRaw, Labels
  <2> QED  BY <1>1, <2>1, <2>2, GotoKeeps
<1> QED  BY <1>4, <1>5, <1>6, <1>7

LEMMA StoreKeeps ==
    ASSUME CacheInv, Grows, NEW t \in Threads,
           FillFromDisk(t) \/ StoreProduct(t) \/ LinkToTree(t)
    PROVE  ThreadInv' /\ AnsweredRunsAreKept'
<1> DEFINE o == op[t]
<1>1. o \in Held /\ Ready(pc[t], o, data', DOMAIN runs', wasSaved')
  BY ThreadHolds, OthersStayReady
<1>2. pc[t] \in {"fill", "store", "link"}
  BY DEF FillFromDisk, StoreProduct, LinkToTree
<1>3. Product(t) \in Results
  BY <1>2, ThreadProduct DEF HasRaw
<1>4. CASE FillFromDisk(t)
  BY <1>2, <1>3, <1>4, RespondKeeps DEF FillFromDisk
<1>5. CASE StoreProduct(t)
  <2>1. CASE o.path = "audit" /\ Respond(t, Product(t), FALSE)
    BY <1>2, <1>3, <2>1, RespondKeeps
  <2>2. CASE Goto(t, "link", o)
    <3>1. Ready("link", o, data', DOMAIN runs', wasSaved')
      BY <1>1, <1>5 DEF StoreProduct, Ready, Asked, RawFingerprinted, HasRawFp, Computed,
                        HasRaw, Recorded, Linked
    <3> QED  BY <1>1, <2>2, <3>1, GotoKeeps DEF Labels
  <2> QED  BY <1>5, <2>1, <2>2 DEF StoreProduct
<1>6. CASE LinkToTree(t)
  <2> DEFINE held == [o EXCEPT !.link = IsSavedTree(t)]
  <2>1. IsSavedTree(t) \in BOOLEAN
    BY DEF IsSavedTree
  <2>2. /\ held \in Held /\ held.link = IsSavedTree(t) /\ held.path = o.path
        /\ held.config = o.config /\ held.fp = o.fp /\ held.since = o.since
        /\ held.raw = o.raw
    BY <1>1, <2>1 DEF Held
  <2>3. o.config \in Configs
    BY <1>1, <1>2 DEF Ready, Asked
  <2>4. IsSavedTree(t) => o.config \in wasSaved'
    <3>1. saved \in wasSaved \cup {None} /\ wasSaved \subseteq wasSaved'
      BY DEF CacheInv, DiskInv, Grows
    <3> QED  BY <2>3, <3>1, NoneIsNoValue DEF IsSavedTree
  <2>5. Goto(t, "record", held) /\ "record" \in Labels
    BY <1>6 DEF LinkToTree, Labels
  <2> HIDE DEF held
  <2>6. Asked("record", held, data') /\ Computed("record", held, data')
    BY <1>1, <1>2, <2>2 DEF Ready, Asked, Computed, HasRaw
  <2>7. Ready("record", held, data', DOMAIN runs', wasSaved')
    BY <2>2, <2>4, <2>6 DEF Ready, RawFingerprinted, HasRawFp, Recorded, Linked
  <2> QED  BY <2>2, <2>5, <2>7, GotoKeeps
<1> QED  BY <1>4, <1>5, <1>6

LEMMA RecordKeeps ==
    ASSUME CacheInv, Grows, NEW t \in Threads, RecordRun(t) \/ AttachReport(t)
    PROVE  ThreadInv' /\ AnsweredRunsAreKept'
<1> DEFINE o == op[t]
<1>1. o \in Held /\ Ready(pc[t], o, data', DOMAIN runs', wasSaved')
  BY ThreadHolds, OthersStayReady
<1>2. pc[t] \in {"record", "attach"}
  BY DEF RecordRun, AttachReport
<1>3. Product(t) \in Results
  BY <1>2, ThreadProduct DEF HasRaw
<1>4. CASE RecordRun(t)
  <2>1. Key(t) \in DOMAIN runs'
    BY <1>4 DEF RecordRun, WithRun, SetRow
  <2>2. CASE o.path = "report" /\ Goto(t, "attach", o)
    <3>1. Ready("attach", o, data', DOMAIN runs', wasSaved')
      BY <1>1, <1>2, <2>1, <2>2
         DEF Ready, Asked, RawFingerprinted, HasRawFp, Computed, HasRaw, Recorded, Linked, Key
    <3> QED  BY <1>1, <2>2, <3>1, GotoKeeps DEF Labels
  <2>3. CASE o.path # "report" /\ Respond(t, Product(t), FALSE)
    BY <1>2, <1>3, <2>1, <2>3, RespondKeeps
  <2> QED  BY <1>4, <2>2, <2>3 DEF RecordRun
<1>5. CASE AttachReport(t)
  <2>1. Key(t) \in DOMAIN runs'
    BY <1>1, <1>5 DEF AttachReport, Ready, Recorded, Key
  <2>2. Key(t) \in DOMAIN reports'
    BY <1>5 DEF AttachReport, SetRow
  <2>3. Respond(t, Product(t), FALSE)
    BY <1>5 DEF AttachReport
  <2> QED  BY <1>2, <1>3, <2>1, <2>2, <2>3, RespondKeeps
<1> QED  BY <1>4, <1>5

LEMMA FailKeeps ==
    ASSUME CacheInv, Grows, NEW t \in Threads, Fail(t)
    PROVE  ThreadInv' /\ AnsweredRunsAreKept'
<1>1. /\ pc' = [pc EXCEPT ![t] = "idle"] /\ op' = [op EXCEPT ![t] = Blank]
      /\ answer' = answer
  BY DEF Fail
<1>2. ThreadInv'
  BY <1>1, EndKeeps DEF CacheInv, ThreadInv
<1> QED  BY <1>1, <1>2 DEF CacheInv, AnsweredRunsAreKept, Grows

LEMMA OutsideKeeps ==
    ASSUME CacheInv, Grows,
           \/ ClearCaches \/ DeleteModel \/ DataChanges \/ Restart
           \/ \E config \in Configs : SaveModel(config)
           \/ UNCHANGED vars
    PROVE  ThreadInv' /\ AnsweredRunsAreKept'
<1>1. answer' = answer
  BY DEF vars, thread, ClearCaches, DeleteModel, DataChanges, Restart, SaveModel
<1>2. CASE Restart
  <2>1. pc' = [t \in Threads |-> "idle"] /\ op' = [t \in Threads |-> Blank]
    BY <1>2 DEF Restart
  <2>2. /\ pc' \in [Threads -> Labels] /\ op' \in [Threads -> Held]
        /\ answer' \in [Threads -> Said]
    BY <1>1, <2>1, Blanks DEF CacheInv, ThreadInv, Labels
  <2>3. \A t \in Threads : Ready(pc'[t], op'[t], data', DOMAIN runs', wasSaved')
    BY <2>1, IdleIsReady
  <2> QED  BY <1>1, <2>2, <2>3 DEF ThreadInv, CacheInv, AnsweredRunsAreKept, Grows
<1>3. CASE UNCHANGED <<pc, op>>
  <2>1. ThreadInv'
    BY <1>1, <1>3, OthersStayReady DEF ThreadInv, CacheInv
  <2> QED  BY <1>1, <2>1 DEF CacheInv, AnsweredRunsAreKept, Grows
<1> QED  BY <1>2, <1>3 DEF vars, thread, ClearCaches, DeleteModel, DataChanges, SaveModel

LEMMA CacheStep ==
    ASSUME CacheInv, [Next]_vars
    PROVE  CacheInv'
<1>1. Moves /\ Grows
  BY StepMoves, MovesGrow
<1>2. ThreadInv' /\ AnsweredRunsAreKept'
  BY <1>1, AskKeeps, LookKeeps, ProducerKeeps, StoreKeeps, RecordKeeps, FailKeeps,
     OutsideKeeps DEF Next, Serve
<1> QED  BY <1>1, <1>2, MemoryKept, DiskKept DEF CacheInv

\* The invariant of the caches, the tables and the requests, whether or not the hub
\* can be read (project/tree_studio.py, v2/run_history.py).
THEOREM CachesStaySound == Spec => []CacheInv
BY CacheInit, CacheStep, PTL DEF Spec

-----------------------------------------------------------------------------
(* What follows for every behaviour                                        *)

LEMMA InvTyped == CacheInv => TypeOK
<1> SUFFICES ASSUME CacheInv PROVE TypeOK
  OBVIOUS
<1>1. data \in 0..MaxData
  BY DEF CacheInv, MemoryInv
<1>2. \A e \in Entries(runCache) \cup Entries(artifactCache) :
        e.key \in Keys /\ e.value \in Results
  BY IsEntry DEF CacheInv, MemoryInv
<1>3. \A e \in Entries(rawCache) : e.key \in RawKeys /\ e.value \in Raws
  BY IsEntry DEF CacheInv, MemoryInv
<1>4. DOMAIN runs \subseteq Keys /\ \A k \in DOMAIN runs : runs[k] \in Rows
  BY IsEntry DEF CacheInv, DiskInv
<1>5. DOMAIN reports \subseteq Keys /\ \A k \in DOMAIN reports : reports[k] \in Results
  BY IsEntry DEF CacheInv, DiskInv
<1>6. saved \in Configs \cup {None} /\ wasSaved \subseteq Configs
  BY DEF CacheInv, DiskInv
<1>7. pc \in [Threads -> Labels]
  BY DEF CacheInv, ThreadInv
<1>8. ASSUME NEW t \in Threads
      PROVE  /\ op[t].path \in AllPaths \cup {None} /\ op[t].config \in Configs \cup {None}
             /\ op[t].fp \in Fingerprints \cup {None} /\ op[t].raw \in Raws \cup {None}
             /\ answer[t].result \in Results \cup {None}
  <2>1. op[t] \in Held /\ answer[t] \in Said
    BY DEF CacheInv, ThreadInv
  <2> QED  BY <2>1 DEF Held, Said
<1> QED  BY <1>1, <1>2, <1>3, <1>4, <1>5, <1>6, <1>7, <1>8 DEF TypeOK

\* Every cache, table and request has its type (project/tree_studio.py).
THEOREM CachesTypeCorrect == Spec => []TypeOK
BY CachesStaySound, InvTyped, PTL

\* Outages of the hub or not, nothing is ever kept under a key of another tree,
\* other settings, another endpoint or another way of running the backtest, and
\* nothing comes from data that the hub has not had.
AnswersItsKey(r, k) ==
    /\ r.path = k.path /\ k.config = [tree |-> r.raw.tree, settings |-> r.settings]
    /\ RightlyRun(r) /\ r.raw.version <= data
EntriesAnswerTheirKeys ==
    /\ \A e \in Entries(runCache) \cup Entries(artifactCache) : AnswersItsKey(e.value, e.key)
    /\ \A k \in DOMAIN runs : AnswersItsKey(runs[k].payload, k)
    /\ \A k \in DOMAIN reports : AnswersItsKey(reports[k], k)
    /\ \A e \in Entries(rawCache) :
         /\ e.key = RawKey(e.value.tree, e.value.series, e.value.expanding, e.key.fp)
         /\ e.value.version <= data

\* What is kept is kept under its own key, even while the hub's coverage cannot be
\* read (_cache_key, _raw_backtest_key).
THEOREM KeysAreNeverMixed == Spec => []EntriesAnswerTheirKeys
<1>1. CacheInv => EntriesAnswerTheirKeys
  BY DEF CacheInv, MemoryInv, DiskInv, IsKept, IsRawKept, EntriesAnswerTheirKeys, AnswersItsKey
<1> QED  BY <1>1, CachesStaySound, PTL

\* If the hub can always be read, no cache or table holds a result older than its
\* key's fingerprint, whatever refreshes, restarts and other requests come between
\* the fingerprint and the store (_run_full_backtest, do_POST).
THEOREM EntriesStayTrue ==
    ASSUME ~Outages
    PROVE  Spec => []EntriesAreTrue
<1>1. CacheInv => EntriesAreTrue
  BY DEF CacheInv, MemoryInv, DiskInv, IsKept, IsRawKept, EntriesAreTrue, IsFor
<1> QED  BY <1>1, CachesStaySound, PTL

\* A run computed and answered is found on disk ever after (record_run,
\* attach_artifact: both before the answer).
THEOREM AnswersAreOnDisk == Spec => []AnsweredRunsAreKept
<1>1. CacheInv => AnsweredRunsAreKept
  BY DEF CacheInv
<1> QED  BY <1>1, CachesStaySound, PTL

\* A run is linked to a tree only if its configuration was saved as one
\* (_tree_id_for_config).
THEOREM LinksStayTrue == Spec => []LinksAreTrue
<1>1. CacheInv => LinksAreTrue
  BY DEF CacheInv, DiskInv, LinksAreTrue
<1> QED  BY <1>1, CachesStaySound, PTL

\* The three caches keep to their limits, and the run cache and the raw cache drop
\* an entry only for a key they lack when they are full (do_POST,
\* _run_full_backtest).
THEOREM EvictionIsForRoom == Spec => EvictsOnlyForRoom
<1>1. CacheInv /\ [Next]_vars =>
        [/\ GivesWayTo(runCache, runCache', RunLimit)
         /\ GivesWayTo(rawCache, rawCache', RawLimit)
         /\ Len(artifactCache') <= ArtifactLimit]_vars
  BY StepMoves, RunCacheKept, RawCacheKept, ArtifactCacheKept
<1> QED  BY <1>1, CachesStaySound, PTL DEF Spec, EvictsOnlyForRoom

-----------------------------------------------------------------------------
(* Refinement of ResultService                                             *)

\* What a client waits for, and what it was told.
Waits(p, o) ==
    IF p = "idle" THEN None
    ELSE [question |-> [path |-> o.path, config |-> o.config], since |-> o.since]
Heard(a) ==
    IF a.result = None THEN None
    ELSE [question |-> Question(a.result), version |-> a.result.raw.version]
asked == [t \in Threads |-> Waits(pc[t], op[t])]
told == [t \in Threads |-> Heard(answer[t])]

LEMMA ServiceState ==
    /\ asked = [t \in Threads |->
                  IF pc[t] = "idle" THEN None
                  ELSE [question |-> [path |-> op[t].path, config |-> op[t].config],
                        since |-> op[t].since]]
    /\ told = [t \in Threads |->
                 IF answer[t].result = None THEN None
                 ELSE [question |-> Question(answer[t].result),
                       version |-> answer[t].result.raw.version]]
BY DEF asked, told, Waits, Heard

LEMMA ServiceNext ==
    /\ asked' = [t \in Threads |->
                   IF pc'[t] = "idle" THEN None
                   ELSE [question |-> [path |-> op'[t].path, config |-> op'[t].config],
                         since |-> op'[t].since]]
    /\ told' = [t \in Threads |->
                  IF answer'[t].result = None THEN None
                  ELSE [question |-> Question(answer'[t].result),
                        version |-> answer'[t].result.raw.version]]
BY DEF asked, told, Waits, Heard

LEMMA ServiceInit == Init => Service!Init
<1> SUFFICES ASSUME Init PROVE Service!Init
  OBVIOUS
<1>1. asked = [t \in Threads |-> None]
  BY DEF Init, asked, Waits
<1>2. told = [t \in Threads |-> None]
  BY DEF Init, told, Heard, NoAnswer
<1> QED  BY <1>1, <1>2, ServiceState DEF Init, Service!Init

\* One thread's view changes with its own step only.
LEMMA OneAsks ==
    ASSUME CacheInv, NEW t \in Threads, NEW p, NEW o,
           pc' = [pc EXCEPT ![t] = p], op' = [op EXCEPT ![t] = o]
    PROVE  asked' = [asked EXCEPT ![t] = Waits(p, o)]
<1>1. \A u \in Threads : u # t => pc'[u] = pc[u] /\ op'[u] = op[u]
  BY DEF CacheInv, ThreadInv
<1>2. pc'[t] = p /\ op'[t] = o
  BY DEF CacheInv, ThreadInv
<1>3. asked' = [u \in Threads |-> Waits(pc'[u], op'[u])]
  BY DEF asked
<1>4. \A u \in Threads : Waits(pc'[u], op'[u]) = IF u = t THEN Waits(p, o) ELSE asked[u]
  <2> SUFFICES ASSUME NEW u \in Threads
               PROVE  Waits(pc'[u], op'[u]) = IF u = t THEN Waits(p, o) ELSE asked[u]
    OBVIOUS
  <2>1. CASE u = t
    BY <1>2, <2>1
  <2>2. CASE u # t
    BY <1>1, <2>2 DEF asked
  <2> QED  BY <2>1, <2>2
<1> QED  BY <1>3, <1>4 DEF asked

LEMMA OneHears ==
    ASSUME CacheInv, NEW t \in Threads, NEW a, answer' = [answer EXCEPT ![t] = a]
    PROVE  told' = [told EXCEPT ![t] = Heard(a)]
<1>1. told' = [u \in Threads |-> Heard(answer'[u])]
  BY DEF told
<1>2. \A u \in Threads : Heard(answer'[u]) = IF u = t THEN Heard(a) ELSE told[u]
  <2> SUFFICES ASSUME NEW u \in Threads
               PROVE  Heard(answer'[u]) = IF u = t THEN Heard(a) ELSE told[u]
    OBVIOUS
  <2>1. CASE u = t
    <3>1. answer'[u] = a
      BY <2>1 DEF CacheInv, ThreadInv
    <3> QED  BY <2>1, <3>1
  <2>2. CASE u # t
    <3>1. answer'[u] = answer[u]
      BY <2>2 DEF CacheInv, ThreadInv
    <3> QED  BY <2>2, <3>1 DEF told
  <2> QED  BY <2>1, <2>2
<1> QED  BY <1>1, <1>2 DEF told

\* A request that moves on between two labels is not seen.
LEMMA GotoIsSilent ==
    ASSUME CacheInv, NEW t \in Threads, NEW label, NEW held, Goto(t, label, held),
           pc[t] # "idle", label # "idle", held.path = op[t].path,
           held.config = op[t].config, held.since = op[t].since
    PROVE  asked' = asked /\ told' = told
<1>1. asked' = [asked EXCEPT ![t] = Waits(label, held)]
  BY OneAsks DEF Goto
<1>2. Waits(label, held) = Waits(pc[t], op[t])
  BY DEF Waits
<1>3. asked[t] = Waits(pc[t], op[t])
  BY DEF asked
<1>4. asked' = asked
  BY <1>1, <1>2, <1>3 DEF asked
<1> QED  BY <1>4 DEF Goto, told

\* An answer is an answer of the service: to the question asked, from data at least
\* as new as when it was asked.
LEMMA RespondTells ==
    ASSUME ~Outages, CacheInv, NEW t \in Threads, pc[t] # "idle", NEW r, NEW cached,
           IsKept(r, Key(t), data), Respond(t, r, cached), data' = data
    PROVE  Service!Tell(t)
<1> DEFINE o == op[t]
           q == [path |-> o.path, config |-> o.config]
           said == [path |-> o.path, config |-> o.config, fp |-> o.fp,
                    result |-> r, since |-> o.since, cached |-> cached]
<1>1. /\ o.path \in AllPaths /\ o.config \in Configs /\ o.since \in Nat
      /\ o.fp = o.since /\ data \in Nat
  BY ThreadHolds, BoundsAreNat DEF Ready, Asked, Held, CacheInv, MemoryInv
<1>2. /\ r \in Results /\ r.path = o.path /\ RightlyRun(r)
      /\ o.config = [tree |-> r.raw.tree, settings |-> r.settings]
      /\ r.raw.version <= data /\ IsNew(r.raw.version, o.fp)
  BY DEF IsKept, Key, CacheKey
<1>3. r.raw.version \in o.since..data
  <2>1. r.raw.version \in Nat
    BY <1>2, BoundsAreNat DEF Results, Raws
  <2> QED  BY <1>1, <1>2, <2>1, UnavailableIsNoVersion DEF IsNew
<1>4. Heard(said) = [question |-> q, version |-> r.raw.version]
  <2>1. said.result = r /\ r # None
    BY <1>2, NoneIsNoValue
  <2>2. Question(r) = q
    BY <1>2 DEF Question
  <2> QED  BY <2>1, <2>2 DEF Heard
<1>5. asked[t] = [question |-> q, since |-> o.since]
  BY DEF asked, Waits
<1>6. asked[t] # None
  <2>1. asked[t] \in [question : [path : AllPaths, config : Configs], since : Nat]
    BY <1>1, <1>5
  <2> QED  BY <2>1, NoneIsNoValue
<1>7. told' = [told EXCEPT ![t] = Heard(said)]
  BY OneHears DEF Respond
<1>8. asked' = [asked EXCEPT ![t] = None]
  BY OneAsks DEF Respond, Waits
<1> HIDE DEF said
<1>9. /\ asked[t] # None
      /\ \E version \in asked[t].since..data :
           told' = [told EXCEPT ![t] = [question |-> asked[t].question, version |-> version]]
      /\ asked' = [asked EXCEPT ![t] = None]
  <2> HIDE DEF q
  <2>1. asked[t].question = q /\ asked[t].since = o.since
    BY <1>5
  <2>2. told' = [told EXCEPT ![t] = [question |-> asked[t].question,
                                    version |-> r.raw.version]]
    BY <1>4, <1>7, <2>1
  <2>3. r.raw.version \in asked[t].since..data
    BY <1>3, <2>1
  <2> QED  BY <1>6, <1>8, <2>2, <2>3
<1> QED  BY <1>9, ServiceState, ServiceNext DEF Service!Tell

\* A step that the client does not see.
Silent == asked' = asked /\ told' = told /\ data' = data

LEMMA SilentIsStutter ==
    ASSUME Silent
    PROVE  [Service!Next]_(Service!vars)
BY ServiceState, ServiceNext DEF Silent, Service!vars

LEMMA AskAsks ==
    ASSUME CacheInv, NEW t \in Threads, NEW q \in Questions, Ask(t, q)
    PROVE  Service!Ask(t, q)
<1>1. PICK fp \in Coverage :
        op' = [op EXCEPT ![t] = [Blank EXCEPT !.path = q.path, !.config = q.config,
                                              !.fp = fp, !.since = data]]
  BY DEF Ask
<1> DEFINE held == [Blank EXCEPT !.path = q.path, !.config = q.config,
                                 !.fp = fp, !.since = data]
<1>2. held.path = q.path /\ held.config = q.config /\ held.since = data
  BY DEF Blank
<1>3. q = [path |-> q.path, config |-> q.config]
  BY QuestionsAreServed
<1>4. op' = [op EXCEPT ![t] = held] /\ pc' = [pc EXCEPT ![t] = "memory"]
  BY <1>1 DEF Ask
<1> HIDE DEF held
<1>5. asked' = [asked EXCEPT ![t] = Waits("memory", held)]
  BY <1>4, OneAsks
<1>6. Waits("memory", held) = [question |-> q, since |-> data]
  BY <1>2, <1>3 DEF Waits
<1>7. told' = [told EXCEPT ![t] = Heard(NoAnswer)] /\ Heard(NoAnswer) = None
  BY OneHears DEF Ask, Heard, NoAnswer
<1>8. asked[t] = None /\ data' = data
  BY DEF asked, Waits, Ask
<1>9. /\ asked[t] = None /\ asked' = [asked EXCEPT ![t] = [question |-> q, since |-> data]]
      /\ told' = [told EXCEPT ![t] = None] /\ data' = data
  BY <1>5, <1>6, <1>7, <1>8
<1> QED  BY <1>9, ServiceState, ServiceNext DEF Service!Ask

\* A step of a request, other than its first: it goes on unseen, is answered or fails.
LEMMA RequestServes ==
    ASSUME ~Outages, CacheInv, NEW t \in Threads, Serve(t),
           ~ \E q \in Questions : Ask(t, q)
    PROVE  Silent \/ Service!Tell(t) \/ Service!Fail({t})
<1> DEFINE o == op[t]
<1>1. data' = data /\ pc[t] # "idle"
  BY DEF Serve, LookInMemory, LookOnDisk, FillFromDisk, ReadRawFingerprint, LookUpRaw,
         LoadAndCompute, StoreRaw, StoreProduct, LinkToTree, RecordRun, AttachReport, Fail
<1>2. ASSUME NEW label \in Labels \ {"idle"}, Goto(t, label, o) PROVE Silent
  BY <1>1, <1>2, GotoIsSilent DEF Silent
<1>3. ASSUME NEW label \in Labels \ {"idle"}, NEW held, Goto(t, label, held),
             held.path = o.path, held.config = o.config, held.since = o.since
      PROVE  Silent
  BY <1>1, <1>3, GotoIsSilent DEF Silent
<1>4. ASSUME NEW r, NEW cached, IsKept(r, Key(t), data), Respond(t, r, cached)
      PROVE  Service!Tell(t)
  BY <1>1, <1>4, RespondTells
<1>5. CASE Produce(t)
  BY <1>2, <1>5 DEF Produce, Labels
<1>6. op[t] \in Held
  BY ThreadHolds
<1>7. CASE LookInMemory(t)
  <2> DEFINE cache == IF IsArtifact(t) THEN artifactCache ELSE runCache
  <2>1. CASE Holds(cache, Key(t)) /\ Respond(t, Lookup(cache, Key(t)), TRUE)
    <3>1. IsKept(Lookup(cache, Key(t)), Key(t), data)
      BY <2>1, LookupIsKept
    <3> QED  BY <1>4, <2>1, <3>1
  <2>2. CASE Goto(t, "disk", o)
    BY <1>2, <2>2 DEF Labels
  <2> QED  BY <1>5, <1>7, <2>1, <2>2 DEF LookInMemory
<1>8. CASE LookOnDisk(t)
  <2>1. CASE Key(t) \in DOMAIN reports /\ Respond(t, reports[Key(t)], TRUE)
    BY <1>4, <2>1 DEF CacheInv, DiskInv
  <2>2. CASE Goto(t, "fill", [o EXCEPT !.raw = runs[Key(t)].payload.raw])
    BY <1>3, <1>6, <2>2 DEF Held, Labels
  <2> QED  BY <1>5, <1>8, <2>1, <2>2 DEF LookOnDisk
<1>9. CASE FillFromDisk(t) \/ AttachReport(t)
  BY <1>4, <1>9, ThreadProduct DEF FillFromDisk, AttachReport, HasRaw
<1>10. CASE ReadRawFingerprint(t)
  <2>1. PICK fp \in Coverage : Goto(t, "raw_lookup", [o EXCEPT !.rawFp = fp])
    BY <1>10 DEF ReadRawFingerprint
  <2> QED  BY <1>3, <1>6, <2>1 DEF Held, Labels
<1>11. CASE LookUpRaw(t)
  <2>1. CASE Goto(t, "store", [o EXCEPT !.raw = Lookup(rawCache, RawKeyOf(t))])
    BY <1>3, <1>6, <2>1 DEF Held, Labels
  <2>2. CASE Goto(t, "load", o)
    BY <1>2, <2>2 DEF Labels
  <2> QED  BY <1>11, <2>1, <2>2 DEF LookUpRaw
<1>12. CASE LoadAndCompute(t)
  <2> DEFINE label == IF UsesBacktest(o.path) THEN "raw_store" ELSE "store"
             raw == [tree |-> o.config.tree, series |-> WantsSeries(o.path),
                     expanding |-> WantsExpanding(o.path, o.config), version |-> data]
             held == [o EXCEPT !.raw = raw]
  <2>1. Goto(t, label, held) /\ label \in Labels \ {"idle"}
    BY <1>12 DEF LoadAndCompute, Labels
  <2> HIDE DEF raw
  <2>2. held.path = o.path /\ held.config = o.config /\ held.since = o.since
    BY <1>6 DEF Held
  <2> HIDE DEF held, label
  <2> QED  BY <1>3, <2>1, <2>2
<1>13. CASE StoreRaw(t)
  BY <1>2, <1>13 DEF StoreRaw, Labels
<1>14. CASE StoreProduct(t)
  <2>1. IsKept(Product(t), Key(t), data)
    BY <1>14, ThreadProduct DEF StoreProduct, HasRaw
  <2>2. Respond(t, Product(t), FALSE) \/ Goto(t, "link", o)
    BY <1>14 DEF StoreProduct
  <2> QED  BY <1>2, <1>4, <2>1, <2>2 DEF Labels
<1>15. CASE LinkToTree(t)
  BY <1>3, <1>6, <1>15 DEF LinkToTree, Held, Labels
<1>16. CASE RecordRun(t)
  <2>1. IsKept(Product(t), Key(t), data)
    BY <1>16, ThreadProduct DEF RecordRun, HasRaw
  <2>2. Respond(t, Product(t), FALSE) \/ Goto(t, "attach", o)
    BY <1>16 DEF RecordRun
  <2> QED  BY <1>2, <1>4, <2>1, <2>2 DEF Labels
<1>17. CASE Fail(t)
  <2>1. asked' = [asked EXCEPT ![t] = None]
    BY <1>17, OneAsks DEF Fail, Waits
  <2>2. asked' = [u \in Threads |-> IF u \in {t} THEN None ELSE asked[u]]
    BY <2>1 DEF asked
  <2>3. told' = told
    BY <1>17 DEF Fail, told
  <2> QED  BY <1>1, <2>2, <2>3, ServiceState, ServiceNext DEF Service!Fail
<1> QED  BY <1>7, <1>8, <1>9, <1>10, <1>11, <1>12, <1>13, <1>14, <1>15, <1>16, <1>17 DEF Serve

\* What happens around the requests: a refresh is one, a restart fails all of them.
LEMMA OutsideServes ==
    ASSUME CacheInv,
           \/ ClearCaches \/ DeleteModel \/ DataChanges \/ Restart
           \/ \E config \in Configs : SaveModel(config)
           \/ UNCHANGED vars
    PROVE  Silent \/ Service!Refresh \/ Service!Fail(Threads)
<1>1. CASE Restart
  <2>1. asked' = [u \in Threads |-> IF u \in Threads THEN None ELSE asked[u]]
    BY <1>1 DEF Restart, asked, Waits
  <2>2. told' = told /\ data' = data
    BY <1>1 DEF Restart, told
  <2> QED  BY <2>1, <2>2, ServiceState, ServiceNext DEF Service!Fail
<1>2. CASE DataChanges
  <2>1. asked' = asked /\ told' = told
    BY <1>2 DEF DataChanges, thread, asked, told
  <2> QED  BY <1>2, <2>1, ServiceState, ServiceNext DEF Service!Refresh, DataChanges
<1>3. CASE UNCHANGED <<data, thread>>
  BY <1>3 DEF thread, Silent, asked, told
<1> QED  BY <1>1, <1>2, <1>3 DEF vars, ClearCaches, DeleteModel, SaveModel

LEMMA ServiceStep ==
    ASSUME ~Outages, CacheInv, [Next]_vars
    PROVE  [Service!Next]_(Service!vars)
<1>1. CASE \E t \in Threads : \E q \in Questions : Ask(t, q)
  BY <1>1, AskAsks DEF Service!Next
<1>2. ASSUME NEW t \in Threads, Serve(t), ~ \E q \in Questions : Ask(t, q)
      PROVE  [Service!Next]_(Service!vars)
  <2>1. Silent \/ Service!Tell(t) \/ Service!Fail({t})
    BY <1>2, RequestServes
  <2> QED  BY <2>1, SilentIsStutter DEF Service!Next
<1>3. CASE \/ ClearCaches \/ DeleteModel \/ DataChanges \/ Restart
           \/ \E config \in Configs : SaveModel(config)
           \/ UNCHANGED vars
  <2>1. Silent \/ Service!Refresh \/ Service!Fail(Threads)
    BY <1>3, OutsideServes
  <2> QED  BY <2>1, SilentIsStutter DEF Service!Next
<1> QED  BY <1>1, <1>2, <1>3 DEF Next

\* Caches, tables, races and restarts are invisible: what a client is told is the
\* result of what it asked for, from data no older than its question, if the hub can
\* always be read (do_POST with _run_full_backtest and run_history).
THEOREM ServesResults ==
    ASSUME ~Outages
    PROVE  Spec => ImplementsResultService
<1>1. CacheInv /\ [Next]_vars => [Service!Next]_(Service!vars)
  BY ServiceStep
<1> QED
  BY <1>1, ServiceInit, CachesStaySound, PTL
  DEF Spec, ImplementsResultService, Service!Spec

=============================================================================
