--------------------------- MODULE SemanticCache ---------------------------
(***************************************************************************)
(* The semantic cache around the failover walk: serveFromCache before it,  *)
(* storeInCache after it, the cache's table, and the resolver that keeps   *)
(* the embedder's key for a while.  Requests run side by side; the         *)
(* operator changes the key, statements and embeddings fail, time passes   *)
(* and the process restarts in between.                                    *)
(*                                                                         *)
(* A prompt is the rendered conversation; Similar says how close two are.  *)
(* A completion is known by the prompt it answers and by how its stream    *)
(* ended.  Keys are numbered in the order they are stored; 0 is none.      *)
(* Ages and remaining times are moved by Tick.                             *)
(***************************************************************************)
EXTENDS Integers, FiniteSets

CONSTANTS
    Requests,       \* the requests under way
    Models, Prompts,
    DefaultModel,   \* the model of a request that names none
    Similar,        \* cosine similarity of two prompts, in steps
    Threshold,      \* CACHE_THRESHOLD
    EntryTTL,       \* CACHE_TTL; 0: entries never expire
    KeyTTL,         \* providerKeyTTL
    PruneInterval,
    MaxRequests,    \* bound: requests of a behaviour
    MaxChanges,     \* bound: key changes and restarts
    MaxLag          \* bound: ticks that a read of the key takes

ASSUME CacheAssumption ==
    /\ DefaultModel \in Models
    /\ Similar \in [Prompts \X Prompts -> Int]
    /\ EntryTTL \in Nat /\ KeyTTL \in Nat \ {0} /\ PruneInterval \in Nat
    /\ MaxRequests \in Nat /\ MaxChanges \in Nat /\ MaxLag \in Nat
    /\ "nobody" \notin Requests   \* which stands for no holder of the mutex

VARIABLES
    enabled,   \* the cache was configured, pgvector and threshold in order
    stored,    \* the key of provider_keys
    latest,    \* the newest key ever stored
    gone,      \* how long ago each key was last the stored one
    memo,      \* providerKeyResolver: key, age, and how long its read took
    reader,    \* the holder of the resolver's mutex, and since when
    rows,      \* cache_entries
    pruned,    \* the age of lastPrune
    req,       \* the requests
    made, changes

keys == <<stored, latest, gone>>
resolver == <<memo, reader>>
table == <<rows, pruned>>
vars == <<enabled, keys, resolver, table, req, made, changes>>

Unnamed == "unnamed"
Nobody == [who |-> "nobody", ticks |-> 0]
NotLoaded == [key |-> 0, age |-> KeyTTL + 1, lag |-> 0]
Idle == [pc |-> "idle", why |-> "lookup", model |-> "none", prompt |-> "none",
         eligible |-> FALSE, key |-> 0, stale |-> 0, lag |-> 0, outcome |-> "none",
         from |-> {}, replayed |-> {}, metered |-> 0]

Init ==
    /\ enabled \in BOOLEAN
    /\ stored \in {0, 1} /\ latest = 1
    /\ gone = [k \in 0..(1 + MaxChanges) |->
                 IF k = stored THEN 0 ELSE KeyTTL + MaxLag]
    /\ memo = NotLoaded /\ reader = Nobody
    /\ rows = {} /\ pruned = PruneInterval
    /\ req = [r \in Requests |-> Idle]
    /\ made = 0 /\ changes = 0

\* A key is held from its resolution to the call that uses it.
Goto(r, pc) ==
    req' = [req EXCEPT ![r].pc = pc, ![r].key = 0, ![r].stale = 0, ![r].lag = 0]
Return(r) == req' = [req EXCEPT ![r] = Idle]

\* A lookup or a store that comes to nothing: the request goes upstream, or is
\* over.
Pass(r) == IF req[r].why = "lookup" THEN Goto(r, "upstream") ELSE Return(r)

\* cacheModel.
CacheModel(named) == IF named = Unnamed THEN DefaultModel ELSE named

(***************************************************************************)
(* route: the cache first.  eligible is requestCacheable: a temperature in *)
(* range, no passthrough field, a conversation.                            *)
(***************************************************************************)
Arrive(r) ==
    /\ req[r].pc = "idle" /\ made < MaxRequests
    /\ \E named \in Models \cup {Unnamed}, p \in Prompts, e \in BOOLEAN :
         req' = [req EXCEPT ![r] =
                   [Idle EXCEPT !.model = CacheModel(named), !.prompt = p,
                      !.eligible = e,
                      !.pc = IF enabled /\ e THEN "resolve" ELSE "upstream"]]
    /\ made' = made + 1
    /\ UNCHANGED <<enabled, keys, resolver, table, changes>>

(***************************************************************************)
(* Embed: resolver.get under its mutex, then the call.                     *)
(***************************************************************************)
\* Mutant of Young: the boundary is on the wrong side.
YoungStill == memo.age =< KeyTTL

Young == memo.age < KeyTTL

\* The memo answers while it is young.
Recall(r) ==
    /\ req[r].pc = "resolve" /\ reader = Nobody /\ Young
    /\ req' = [req EXCEPT ![r].pc = "embed", ![r].key = memo.key,
                          ![r].stale = gone[memo.key], ![r].lag = memo.lag]
    /\ UNCHANGED <<enabled, keys, resolver, table, made, changes>>

\* The row is read with the mutex held, the absence of one too; when that
\* fails nothing is memoised.
ReadKey(r) ==
    /\ req[r].pc = "resolve" /\ reader = Nobody /\ ~Young
    /\ \/ /\ reader' = [who |-> r, ticks |-> 0]
          /\ req' = [req EXCEPT ![r].pc = "memoise", ![r].key = stored]
       \/ Pass(r) /\ UNCHANGED reader
    /\ UNCHANGED <<enabled, keys, memo, table, made, changes>>

\* The age of a memo starts when its read has returned.
Memoise(r) ==
    /\ req[r].pc = "memoise"
    /\ memo' = [key |-> req[r].key, age |-> 0, lag |-> reader.ticks]
    /\ reader' = Nobody
    /\ req' = [req EXCEPT ![r].pc = "embed", ![r].lag = reader.ticks,
                          ![r].stale = gone[req[r].key]]
    /\ UNCHANGED <<enabled, keys, table, made, changes>>

\* No key is a quiet miss; the call may fail, with a key out of date or not.
Embed(r) ==
    /\ req[r].pc = "embed"
    /\ \/ /\ req[r].key # 0
          /\ Goto(r, IF req[r].why = "lookup" THEN "query" ELSE "insert")
       \/ Pass(r)
    /\ UNCHANGED <<enabled, keys, resolver, table, made, changes>>

(***************************************************************************)
(* Lookup and the replay of what it found.                                 *)
(***************************************************************************)
Closeness(row, r) == Similar[row.prompt, req[r].prompt]

\* The rows of the model that have not expired.
Eligible(r) == {row \in rows : row.model = req[r].model /\ row.left # 0}

\* ORDER BY distance LIMIT 1: one of the nearest.
Nearest(r) ==
    {row \in Eligible(r) :
        \A other \in Eligible(r) : Closeness(row, r) >= Closeness(other, r)}

\* A hit is metered, then replayed.
Hit(r, row) ==
    /\ Closeness(row, r) >= Threshold
    /\ req' = [req EXCEPT ![r].pc = "replay", ![r].replayed = {row},
                          ![r].metered = @ + 1]

Query(r) ==
    /\ req[r].pc = "query"
    /\ \/ \E row \in Nearest(r) : Hit(r, row)
       \/ Pass(r)    \* nothing near, or the statement fails
    /\ UNCHANGED <<enabled, keys, resolver, table, made, changes>>

\* Mutant of Handled: a replay the caller cut off is tried upstream.
NotHandled == {"idle", "upstream"}

\* Where a request goes after its replay, whether or not emit failed.
Handled == {"idle"}

Replay(r) ==
    /\ req[r].pc = "replay"
    /\ \E pc \in Handled :
         IF pc = "idle" THEN Return(r)
         ELSE req' = [req EXCEPT ![r].pc = pc, ![r].from = @ \cup {"cache"}]
    /\ UNCHANGED <<enabled, keys, resolver, table, made, changes>>

(***************************************************************************)
(* The walk and the store after it.                                        *)
(***************************************************************************)
\* attemptChain, from here: an error with nothing sent, a stream that dies
\* after part of it, an answer without text, or one with all its text.
Upstream(r) ==
    /\ req[r].pc = "upstream"
    /\ \E outcome \in {"failed", "broken", "blank", "whole"} :
         req' = [req EXCEPT ![r].pc = "answered", ![r].outcome = outcome,
                   ![r].from = @ \cup IF outcome = "failed" THEN {} ELSE {"upstream"}]
    /\ UNCHANGED <<enabled, keys, resolver, table, made, changes>>

\* Mutant of Storable: what a stream sent before it died is stored too.
StorablePart(r) == enabled /\ req[r].eligible /\ req[r].outcome \in {"broken", "whole"}

\* Only an attempt that succeeded, with some text, is worth storing.
Storable(r) == enabled /\ req[r].eligible /\ req[r].outcome = "whole"

StoreInCache(r) ==
    /\ req[r].pc = "answered"
    /\ IF Storable(r)
       THEN req' = [req EXCEPT ![r].pc = "resolve", ![r].why = "store"]
       ELSE Return(r)
    /\ UNCHANGED <<enabled, keys, resolver, table, made, changes>>

\* An entry; one that never expires keeps -1.
Entry(r) == [model |-> req[r].model, prompt |-> req[r].prompt,
             outcome |-> req[r].outcome, eligible |-> req[r].eligible,
             left |-> IF EntryTTL = 0 THEN -1 ELSE EntryTTL,
             age |-> 0]

Insert(r) ==
    /\ req[r].pc = "insert"
    /\ \/ /\ rows' = rows \cup {Entry(r)}
          /\ pruned' = IF pruned >= PruneInterval THEN 0 ELSE pruned
          /\ IF pruned >= PruneInterval THEN Goto(r, "prune") ELSE Return(r)
       \/ Return(r) /\ UNCHANGED table
    /\ UNCHANGED <<enabled, keys, resolver, made, changes>>

\* maybePrune's statement; one that fails is only logged.
Prune(r) ==
    /\ req[r].pc = "prune"
    /\ rows' \in {rows, {row \in rows : row.left # 0}}
    /\ Return(r)
    /\ UNCHANGED <<enabled, keys, resolver, pruned, made, changes>>

(***************************************************************************)
(* The operator, time, restarts.                                           *)
(***************************************************************************)
SetKey ==
    /\ changes < MaxChanges
    /\ changes' = changes + 1
    /\ stored' \in {0, latest + 1} \ {stored}
    /\ latest' = IF stored' = 0 THEN latest ELSE stored'
    /\ gone' = [gone EXCEPT ![stored'] = 0]
    /\ UNCHANGED <<enabled, resolver, table, req, made>>

Upto(n, bound) == IF n < bound THEN n + 1 ELSE n

Tick ==
    /\ reader = Nobody \/ reader.ticks < MaxLag
    /\ memo' = [memo EXCEPT !.age = Upto(@, KeyTTL + 1)]
    /\ reader' = IF reader = Nobody THEN reader ELSE [reader EXCEPT !.ticks = @ + 1]
    /\ gone' = [k \in DOMAIN gone |->
                  IF k = stored THEN 0 ELSE Upto(gone[k], KeyTTL + MaxLag)]
    /\ rows' = {[row EXCEPT !.left = IF @ > 0 THEN @ - 1 ELSE @,
                            !.age = Upto(@, EntryTTL)] : row \in rows}
    /\ pruned' = Upto(pruned, PruneInterval)
    /\ UNCHANGED <<enabled, stored, latest, req, made, changes>>

\* The table and the logs survive.
Restart ==
    /\ changes < MaxChanges
    /\ changes' = changes + 1
    /\ memo' = NotLoaded /\ reader' = Nobody /\ pruned' = PruneInterval
    /\ req' = [r \in Requests |-> Idle]
    /\ UNCHANGED <<enabled, keys, rows, made>>

Next ==
    \/ \E r \in Requests :
         \/ Arrive(r) \/ Recall(r) \/ ReadKey(r) \/ Memoise(r) \/ Embed(r)
         \/ Query(r) \/ Replay(r) \/ Upstream(r) \/ StoreInCache(r)
         \/ Insert(r) \/ Prune(r)
    \/ SetKey \/ Tick \/ Restart

Spec == Init /\ [][Next]_vars

(***************************************************************************)
(* What the code promises.                                                 *)
(***************************************************************************)
\* A completion is replayed only to a request it may answer: it was stored for
\* the same model and a prompt as close as the threshold asks, less than
\* CACHE_TTL before the lookup, by a request that may be cached, and no error
\* cut it off (Lookup, storeInCache and attemptChain between them), however
\* lookups, stores, prunes and key changes overlapped.
ReplaysAreSound ==
    \A r \in Requests : \A row \in req[r].replayed :
        /\ row.model = req[r].model /\ Similar[row.prompt, req[r].prompt] >= Threshold
        /\ EntryTTL > 0 => row.age < EntryTTL
        /\ row.outcome = "whole" /\ row.eligible /\ req[r].eligible

\* The caller of one request never gets both a replay and an upstream's
\* answer: serveFromCache claims a request once a hit is found, even when the
\* caller cuts the replay off, and gives it up in every other case.  A
\* cache_hit row is written for a replay and for nothing else.
ServedOnce ==
    \A r \in Requests :
        /\ Cardinality(req[r].from) =< 1
        /\ req[r].metered = Cardinality(req[r].replayed)

\* A key that was replaced, or found missing, is used for less than
\* providerKeyTTL longer, apart from the time the read of it took
\* (providerKeyResolver.get memoises when the read returns, and the key may be
\* replaced while it runs).
KeyTakesEffect ==
    \A r \in Requests : req[r].stale < KeyTTL + req[r].lag
=============================================================================
