------------------------ MODULE SemanticCacheProofs ------------------------
(***************************************************************************)
(* Proofs about SemanticCache, for any requests, models, prompts and       *)
(* similarity, any threshold, lifetimes and intervals.                     *)
(***************************************************************************)
EXTENDS SemanticCache, FiniteSetTheorems, TLAPS

Keys == 0..(1 + MaxChanges)

Outcomes == {"none", "failed", "broken", "blank", "whole"}

Rows == [model : Models \cup {"none"}, prompt : Prompts \cup {"none"}, outcome : Outcomes,
         eligible : BOOLEAN, left : Int, age : Nat]

Places == {"idle", "resolve", "memoise", "embed", "query", "replay", "upstream",
           "answered", "insert", "prune"}

Served == [pc : Places, why : {"lookup", "store"}, model : Models \cup {"none"},
           prompt : Prompts \cup {"none"}, eligible : BOOLEAN, key : Keys, stale : Nat,
           lag : Nat, outcome : Outcomes, from : SUBSET {"cache", "upstream"},
           replayed : SUBSET Rows, metered : Nat]

Types ==
    /\ enabled \in BOOLEAN
    /\ changes \in 0..MaxChanges /\ latest \in 1..(1 + changes) /\ stored \in Keys
    /\ gone \in [Keys -> Nat]
    /\ memo \in [key : Keys, age : Nat, lag : Nat]
    /\ reader \in [who : Requests \cup {"nobody"}, ticks : Nat]
    /\ rows \subseteq Rows
    /\ req \in [Requests -> Served]

(***************************************************************************)
(* The table: every row is the whole answer to a request that may be       *)
(* cached, and what is left of its life is what its age leaves of the TTL. *)
(***************************************************************************)
RowFine(row) ==
    /\ row.outcome = "whole" /\ row.eligible
    /\ EntryTTL > 0 => row.left >= 0 /\ row.age + row.left = EntryTTL

TableFine == \A row \in rows : RowFine(row)

\* A row that may be replayed to a request.
Answers(row, q) ==
    /\ row.model = q.model /\ Similar[row.prompt, q.prompt] >= Threshold
    /\ EntryTTL > 0 => row.age < EntryTTL
    /\ row.outcome = "whole" /\ row.eligible /\ q.eligible

(***************************************************************************)
(* A request, by where it is: only one that may be cached looks up or      *)
(* stores, only a whole answer is stored, only a replay holds a row, and   *)
(* no request that goes upstream was ever replayed to.                     *)
(***************************************************************************)
Fine(q) ==
    /\ q.stale < KeyTTL + q.lag
    /\ q.from \subseteq {"upstream"}
    /\ q.pc # "replay" => q.replayed = {} /\ q.metered = 0
    /\ q.pc = "replay" => q.metered = 1 /\ \E row \in Rows : q.replayed = {row}
    /\ \A row \in q.replayed : Answers(row, q)
    /\ q.pc \in {"resolve", "memoise", "embed", "query", "replay", "insert", "prune"} => q.eligible
    /\ q.pc \in {"insert", "prune"} => q.why = "store"
    /\ q.pc \in {"upstream", "answered"} => q.why = "lookup"
    /\ q.why = "store" => q.outcome = "whole" /\ q.eligible

AllFine == \A r \in Requests : Fine(req[r])

(***************************************************************************)
(* The key: the stored one is not gone; one being read has not been gone   *)
(* for longer than the read has taken; a young memo's has not been gone    *)
(* for longer than its age and the read together.  One reader at a time.   *)
(***************************************************************************)
Reading(r) ==
    req[r].pc = "memoise" => reader.who = r /\ gone[req[r].key] <= reader.ticks

KeyFine ==
    /\ gone[stored] = 0
    /\ Young => gone[memo.key] <= memo.age + memo.lag
    /\ \A r \in Requests : Reading(r)

IInv == Types /\ TableFine /\ AllFine /\ KeyFine

-----------------------------------------------------------------------------
\* A request that is over.
LEMMA IdleFine == Idle \in Served /\ Fine(Idle) /\ Idle.pc = "idle"
  <1>1. Idle \in Served
    BY CacheAssumption DEF Idle, Served, Places, Outcomes, Keys
  <1>2. Fine(Idle)
    BY CacheAssumption DEF Idle, Fine
  <1> QED BY <1>1, <1>2 DEF Idle

\* One request is replaced by another that is in order.
LEMMA Replaced ==
    ASSUME Types, AllFine, NEW r \in Requests, NEW q \in Served, Fine(q),
           req' = [req EXCEPT ![r] = q]
    PROVE  req' \in [Requests -> Served] /\ AllFine'
  <1>1. req \in [Requests -> Served]
    BY DEF Types
  <1>2. \A d \in Requests : req'[d] = IF d = r THEN q ELSE req[d]
    BY <1>1
  <1>3. \A d \in Requests : Fine(req'[d])
    BY <1>2 DEF AllFine
  <1>4. AllFine'
    BY <1>3 DEF AllFine, Fine, Answers
  <1> QED BY <1>1, <1>4

\* While the keys and the resolver stay as they are, a request that is not the
\* reader leaves the key in order.
LEMMA KeyKept ==
    ASSUME Types, KeyFine, UNCHANGED <<keys, resolver>>, NEW r \in Requests, NEW q \in Served,
           req' = [req EXCEPT ![r] = q], q.pc # "memoise"
    PROVE  KeyFine'
  <1>1. \A d \in Requests : req'[d] = IF d = r THEN q ELSE req[d]
    BY DEF Types
  <1>2. \A d \in Requests : Reading(d)'
    BY <1>1 DEF KeyFine, Reading, keys, resolver
  <1> QED BY <1>2 DEF KeyFine, Young, keys, resolver

\* A step of one request that changes nothing but the request.
LEMMA Alone ==
    ASSUME IInv, NEW r \in Requests, NEW q \in Served, Fine(q), q.pc # "memoise",
           req' = [req EXCEPT ![r] = q],
           UNCHANGED <<enabled, keys, resolver, rows, changes>>
    PROVE  IInv'
  <1>1. req' \in [Requests -> Served] /\ AllFine'
    BY Replaced DEF IInv
  <1>2. KeyFine'
    BY KeyKept DEF IInv
  <1>3. Types'
    BY <1>1 DEF IInv, Types, keys, resolver
  <1>4. TableFine'
    BY DEF IInv, TableFine, RowFine
  <1> QED BY <1>1, <1>2, <1>3, <1>4 DEF IInv

\* A request goes on without its key.
LEMMA Going ==
    ASSUME IInv, NEW r \in Requests, NEW pc \in Places \ {"memoise", "replay"}, Goto(r, pc),
           req[r].pc # "replay",
           pc \in {"resolve", "embed", "query", "insert", "prune"} => req[r].eligible,
           pc \in {"insert", "prune"} => req[r].why = "store",
           pc \in {"upstream", "answered"} => req[r].why = "lookup"
    PROVE  \E q \in Served : Fine(q) /\ q.pc # "memoise" /\ req' = [req EXCEPT ![r] = q]
  <1> DEFINE q == [req[r] EXCEPT !.pc = pc, !.key = 0, !.stale = 0, !.lag = 0]
  <1>1. req[r] \in Served /\ req \in [Requests -> Served] /\ Fine(req[r])
    BY DEF IInv, Types, AllFine
  <1>2. 0 \in Keys
    BY CacheAssumption DEF Keys
  <1>3. q \in Served
    BY <1>1, <1>2 DEF Served
  <1>4. /\ q.pc = pc /\ q.stale = 0 /\ q.lag = 0 /\ q.from = req[r].from
        /\ q.replayed = req[r].replayed /\ q.metered = req[r].metered
        /\ q.eligible = req[r].eligible /\ q.why = req[r].why /\ q.outcome = req[r].outcome
    BY <1>1 DEF Served
  <1>5. req' = [req EXCEPT ![r] = q]
    BY <1>1 DEF Goto
  <1> HIDE DEF q
  <1>6. Fine(q)
    BY <1>1, <1>4, CacheAssumption DEF Fine
  <1> QED BY <1>3, <1>4, <1>5, <1>6

\* A request is over.
LEMMA Returning ==
    ASSUME IInv, NEW r \in Requests, Return(r)
    PROVE  \E q \in Served : Fine(q) /\ q.pc # "memoise" /\ req' = [req EXCEPT ![r] = q]
  BY IdleFine DEF Return

\* A lookup or store comes to nothing.
LEMMA Passing ==
    ASSUME IInv, NEW r \in Requests, Pass(r), req[r].pc # "replay"
    PROVE  \E q \in Served : Fine(q) /\ q.pc # "memoise" /\ req' = [req EXCEPT ![r] = q]
  <1>1. CASE req[r].why = "lookup"
    <2>1. Goto(r, "upstream") /\ "upstream" \in Places \ {"memoise", "replay"}
      BY <1>1 DEF Pass, Places
    <2> QED BY <1>1, <2>1, Going
  <1>2. CASE req[r].why # "lookup"
    BY <1>2, Returning DEF Pass
  <1> QED BY <1>1, <1>2

-----------------------------------------------------------------------------
\* The gateway starts in order.
LEMMA InitIInv == Init => IInv
  <1> SUFFICES ASSUME Init PROVE IInv
    OBVIOUS
  <1>1. 0 \in Keys /\ 1 \in Keys
    BY CacheAssumption DEF Keys
  <1>2. gone \in [Keys -> Nat] /\ gone[stored] = 0
    BY <1>1, CacheAssumption DEF Init, Keys
  <1>3. NotLoaded \in [key : Keys, age : Nat, lag : Nat] /\ NotLoaded.age = KeyTTL + 1
    BY <1>1, CacheAssumption DEF NotLoaded
  <1>4. ~Young
    BY <1>3, CacheAssumption DEF Init, Young
  <1>5. Nobody \in [who : Requests \cup {"nobody"}, ticks : Nat]
    BY DEF Nobody
  <1>6. req \in [Requests -> Served] /\ \A r \in Requests : req[r] = Idle
    BY IdleFine DEF Init
  <1>7. changes \in 0..MaxChanges /\ latest \in 1..(1 + changes) /\ stored \in Keys
    BY <1>1, CacheAssumption DEF Init
  <1>8. Types
    BY <1>2, <1>3, <1>5, <1>6, <1>7 DEF Init, Types
  <1>9. AllFine /\ \A r \in Requests : Reading(r)
    BY <1>6, IdleFine DEF AllFine, Reading
  <1>10. TableFine
    BY DEF Init, TableFine
  <1> QED BY <1>2, <1>4, <1>8, <1>9, <1>10 DEF IInv, KeyFine

\* A request arrives, and is looked up or sent upstream.
LEMMA ArriveOK == ASSUME IInv, NEW r \in Requests, Arrive(r) PROVE IInv'
  <1>1. PICK named \in Models \cup {Unnamed}, p \in Prompts, e \in BOOLEAN :
          req' = [req EXCEPT ![r] =
                   [Idle EXCEPT !.model = CacheModel(named), !.prompt = p, !.eligible = e,
                      !.pc = IF enabled /\ e THEN "resolve" ELSE "upstream"]]
    BY DEF Arrive
  <1> DEFINE q == [Idle EXCEPT !.model = CacheModel(named), !.prompt = p, !.eligible = e,
                      !.pc = IF enabled /\ e THEN "resolve" ELSE "upstream"]
  <1>2. CacheModel(named) \in Models
    BY CacheAssumption DEF CacheModel
  <1>3. q \in Served
    BY <1>2, IdleFine DEF Served, Places
  <1>4. /\ q.pc \in {"resolve", "upstream"} /\ q.why = "lookup" /\ q.stale = 0 /\ q.lag = 0
        /\ q.from = {} /\ q.replayed = {} /\ q.metered = 0
        /\ q.pc = "resolve" => q.eligible
    BY DEF Idle
  <1>5. req' = [req EXCEPT ![r] = q]
    BY <1>1
  <1>6. UNCHANGED <<enabled, keys, resolver, rows, changes>>
    BY DEF Arrive, table
  <1> HIDE DEF q
  <1>7. Fine(q)
    BY <1>4, CacheAssumption DEF Fine
  <1> QED BY <1>3, <1>4, <1>5, <1>6, <1>7, Alone

\* The memo's key is used: it has not been gone for as long as the TTL and the
\* read that fetched it.
LEMMA RecallOK == ASSUME IInv, NEW r \in Requests, Recall(r) PROVE IInv'
  <1> DEFINE q == [req[r] EXCEPT !.pc = "embed", !.key = memo.key,
                                 !.stale = gone[memo.key], !.lag = memo.lag]
  <1>1. /\ req[r] \in Served /\ req \in [Requests -> Served] /\ Fine(req[r])
        /\ memo.key \in Keys /\ memo.age \in Nat /\ memo.lag \in Nat /\ gone[memo.key] \in Nat
    BY DEF IInv, Types, AllFine
  <1>2. q \in Served
    BY <1>1 DEF Served, Places
  <1>3. /\ q.pc = "embed" /\ q.stale = gone[memo.key] /\ q.lag = memo.lag
        /\ q.from = req[r].from
        /\ q.replayed = req[r].replayed /\ q.metered = req[r].metered
        /\ q.eligible = req[r].eligible /\ q.why = req[r].why /\ q.outcome = req[r].outcome
    BY <1>1 DEF Served
  <1>4. req' = [req EXCEPT ![r] = q]
    BY <1>1 DEF Recall
  <1>5. req[r].pc = "resolve" /\ UNCHANGED <<enabled, keys, resolver, rows, changes>>
    BY DEF Recall, table
  <1>6. gone[memo.key] < KeyTTL + memo.lag
    <2>1. gone[memo.key] <= memo.age + memo.lag /\ memo.age < KeyTTL
      BY DEF IInv, KeyFine, Recall, Young
    <2> QED BY <1>1, <2>1, CacheAssumption
  <1> HIDE DEF q
  <1>7. Fine(q)
    BY <1>1, <1>3, <1>5, <1>6 DEF Fine
  <1> QED BY <1>2, <1>3, <1>4, <1>5, <1>7, Alone

\* The read begins with the stored key, and no other read is under way.
LEMMA ReadKeyOK == ASSUME IInv, NEW r \in Requests, ReadKey(r) PROVE IInv'
  <1>0. /\ req[r].pc = "resolve" /\ reader = Nobody
        /\ UNCHANGED <<enabled, keys, memo, rows, changes>>
    BY DEF ReadKey, table
  <1>1. CASE Pass(r) /\ UNCHANGED reader
    <2>1. PICK q \in Served : Fine(q) /\ q.pc # "memoise" /\ req' = [req EXCEPT ![r] = q]
      BY <1>0, <1>1, Passing
    <2>2. UNCHANGED <<enabled, keys, resolver, rows, changes>>
      BY <1>0, <1>1 DEF resolver
    <2> QED BY <2>1, <2>2, Alone
  <1>2. CASE /\ reader' = [who |-> r, ticks |-> 0]
             /\ req' = [req EXCEPT ![r].pc = "memoise", ![r].key = stored]
    <2> DEFINE q == [req[r] EXCEPT !.pc = "memoise", !.key = stored]
    <2>1. /\ req[r] \in Served /\ req \in [Requests -> Served] /\ Fine(req[r])
          /\ stored \in Keys /\ gone[stored] = 0
      BY DEF IInv, Types, AllFine, KeyFine
    <2>2. q \in Served
      BY <2>1 DEF Served, Places
    <2>3. /\ q.pc = "memoise" /\ q.key = stored /\ q.stale = req[r].stale /\ q.lag = req[r].lag
          /\ q.from = req[r].from
          /\ q.replayed = req[r].replayed /\ q.metered = req[r].metered
          /\ q.eligible = req[r].eligible /\ q.why = req[r].why /\ q.outcome = req[r].outcome
      BY <2>1 DEF Served
    <2>4. req' = [req EXCEPT ![r] = q]
      BY <1>2, <2>1
    <2> HIDE DEF q
    <2>5. Fine(q)
      BY <1>0, <2>1, <2>3 DEF Fine
    <2>6. req' \in [Requests -> Served] /\ AllFine'
      BY <2>2, <2>4, <2>5, Replaced DEF IInv
    <2>7. \A d \in Requests : req'[d] = IF d = r THEN q ELSE req[d]
      BY <2>1, <2>4
    <2>8. reader'.who = r /\ reader'.ticks = 0
      BY <1>2
    <2>9. \A d \in Requests : Reading(d)'
      <3>1. \A d \in Requests : req[d].pc # "memoise"
        <4>1. reader.who = "nobody"
          BY <1>0 DEF Nobody
        <4> QED BY <4>1, CacheAssumption DEF IInv, KeyFine, Reading
      <3> QED BY <1>0, <2>1, <2>3, <2>7, <2>8, <3>1 DEF Reading, keys
    <2>10. KeyFine'
      BY <1>0, <2>9 DEF IInv, KeyFine, Young, keys
    <2>11. reader' \in [who : Requests \cup {"nobody"}, ticks : Nat]
      BY <1>2
    <2>12. Types'
      BY <1>0, <2>6, <2>11 DEF IInv, Types, keys
    <2>13. TableFine'
      BY <1>0 DEF IInv, TableFine, RowFine
    <2> QED BY <2>6, <2>10, <2>12, <2>13 DEF IInv
  <1> QED BY <1>1, <1>2 DEF ReadKey

\* What was read is memoised, with the time the read took.
LEMMA MemoiseOK == ASSUME IInv, NEW r \in Requests, Memoise(r) PROVE IInv'
  <1> DEFINE q == [req[r] EXCEPT !.pc = "embed", !.lag = reader.ticks,
                                 !.stale = gone[req[r].key]]
  <1>0. /\ req[r].pc = "memoise" /\ UNCHANGED <<enabled, keys, rows, changes>>
        /\ memo' = [key |-> req[r].key, age |-> 0, lag |-> reader.ticks]
        /\ reader' = Nobody
    BY DEF Memoise, table
  <1>1. /\ req[r] \in Served /\ req \in [Requests -> Served] /\ Fine(req[r])
        /\ req[r].key \in Keys /\ gone[req[r].key] \in Nat /\ reader.ticks \in Nat
    BY DEF IInv, Types, AllFine, Served
  <1>2. q \in Served
    BY <1>1 DEF Served, Places
  <1>3. /\ q.pc = "embed" /\ q.stale = gone[req[r].key] /\ q.lag = reader.ticks
        /\ q.from = req[r].from
        /\ q.replayed = req[r].replayed /\ q.metered = req[r].metered
        /\ q.eligible = req[r].eligible /\ q.why = req[r].why /\ q.outcome = req[r].outcome
    BY <1>1 DEF Served
  <1>4. req' = [req EXCEPT ![r] = q]
    BY <1>1 DEF Memoise
  <1>5. gone[req[r].key] <= reader.ticks /\ reader.who = r
    BY <1>0 DEF IInv, KeyFine, Reading
  <1> HIDE DEF q
  <1>6. Fine(q)
    <2>1. gone[req[r].key] < KeyTTL + reader.ticks
      BY <1>1, <1>5, CacheAssumption
    <2> QED BY <1>0, <1>1, <1>3, <2>1 DEF Fine
  <1>7. req' \in [Requests -> Served] /\ AllFine'
    BY <1>2, <1>4, <1>6, Replaced DEF IInv
  <1>8. \A d \in Requests : req'[d].pc # "memoise"
    <2>1. \A d \in Requests : req'[d] = IF d = r THEN q ELSE req[d]
      BY <1>1, <1>4
    <2>2. \A d \in Requests : req[d].pc = "memoise" => d = r
      BY <1>5 DEF IInv, KeyFine, Reading
    <2> QED BY <1>3, <2>1, <2>2
  <1>9. memo' \in [key : Keys, age : Nat, lag : Nat] /\ memo'.key = req[r].key
        /\ memo'.age = 0 /\ memo'.lag = reader.ticks
    BY <1>0, <1>1
  <1>10. KeyFine'
    BY <1>0, <1>1, <1>5, <1>8, <1>9 DEF IInv, KeyFine, Reading, keys
  <1>11. Types'
    BY <1>0, <1>7, <1>9 DEF IInv, Types, keys, Nobody
  <1>12. TableFine'
    BY <1>0 DEF IInv, TableFine, RowFine
  <1> QED BY <1>7, <1>10, <1>11, <1>12 DEF IInv

\* The steps that only move their request on.
LEMMA EmbedOK == ASSUME IInv, NEW r \in Requests, Embed(r) PROVE IInv'
  <1>0. /\ req[r].pc = "embed" /\ UNCHANGED <<enabled, keys, resolver, rows, changes>>
        /\ Fine(req[r]) /\ req[r] \in Served
    BY DEF Embed, table, IInv, AllFine, Types
  <1>1. req[r].eligible /\ req[r].why \in {"lookup", "store"}
    BY <1>0 DEF Fine, Served
  <1>2. \E q \in Served : Fine(q) /\ q.pc # "memoise" /\ req' = [req EXCEPT ![r] = q]
    <2>1. CASE Pass(r)
      BY <1>0, <2>1, Passing
    <2>2. CASE Goto(r, IF req[r].why = "lookup" THEN "query" ELSE "insert")
      <3>1. {"query", "insert"} \subseteq Places \ {"memoise", "replay"}
        BY DEF Places
      <3>2. CASE req[r].why = "lookup"
        BY <1>0, <1>1, <2>2, <3>1, <3>2, Going
      <3>3. CASE req[r].why = "store"
        BY <1>0, <1>1, <2>2, <3>1, <3>3, Going
      <3> QED BY <1>1, <3>2, <3>3
    <2> QED BY <2>1, <2>2 DEF Embed
  <1> QED BY <1>0, <1>2, Alone

\* A row found is one that answers the request.
LEMMA QueryOK == ASSUME IInv, NEW r \in Requests, Query(r) PROVE IInv'
  <1>0. /\ req[r].pc = "query" /\ UNCHANGED <<enabled, keys, resolver, rows, changes>>
        /\ Fine(req[r]) /\ req[r] \in Served /\ req \in [Requests -> Served]
    BY DEF Query, table, IInv, AllFine, Types
  <1>1. CASE Pass(r)
    BY <1>0, <1>1, Passing, Alone
  <1>2. ASSUME NEW row \in Nearest(r), Hit(r, row) PROVE IInv'
    <2> DEFINE q == [req[r] EXCEPT !.pc = "replay", !.replayed = {row}, !.metered = @ + 1]
    <2>1. row \in rows /\ row.model = req[r].model /\ row.left # 0
          /\ Similar[row.prompt, req[r].prompt] >= Threshold
      BY <1>2 DEF Nearest, Eligible, Hit, Closeness
    <2>2. row \in Rows /\ RowFine(row)
      BY <2>1 DEF IInv, Types, TableFine
    <2>3. EntryTTL > 0 => row.age < EntryTTL
      <3>1. row.left \in Int /\ row.age \in Nat /\ EntryTTL \in Nat
        BY <2>2, CacheAssumption DEF Rows
      <3>2. EntryTTL > 0 => row.left >= 0 /\ row.age + row.left = EntryTTL
        BY <2>2 DEF RowFine
      <3>3. row.left # 0
        BY <2>1
      <3> QED BY <3>1, <3>2, <3>3
    <2>4. Answers(row, req[r])
      BY <1>0, <2>1, <2>2, <2>3 DEF Answers, RowFine, Fine
    <2>5. req[r].metered = 0 /\ req[r].metered + 1 = 1
      BY <1>0 DEF Fine
    <2>6. q \in Served
      <3>1. {row} \in SUBSET Rows /\ req[r].metered + 1 \in Nat
        BY <2>2, <2>5
      <3> QED BY <1>0, <3>1 DEF Served, Places
    <2>7. /\ q.pc = "replay" /\ q.stale = req[r].stale /\ q.lag = req[r].lag
          /\ q.from = req[r].from /\ q.replayed = {row} /\ q.metered = 1
          /\ q.model = req[r].model /\ q.prompt = req[r].prompt
          /\ q.eligible = req[r].eligible /\ q.why = req[r].why /\ q.outcome = req[r].outcome
      BY <1>0, <2>5 DEF Served
    <2>8. req' = [req EXCEPT ![r] = q]
      BY <1>0, <1>2 DEF Hit
    <2> HIDE DEF q
    <2>9. Answers(row, q)
      BY <2>4, <2>7 DEF Answers
    <2>10. Fine(q)
      BY <1>0, <2>2, <2>7, <2>9 DEF Fine
    <2> QED BY <1>0, <2>6, <2>7, <2>8, <2>10, Alone
  <1> QED BY <1>1, <1>2 DEF Query

\* Once replayed to, a request is over.
LEMMA ReplayOK == ASSUME IInv, NEW r \in Requests, Replay(r) PROVE IInv'
  <1>1. Return(r) /\ UNCHANGED <<enabled, keys, resolver, rows, changes>>
    BY DEF Replay, Handled, table
  <1> QED BY <1>1, Returning, Alone

\* The walk ends, one way or another.
LEMMA UpstreamOK == ASSUME IInv, NEW r \in Requests, Upstream(r) PROVE IInv'
  <1>0. /\ req[r].pc = "upstream" /\ UNCHANGED <<enabled, keys, resolver, rows, changes>>
        /\ Fine(req[r]) /\ req[r] \in Served /\ req \in [Requests -> Served]
    BY DEF Upstream, table, IInv, AllFine, Types
  <1>1. PICK outcome \in {"failed", "broken", "blank", "whole"} :
          req' = [req EXCEPT ![r].pc = "answered", ![r].outcome = outcome,
                    ![r].from = @ \cup IF outcome = "failed" THEN {} ELSE {"upstream"}]
    BY DEF Upstream
  <1> DEFINE more == IF outcome = "failed" THEN {} ELSE {"upstream"}
             q == [req[r] EXCEPT !.pc = "answered", !.outcome = outcome, !.from = @ \cup more]
  <1>2. more \subseteq {"upstream"}
    OBVIOUS
  <1>3. q \in Served
    BY <1>0, <1>2 DEF Served, Places, Outcomes
  <1>4. /\ q.pc = "answered" /\ q.stale = req[r].stale /\ q.lag = req[r].lag
        /\ q.from = req[r].from \cup more
        /\ q.replayed = req[r].replayed /\ q.metered = req[r].metered
        /\ q.eligible = req[r].eligible /\ q.why = req[r].why
    BY <1>0 DEF Served
  <1>5. req' = [req EXCEPT ![r] = q]
    BY <1>0, <1>1
  <1> HIDE DEF q, more
  <1>6. Fine(q)
    BY <1>0, <1>2, <1>4 DEF Fine
  <1> QED BY <1>0, <1>3, <1>4, <1>5, <1>6, Alone

\* Only a whole answer to a request that may be cached goes on to the store.
LEMMA StoreOK == ASSUME IInv, NEW r \in Requests, StoreInCache(r) PROVE IInv'
  <1>0. /\ req[r].pc = "answered" /\ UNCHANGED <<enabled, keys, resolver, rows, changes>>
        /\ Fine(req[r]) /\ req[r] \in Served /\ req \in [Requests -> Served]
    BY DEF StoreInCache, table, IInv, AllFine, Types
  <1>1. CASE ~Storable(r)
    BY <1>0, <1>1, Returning, Alone DEF StoreInCache
  <1>2. CASE Storable(r)
    <2> DEFINE q == [req[r] EXCEPT !.pc = "resolve", !.why = "store"]
    <2>1. q \in Served
      BY <1>0 DEF Served, Places
    <2>2. /\ q.pc = "resolve" /\ q.why = "store" /\ q.stale = req[r].stale /\ q.lag = req[r].lag
          /\ q.from = req[r].from
          /\ q.replayed = req[r].replayed /\ q.metered = req[r].metered
          /\ q.eligible = req[r].eligible /\ q.outcome = req[r].outcome
      BY <1>0 DEF Served
    <2>3. req' = [req EXCEPT ![r] = q]
      BY <1>0, <1>2 DEF StoreInCache
    <2>4. req[r].eligible /\ req[r].outcome = "whole"
      BY <1>2 DEF Storable
    <2> HIDE DEF q
    <2>5. Fine(q)
      BY <1>0, <2>2, <2>4 DEF Fine
    <2> QED BY <1>0, <2>1, <2>2, <2>3, <2>5, Alone
  <1> QED BY <1>1, <1>2

\* A step of one request that changes the table too.
LEMMA AloneOnTable ==
    ASSUME IInv, NEW r \in Requests, NEW q \in Served, Fine(q), q.pc # "memoise",
           req' = [req EXCEPT ![r] = q], rows' \subseteq Rows, TableFine',
           UNCHANGED <<enabled, keys, resolver, changes>>
    PROVE  IInv'
  <1>1. req' \in [Requests -> Served] /\ AllFine'
    BY Replaced DEF IInv
  <1>2. KeyFine'
    BY KeyKept DEF IInv
  <1>3. Types'
    BY <1>1 DEF IInv, Types, keys, resolver
  <1> QED BY <1>1, <1>2, <1>3 DEF IInv

\* The entry stored is a whole answer, at the start of its life.
LEMMA InsertOK == ASSUME IInv, NEW r \in Requests, Insert(r) PROVE IInv'
  <1>0. /\ req[r].pc = "insert" /\ UNCHANGED <<enabled, keys, resolver, changes>>
        /\ Fine(req[r]) /\ req[r] \in Served
    BY DEF Insert, IInv, AllFine, Types
  <1>1. req[r].eligible /\ req[r].why = "store" /\ req[r].outcome = "whole"
    BY <1>0 DEF Fine
  <1>2. \E q \in Served : Fine(q) /\ q.pc # "memoise" /\ req' = [req EXCEPT ![r] = q]
    <2>1. CASE Return(r)
      BY <2>1, Returning
    <2>2. CASE Goto(r, "prune")
      <3>1. "prune" \in Places \ {"memoise", "replay"}
        BY DEF Places
      <3> QED BY <1>0, <1>1, <2>2, <3>1, Going
    <2> QED BY <2>1, <2>2 DEF Insert
  <1>3. Entry(r) \in Rows
    BY <1>0, CacheAssumption DEF Entry, Rows, Served
  <1>4. RowFine(Entry(r))
    BY <1>1, CacheAssumption DEF Entry, RowFine
  <1>5. rows' \subseteq rows \cup {Entry(r)}
    BY DEF Insert, table
  <1>6. rows' \subseteq Rows
    BY <1>3, <1>5 DEF IInv, Types
  <1>7. \A row \in rows' : RowFine(row)
    BY <1>4, <1>5 DEF IInv, TableFine
  <1>8. TableFine'
    BY <1>7 DEF TableFine, RowFine
  <1> QED BY <1>0, <1>2, <1>6, <1>8, AloneOnTable

\* Pruning only takes rows away.
LEMMA PruneOK == ASSUME IInv, NEW r \in Requests, Prune(r) PROVE IInv'
  <1>1. /\ UNCHANGED <<enabled, keys, resolver, changes>> /\ Return(r) /\ rows' \subseteq rows
    BY DEF Prune
  <1>2. rows' \subseteq Rows
    BY <1>1 DEF IInv, Types
  <1>3. TableFine'
    BY <1>1 DEF IInv, TableFine, RowFine
  <1> QED BY <1>1, <1>2, <1>3, Returning, AloneOnTable

\* A key is stored or deleted: the one before it starts to be gone.
LEMMA SetKeyOK == ASSUME IInv, SetKey PROVE IInv'
  <1>1. /\ UNCHANGED <<enabled, memo, reader, rows, req>> /\ changes < MaxChanges
        /\ changes' = changes + 1 /\ stored' \in {0, latest + 1}
        /\ latest' = IF stored' = 0 THEN latest ELSE stored'
        /\ gone' = [gone EXCEPT ![stored'] = 0]
    BY DEF SetKey, resolver, table
  <1>2. changes \in 0..MaxChanges /\ latest \in 1..(1 + changes) /\ gone \in [Keys -> Nat]
    BY DEF IInv, Types
  <1>3. /\ changes' \in 0..MaxChanges /\ latest' \in 1..(1 + changes') /\ stored' \in Keys
    BY <1>1, <1>2, CacheAssumption DEF Keys
  <1>4. gone' \in [Keys -> Nat] /\ gone'[stored'] = 0 /\ \A k \in Keys : gone'[k] <= gone[k]
    <2>1. \A k \in Keys : gone'[k] = IF k = stored' THEN 0 ELSE gone[k]
      BY <1>1, <1>2, <1>3
    <2>2. \A k \in Keys : gone[k] \in Nat
      BY <1>2
    <2> QED BY <1>1, <1>2, <1>3, <2>1, <2>2
  <1>5. Types'
    BY <1>1, <1>3, <1>4 DEF IInv, Types
  <1>6. KeyFine'
    <2>1. Young' => gone'[memo'.key] <= memo'.age + memo'.lag
      <3>1. memo.key \in Keys /\ memo.age \in Nat /\ memo.lag \in Nat
        BY DEF IInv, Types
      <3>2. gone[memo.key] \in Nat /\ gone'[memo.key] \in Nat /\ gone'[memo.key] <= gone[memo.key]
        BY <1>2, <1>4, <3>1
      <3>3. Young => gone[memo.key] <= memo.age + memo.lag
        BY DEF IInv, KeyFine
      <3> QED BY <1>1, <3>1, <3>2, <3>3 DEF Young
    <2>2. ASSUME NEW r \in Requests PROVE Reading(r)'
      <3>1. req[r].key \in Keys /\ reader.ticks \in Nat
        BY DEF IInv, Types, Served
      <3>2. gone[req[r].key] \in Nat /\ gone'[req[r].key] \in Nat
            /\ gone'[req[r].key] <= gone[req[r].key]
        BY <1>2, <1>4, <3>1
      <3>3. Reading(r)
        BY DEF IInv, KeyFine
      <3> QED BY <1>1, <3>1, <3>2, <3>3 DEF Reading
    <2> QED BY <1>4, <2>1, <2>2 DEF KeyFine
  <1>7. AllFine' /\ TableFine'
    <2>1. AllFine'
      <3>1. \A r \in Requests : Fine(req'[r])
        BY <1>1 DEF IInv, AllFine
      <3> QED BY <3>1 DEF AllFine, Fine, Answers
    <2>2. TableFine'
      BY <1>1 DEF IInv, TableFine, RowFine
    <2> QED BY <2>1, <2>2
  <1> QED BY <1>5, <1>6, <1>7 DEF IInv

\* Time passes for everything at once.
LEMMA TickOK == ASSUME IInv, Tick PROVE IInv'
  <1>1. /\ UNCHANGED <<enabled, stored, latest, req, changes>>
        /\ memo' = [memo EXCEPT !.age = Upto(@, KeyTTL + 1)]
        /\ reader' = IF reader = Nobody THEN reader ELSE [reader EXCEPT !.ticks = @ + 1]
        /\ gone' = [k \in DOMAIN gone |->
                  IF k = stored THEN 0 ELSE Upto(gone[k], KeyTTL + MaxLag)]
        /\ rows' = {[row EXCEPT !.left = IF @ > 0 THEN @ - 1 ELSE @,
                            !.age = Upto(@, EntryTTL)] : row \in rows}
    BY DEF Tick
  <1>2. /\ gone \in [Keys -> Nat] /\ stored \in Keys
        /\ memo \in [key : Keys, age : Nat, lag : Nat]
        /\ reader \in [who : Requests \cup {"nobody"}, ticks : Nat]
    BY DEF IInv, Types
  <1>3. gone' \in [Keys -> Nat] /\ gone'[stored] = 0
        /\ \A k \in Keys : gone[k] \in Nat /\ gone'[k] \in Nat /\ gone'[k] <= gone[k] + 1
    <2>1. gone' = [k \in Keys |-> IF k = stored THEN 0 ELSE Upto(gone[k], KeyTTL + MaxLag)]
      BY <1>1, <1>2
    <2>2. \A k \in Keys : gone[k] \in Nat
      BY <1>2
    <2>3. \A n \in Nat : Upto(n, KeyTTL + MaxLag) \in Nat /\ Upto(n, KeyTTL + MaxLag) <= n + 1
      BY DEF Upto
    <2>4. \A k \in Keys : gone'[k] \in Nat /\ gone'[k] <= gone[k] + 1
      BY <2>1, <2>2, <2>3
    <2>5. gone' \in [Keys -> Nat]
      BY <2>1, <2>4
    <2> QED BY <1>2, <2>1, <2>2, <2>4, <2>5
  <1>4. \A k \in Keys : gone[k] \in Nat /\ gone'[k] \in Nat /\ gone'[k] <= gone[k] + 1
    BY <1>3
  <1>5. /\ memo' \in [key : Keys, age : Nat, lag : Nat] /\ memo'.key = memo.key
        /\ memo'.lag = memo.lag /\ memo'.age = Upto(memo.age, KeyTTL + 1)
    <2>1. memo' = [memo EXCEPT !.age = Upto(memo.age, KeyTTL + 1)]
      BY <1>1
    <2>2. Upto(memo.age, KeyTTL + 1) \in Nat
      BY <1>2 DEF Upto
    <2> QED BY <1>2, <2>1, <2>2
  <1>6. reader' \in [who : Requests \cup {"nobody"}, ticks : Nat] /\ reader'.who = reader.who
        /\ (reader # Nobody => reader'.ticks = reader.ticks + 1)
    <2>1. reader' = reader \/ reader' = [reader EXCEPT !.ticks = reader.ticks + 1]
      BY <1>1
    <2>2. reader # Nobody => reader' = [reader EXCEPT !.ticks = reader.ticks + 1]
      BY <1>1
    <2>3. reader.ticks + 1 \in Nat
      BY <1>2
    <2> QED BY <1>2, <2>1, <2>2, <2>3
  <1>7. ASSUME NEW s \in rows' PROVE s \in Rows /\ RowFine(s)
    <2>1. PICK row \in rows : s = [row EXCEPT !.left = IF @ > 0 THEN @ - 1 ELSE @,
                                              !.age = Upto(@, EntryTTL)]
      BY <1>1
    <2>2. row \in Rows /\ RowFine(row)
      BY DEF IInv, Types, TableFine
    <2>3. row.left \in Int /\ row.age \in Nat
      BY <2>2 DEF Rows
    <2>4. /\ s.left = (IF row.left > 0 THEN row.left - 1 ELSE row.left)
          /\ s.age = Upto(row.age, EntryTTL)
          /\ s.outcome = row.outcome /\ s.eligible = row.eligible
      BY <2>1, <2>2 DEF Rows
    <2>5. Upto(row.age, EntryTTL) \in Nat
      BY <2>3 DEF Upto
    <2>6. s \in Rows
      <3> DEFINE l == IF row.left > 0 THEN row.left - 1 ELSE row.left
                 n == Upto(row.age, EntryTTL)
      <3>1. l \in Int
        BY <2>3
      <3>2. s = [row EXCEPT !.left = l, !.age = n]
        BY <2>1
      <3> HIDE DEF l, n
      <3> QED BY <2>2, <2>5, <3>1, <3>2 DEF Rows, n
    <2>7. EntryTTL > 0 => s.left >= 0 /\ s.age + s.left = EntryTTL
      <3>1. EntryTTL > 0 => row.left >= 0 /\ row.age + row.left = EntryTTL
        BY <2>2 DEF RowFine
      <3> QED BY <2>3, <2>4, <3>1, CacheAssumption DEF Upto
    <2> QED BY <2>2, <2>4, <2>6, <2>7 DEF RowFine
  <1>8. Types'
    BY <1>1, <1>3, <1>5, <1>6, <1>7 DEF IInv, Types
  <1>9. TableFine'
    BY <1>7 DEF TableFine, RowFine
  <1>10. AllFine'
    <2>1. \A r \in Requests : Fine(req'[r])
      BY <1>1 DEF IInv, AllFine
    <2> QED BY <2>1 DEF AllFine, Fine, Answers
  <1>11. Young' => gone'[memo'.key] <= memo'.age + memo'.lag
    <2>1. memo.key \in Keys /\ memo.age \in Nat /\ memo.lag \in Nat
      BY <1>2
    <2>2. gone[memo.key] \in Nat /\ gone'[memo.key] \in Nat /\ gone'[memo.key] <= gone[memo.key] + 1
      BY <1>4, <2>1
    <2>3. memo.age < KeyTTL => gone[memo.key] <= memo.age + memo.lag
      BY DEF IInv, KeyFine, Young
    <2>4. Young' => memo.age < KeyTTL /\ memo'.age = memo.age + 1
      BY <1>5, <2>1, CacheAssumption DEF Young, Upto
    <2>5. memo'.key = memo.key /\ memo'.lag = memo.lag
      BY <1>5
    <2> QED BY <2>1, <2>2, <2>3, <2>4, <2>5
  <1>12. ASSUME NEW r \in Requests PROVE Reading(r)'
    <2>1. req[r].key \in Keys /\ reader.ticks \in Nat
      BY <1>2 DEF IInv, Types, Served
    <2>2. gone[req[r].key] \in Nat /\ gone'[req[r].key] \in Nat
          /\ gone'[req[r].key] <= gone[req[r].key] + 1
      BY <1>4, <2>1
    <2>3. Reading(r)
      BY DEF IInv, KeyFine
    <2>4. reader = Nobody => reader.who # r
      BY CacheAssumption DEF Nobody
    <2>5. req' = req
      BY <1>1
    <2>6. reader'.who = reader.who /\ (reader # Nobody => reader'.ticks = reader.ticks + 1)
      BY <1>6
    <2> QED BY <2>1, <2>2, <2>3, <2>4, <2>5, <2>6 DEF Reading
  <1> QED BY <1>1, <1>3, <1>8, <1>9, <1>10, <1>11, <1>12 DEF IInv, KeyFine

\* The process starts again with an empty memo and no requests.
LEMMA RestartOK == ASSUME IInv, Restart PROVE IInv'
  <1>1. /\ UNCHANGED <<enabled, stored, latest, gone, rows>> /\ changes < MaxChanges
        /\ changes' = changes + 1 /\ memo' = NotLoaded /\ reader' = Nobody
        /\ req' = [r \in Requests |-> Idle]
    BY DEF Restart, keys
  <1>2. changes' \in 0..MaxChanges /\ latest' \in 1..(1 + changes')
    BY <1>1, CacheAssumption DEF IInv, Types
  <1>3. memo' \in [key : Keys, age : Nat, lag : Nat] /\ memo'.age = KeyTTL + 1
    <2>1. 0 \in Keys
      BY CacheAssumption DEF Keys
    <2> QED BY <1>1, <2>1, CacheAssumption DEF NotLoaded
  <1>4. reader' \in [who : Requests \cup {"nobody"}, ticks : Nat]
    BY <1>1 DEF Nobody
  <1>5. req' \in [Requests -> Served] /\ \A r \in Requests : req'[r] = Idle
    BY <1>1, IdleFine
  <1>6. Types'
    BY <1>1, <1>2, <1>3, <1>4, <1>5 DEF IInv, Types
  <1>7. ~Young'
    BY <1>3, CacheAssumption DEF Young
  <1>8. KeyFine'
    BY <1>1, <1>5, <1>7, IdleFine DEF IInv, KeyFine, Reading
  <1>9. AllFine'
    <2>1. \A r \in Requests : Fine(req'[r])
      BY <1>5, IdleFine
    <2> QED BY <2>1 DEF AllFine, Fine, Answers
  <1>10. TableFine'
    BY <1>1 DEF IInv, TableFine, RowFine
  <1> QED BY <1>6, <1>8, <1>9, <1>10 DEF IInv

\* The invariant holds throughout.
THEOREM CacheInOrder == Spec => []IInv
  <1>1. IInv /\ [Next]_vars => IInv'
    <2> SUFFICES ASSUME IInv, [Next]_vars PROVE IInv'
      OBVIOUS
    <2>1. CASE UNCHANGED vars
      <3>1. UNCHANGED <<enabled, stored, latest, gone, memo, reader, rows, req, changes>>
        BY <2>1 DEF vars, keys, resolver, table
      <3>2. Types'
        BY <3>1 DEF IInv, Types
      <3>3. TableFine'
        BY <3>1 DEF IInv, TableFine, RowFine
      <3>4. AllFine'
        <4>1. \A r \in Requests : Fine(req'[r])
          BY <3>1 DEF IInv, AllFine
        <4> QED BY <4>1 DEF AllFine, Fine, Answers
      <3>5. KeyFine'
        BY <3>1 DEF IInv, KeyFine, Young, Reading
      <3> QED BY <3>2, <3>3, <3>4, <3>5 DEF IInv
    <2> QED BY <2>1, ArriveOK, RecallOK, ReadKeyOK, MemoiseOK, EmbedOK, QueryOK, ReplayOK,
               UpstreamOK, StoreOK, InsertOK, PruneOK, SetKeyOK, TickOK, RestartOK DEF Next
  <1> QED BY InitIInv, <1>1, PTL DEF Spec

\* A completion is replayed only to a request it may answer: the same model, a
\* prompt as close as the threshold asks, within CACHE_TTL, whole, and stored
\* and asked for by requests that may be cached (Lookup and storeInCache).
THEOREM SoundReplays == Spec => []ReplaysAreSound
  <1>1. IInv => ReplaysAreSound
    BY DEF IInv, AllFine, Fine, Answers, ReplaysAreSound
  <1> QED BY CacheInOrder, <1>1, PTL

\* No caller gets both a replay and an upstream's answer, and exactly the
\* replays are metered as hits (serveFromCache).
THEOREM OneAnswerEach == Spec => []ServedOnce
  <1>1. ASSUME IInv, NEW r \in Requests
        PROVE  Cardinality(req[r].from) =< 1 /\ req[r].metered = Cardinality(req[r].replayed)
    <2>1. Fine(req[r])
      BY <1>1 DEF IInv, AllFine
    <2>2. req[r].from = {} \/ req[r].from = {"upstream"}
      BY <2>1 DEF Fine
    <2>3. Cardinality({}) = 0 /\ \A x : Cardinality({x}) = 1
      BY FS_EmptySet, FS_Singleton
    <2>4. Cardinality(req[r].from) =< 1
      BY <2>2, <2>3
    <2>5. req[r].metered = Cardinality(req[r].replayed)
      BY <2>1, <2>3 DEF Fine
    <2> QED BY <2>4, <2>5
  <1>2. IInv => ServedOnce
    BY <1>1 DEF ServedOnce
  <1> QED BY CacheInOrder, <1>2, PTL

\* A key that was replaced or deleted is used for less than providerKeyTTL
\* longer, apart from the time the read of it took (providerKeyResolver.get).
THEOREM KeysTakeEffect == Spec => []KeyTakesEffect
  <1>1. IInv => KeyTakesEffect
    BY DEF IInv, AllFine, Fine, KeyTakesEffect
  <1> QED BY CacheInOrder, <1>1, PTL
=============================================================================
