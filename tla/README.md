# codeRoute, verified

codeRoute is a gateway in Go: it takes OpenAI-style chat requests, decides which
models at which providers could serve them, and walks that list until one
answers. This directory holds TLA+ models of the parts that decide what happens
to a request and of the state they share, the TLC runs that check them on small
instances, and TLAPS proofs for every instance. `PROJECT.json` maps each
definition to the lines it models.

    tlc -workers 2 -config AttemptChain.cfg MCAttemptChain     # one run
    tlapm AttemptChainProofs.tla                               # one module's proofs

## 1. The system

| Component | State it keeps | Operations | What makes it correct |
|---|---|---|---|
| Walk: `gateway.attemptChain`, `attempt` | breakers, bench, live view, usage rows; per request: plan, position, failures, whether text was sent | skip in cooldown, admit, call, charge or bench, log, answer, give up, cut off | no caller reads two answers spliced; an error means everything was tried; a refusal does not take a provider out; every request ends |
| Planning: `gateway.plan`, `routing.Catalog` | curated and discovered models, confirmations, marks, vetoes, switch | named, ranked, free, discovered and fallback candidates; veto; cap | plans can be called; free-only never pays; naming a model gets that model; the cap starves no provider |
| Operator settings: `api/tags.go`, `api/blacklist.go`, `api/dashboard.go` | `model_tags`, `model_blacklist`, the `free_only` row of `config`, and the copies in memory | write, read back, set; load at start | memory and database agree; a confirmed change holds, across restarts |
| Provider access: `api/providers.go`, `gateway/discovery.go`, `gateway/probe.go` | `provider_keys`, `discovered_models`, `model_probes`, and the lists, confirmations and bench in memory | set and delete key, refresh, sweep, load at start | nothing of a deleted key stays; "confirmed" is evidence; an outage empties no list; recovery of what sweeps try is noticed |
| Accounts: `api/auth.go`, `api/users.go`, `db/users.go`, `db/sessions.go` | users, sessions, sign-in throttle | sign in and out, change password, create, disable, enable, bootstrap, sweep | guessing is bounded; of the accounts there are one can sign in; a disabled account's sessions are over |
| Client keys: `db/keys.go`, `api/handler.go` | hashed keys | create, validate, revoke, reveal | a revoked key is refused |
| Semantic cache: `cache/semantic.go`, `gateway/cache.go`, `providerKeyResolver` | stored answers with embeddings and expiry, the time of the last prune, a key remembered for 30 s | look up, replay, store, prune | only sound and fresh answers to like requests are replayed; a caller gets one answer; a new key takes effect |
| Responses API: `api/responses.go`, `api/responses_stream.go` | per stream: open items, tool calls, sequence numbers | translate items into messages, chunks into events | a stream is framed correctly and says what the provider said, the same as without streaming |
| Provider adapters: `provider/*.go` | per stream: role sent, tool indexes | render requests, decode answers and streams | nothing of a conversation is lost; each dialect's rules are kept |
| IoT bridge: `iot/*.go` | MQTT session and subscriptions, devices, telemetry | connect, subscribe, ingest, infer on the edge or through the gateway, publish | traffic of a device the topic names stays its own; a device is told when its request failed |
| Migrations: `db/migrate.go` | schema version | apply the missing ones in order | |
| Dashboard, playground, analytics, configuration | none of their own | read and render | |

**How they meet.** A handler authenticates a client key and calls the gateway.
The gateway plans from the catalogue (which operator settings, discovery and
probing change underneath it) and walks the plan, reading and writing breakers
and bench that all requests share. Refused calls and probes write the bench; key
changes clear it. The catalogue is a copy of database tables that handlers,
tickers and the start of the process refresh independently. In front of the walk is the cache, behind it the adapters; the Responses
endpoint wraps both in a translation of its own, and the IoT bridge is one more
caller. Each structure has its own mutex; none is held across two of them, nor
across an upstream call, and only the key resolver's is held across a statement.

**What is hard.** Concurrent walks over shared breakers and bench; callers who
hang up in the middle of anything; write, read back, set sequences of two
handlers that interleave; sweeps and refreshes that outlive the key they began
under; statements that fail half-way; restarts between two writes; results that
age; streams whose text and tool calls come in pieces, interleaved, in three
dialects, and stop half-way; conversations replayed over many turns; counts,
checks and password verifications that are outdated when they are acted on; a
session that is lost while a message is being served. `PROJECT.json` lists each under `hazards`, at its line.

## 2. Modules

| Module | Models | Extends or uses |
|---|---|---|
| `Failover` | the promise to one caller, with everything about how it is kept left out | |
| `AttemptChain` | the walk, with breakers, bench, live view and usage rows | INSTANCEs `Failover` |
| `AttemptChainProofs` | theorems about it | `AttemptChain` |
| `Planning` | plans as a function of catalogue, keys, bench, marks, vetoes and switch, which change step by step | |
| `PlanningProofs` | theorems about it | `Planning` |
| `OperatorSettings` | handlers that change lists and the switch | |
| `ProviderAccess` | one provider's key, lists, probe results and bench, and those who change them | |
| `ProviderAccessProofs` | theorems about it | `ProviderAccess` |
| `ResponsesStream` | one streamed answer: provider, decoder of its dialect, failover, framing into events | |
| `Translation` | a conversation's items as chat messages and as requests of the native dialects; operators only | |
| `AgentTurns` | a client that holds a conversation, turn by turn | composes `ResponsesStream` and `Translation` |
| `ResponsesStreamProofs` | theorems about the stream, alone and turn by turn | `AgentTurns` |
| `AgentTurnsProofs` | theorems about what the client replays | `ResponsesStreamProofs` |
| `SignIn` | accounts, sessions, throttle | |
| `SignInProofs` | theorems about it | `SignIn` |
| `SemanticCache` | cache, its table and the key resolver, around the walk | |
| `SemanticCacheProofs` | theorems about it | `SemanticCache` |
| `IotBridge` | MQTT session, callback, HTTP twins, tables | |
| `SettingsAndBridgeProofs` | theorems about the one and about the other, which share nothing | `OperatorSettings`, `IotBridge` |
| `MC...` | instances for TLC | the module named |

### AttemptChain

`pc[r]` is where request `r`'s goroutine is in the loop of `attemptChain`. Each
action is one critical section or one call: `Route` plans, `SkipInCooldown` and
`Admit` are the two results of `allow`, `Begin` and `EndLive` the live view's two
critical sections, `Chunk` one call of the wrapped `emit`, `Return` the upstream's
end, `RecordSuccess`, `RecordFailure`, `BenchRefused` and `BenchPool` what the
result does to shared state, one lock at a time, `Answer`, `MoveOn`, `Exhausted`
the exits. `Disconnect` is the caller hanging up, at any point. Time is reduced
to what `allow` and `benched` see of it: a cooldown or a bench entry may lapse
whenever it is there. Usage rows are counted against the failures noted: `Asked`
is who was called, and the rows are of exactly those. An `INSERT` of a row that
fails is only logged by the code, and left out. Plans are a constant, so the
results hold for whatever planning yields. The cache in front of the walk is left out: a hit never gets
here.

`Failover` says only: a request gets a plan, gives up slots, commits to one by
showing its text, and is answered by a slot, refused when every slot was given
up, or cut off by the slot it committed to. `ImplementsFailover` is the
refinement, with the status computed from `pc` and `outcome`.

### Planning

`Plan(ask)` is the whole of `gateway.plan` as operators named after the functions
they model. Scores are floating-point in the code and only ever compared, so the
orders they induce are constants (`Score`, `Fitness`, `NameOrder`). The state is
what plans are computed from; actions change one item at a time, up to `Edits`
away from the initial deployment, and every invariant quantifies over the plans
of all kinds of request in the state reached.

A named model is looked up in any case (`Lower`, `SameModel`) and keeps the
catalogue's spelling, but a pinned one keeps the caller's, and bench,
confirmations, marks and vetoes go by the spelling. Deleting a key and forgetting
its list are two steps (`DeleteKey`, `ForgetDiscovered`), and a list may be
stored when the key is gone (`SetDiscovered`).

The loops and sorts of the code are written by places: `Arrange` puts each element
where the number of those that do not come after it says, and `SortBy`, `Keep`,
`Concat` and `Deal` (the rounds of `pickOnePerProvider`) differ in the order they
count by. What they return is then a matter of counting, which can be proved,
where a fold would need induction over the sequence.

### OperatorSettings

Handlers write a row, read the table back and set the copy in memory, as three
steps; the switch is checked, stored and set. Statements fail, callers leave
between steps, and the process restarts, with any of its loads failing. A change
is of one row. `SetModelTags` replaces all rows of a model in a transaction of the
default isolation, so two of them side by side may miss what the other inserts
and leave the union; with one row that is one of the two orders, and the case of
several rows is left out (`AgreeWhenCalm` and `ConfirmedSurvives` speak of handlers
that did not overlap, and a union is a content the table has had, which is all
that `NeverAMixture` asks for). History
variables: `calm`, per setting: no two handlers overlapped and nothing failed
since the start; `past`: the contents the table has had;
`told`: confirmed changes nobody has touched since.

### ProviderAccess

One provider. Procs are goroutines that run one operation at a time: setting or
deleting the key, a refresh, a sweep, a call; `Ticker` is the goroutine of
`StartProbing`. `mine` is the key an operation began with, which may be outdated
when its result lands. `RefreshProvider` reads the keys (`Reread`) and, where there
is none, forgets list, rows and probe results in three steps, any of which may
come after another handler stored a key and adopted its list. A sweep reads the
keys (`StartSweep`) and then takes its targets from the lists of that moment
(`Aim`): every free listed model in free-only mode, otherwise `PerSweep` of the
listed, and the marked ones in either; which of the listed head the ranking is
left open, so a model beyond `PerSweep` may be left out for ever. `up` is what the
provider would answer and `freeOnly` the switch, and both change at any time.

History variables: `calm` (no operation has overlapped another or failed),
`answered` (models that ever answered a probe, under whichever key), `under` (the
key a probe row or bench entry is due to, kept while calm), `overtaken` (goroutines
that forget for want of a key although one has been stored since they looked).
An operation of another provider touches this one's state only by clearing the
bench (`Lapses`) and by reloading confirmations (`Aim` without targets here).

### ResponsesStream, Translation, AgentTurns

`ResponsesStream` follows one streamed call. The provider says text and tool calls
as numbered fragments (`Say`, `Number`, `Opens` and `Sensible` bound what a
provider may do; they are external); one action per kind of chunk decodes it the
way the dialect's `DecodeStream` does (`OpenAIChunk`, also for providers that send
no index, `GoogleChunk`, and Anthropic's events `TextBlock`, `ToolBlock`,
`BlockDelta`, `MessageDelta`) and leaves pieces in `pending`. `consume` takes them
one by one (`ConsumeBegin`, `AppendText`, `AppendToolCall`); `FinishOpen`,
`CloseText`, `CloseCall`, `Complete` are `finish`, and `Fail` is `fail`.
`UpstreamFails` moves to another provider while nothing was sent. `events` is what
the client received. `ResponsesFromChat` is the answer without streaming.

`Translation` has `responsesMessages`, `SystemAndTurns` and the message part of both
native `BuildRequest`s as folds, a text being the sequence of its tokens.

`AgentTurns` puts the two together. The client (external) says something, asks,
keeps the output of a completed response, returns the results of its calls in any
order, and asks again with the whole conversation. What a stream was turned into
in one turn is thereby what is translated in the next.

### SignIn

`conn[c]` is the request a connection is serving; its `pc` walks the critical
sections and statements of `handleLogin` (`Check` per key, `Authenticate`, `Fail`
or `Succeed` per key, `CreateSession`), of `adminUpdateUser` (`CountActive`,
`SetUserDisabled`, `SetPassword`) and of `handleChangePassword` (`Verify`). Any
statement may fail. `Bootstrapped` is the set of what `bootstrapAdminUser` may leave:
the first account, or nothing at all (the count or the `INSERT` fails, the variables
are unset or the password is refused), which `main` survives. History variables: `epoch` (how often an account was
disabled), `charged` (wrong answers since an identity's record began or its lock
ended) and `raced` (an account was disabled on a count that no longer held).

### SemanticCache

A request goes `resolve`, `memoise`, `embed`, `query` and either `replay` or
`upstream`, `answered`, then `resolve` and `embed` again to `insert`, `prune`. The
resolver's mutex is `reader`: it is held while the key is read, which may take
ticks. `gone` and `lag` measure how outdated a key is when it is used. `Upstream`
is the whole walk, reduced to how it ended.

### IotBridge

`Callback` is the goroutine of the MQTT client that runs callbacks one at a time,
`Callers` are HTTP requests; both run `IngestTelemetry` or `Infer`,
`EdgeInference`, `Complete`, and end in `PublishResponse` or `RespondHTTP`. The
client library and broker are external: a lost session takes subscriptions and
undelivered messages with it, messages may be repeated. A topic with an empty
device level is subscribed to like any other; `DeviceOf` then believes the payload
(`Nameless` is the empty id), and the tables refuse an id that is empty there too.
A publication that times out while the session is up is left out. `cutOff` notes the
requests that were being served when the session went.

## 3. Runs

| Run | Instance | States | Shows |
|---|---|---|---|
| `attempt_chain` | 2 requests, 2 providers, 2 models, trip count 2 | 1,281,144 | `NoSplice`, `EveryCandidateFailed`, `PermanentMeansRefused`, `LiveIsExact`, `MeteredOnce`, `RefusedSitOut`, `RefusalsNeverTrip`, and `ImplementsFailover` |
| `attempt_chain_live` | 2 requests, plans over two providers | 386,945 | `RequestsFinish` |
| `planning` | 2 providers, 7 requests of 6 kinds, 3 configurations, 3 edits | 32,934 | `PlansAreCallable`, `FreeOnlyNeverPays`, `NamedMeansNamed`, `ProvidersTakeTurns`, `AutoIsRoutable`, `ConfirmedFirst`, `MarksNeverMix` |
| `operator_settings` | 2 handlers, 1 list of 2 entries, the switch | 372,600 | `AgreeWhenCalm`, `NeverAMixture`, `ConfirmedSurvives` |
| `provider_access` | ticker and 2 handlers, 1 model, 2 keys, 3 starts | 1,444,468 | `NothingDrifts`, `ConfirmedHasAnswered`, `NewKeyStartsClean`, `OutageKeepsModels` |
| `provider_access_live` | ticker and 1 handler, 2 models (one marked, one free), 1 sampled, 1 new key, 1 start | 405,320 | `RecoveryIsNoticed` |
| `agent_turns` | 4 dialects, 2 candidates, 3 fragments, 2 calls, 2 turns | 633,753 | `Framed`, `DeltasAreWhatWasSaid`, `StreamedAsWhole`, `DialectRulesKept`, `NothingLost` |
| `sign_in` | 2 accounts, 1 address, 2 connections, 4 requests, limit 2 | 2,260,514 | `GuessesBounded`, `NeverAllDisabled`, `SessionsEndWithAccount` |
| `semantic_cache` | 2 concurrent requests, 3 in all, 2 models, 2 prompts, 1 key change or restart | 2,488,814 | `ReplaysAreSound`, `ServedOnce`, `KeyTakesEffect` |
| `iot_bridge` | 2 devices, 1 HTTP caller, 2 messages, 1 loss, 1 repeat | 1,288,540 | `EachItsOwn`, `NotLeftWaiting` |

`attempt_chain`, `operator_settings` and `provider_access` also check their module's
`TypeOK`. What the properties say is written above each in its module.

**Bounds.** Two requests are enough for every pairwise race on breakers, bench
and live view, and the instance's plans hold each case the code tells apart: one
provider twice, two providers, a free pool, an empty plan. Trip count 2 separates
the first failure from the one that trips. In `planning` no rule looks at more than two providers, and three
edits combine any three of key, list, bench, mark, veto and confirmation, in both
positions of the switch; one model is asked for in two spellings.
Two handlers are what it takes for a stale read to overtake a write. In
`provider_access`, `MaxKey` 2 makes an old and a new key; `Starts` 3 lets a key be
set, then replaced or deleted, with one more operation, failure, hang-up or restart among them, beside
sweeps, changes and lapses without bound. In `provider_access_live` two models are
listed and one is sampled, so sweeps do leave models out: the marked model is in
every sweep, the free one in all those of free-only mode, and either may be
sampled. In `agent_turns` three fragments and two
calls make every interleaving of text with the pieces of two parallel calls, with a
chunk that carries two of them; the second turn translates what the first
produced, with one item of the client's own in between. In `sign_in` four requests are one more than
the three (fail, fail, succeed meanwhile; or disable, sign in, enable) the
boundary cases take; a limit of 2 and a window and a lock of one tick put every
boundary next to every step. In `semantic_cache` three requests are a store, a
second store or a lookup that races it, and a replay; one tick ages an entry out,
two the key. In `iot_bridge` two messages or requests overlap, one message is
repeated and one session lost. `TypeOK` excepted, no invariant mentions a
bound.

**Fairness.** `attempt_chain_live` assumes that each goroutine's own next step is
eventually taken: goroutines are scheduled and every upstream call has a deadline
(`RequestTimeout`). Nothing is assumed of the environment: cooldowns and bench
entries need never lapse, callers need not leave. `Chunk` is no progress, so a
stream's deadline is what ends it. `provider_access_live` assumes the same of
each operation (probes time out after 30 s, saves after 15 s or 30 s) and that
the ticker of `StartProbing` goes on firing; handlers need never be called.
`iot_bridge` assumes that the callback goes on once it has begun: the edge call,
the gateway and the publication have deadlines and its context two minutes.
Nothing is assumed of session, broker, devices or HTTP callers.

**Disagreements.** These runs end in a violation, and show where a comment or the
README says something else than the code does. `findings` quotes both.

| Run | Says | Does |
|---|---|---|
| `single_probe` | one request probes a provider after its cooldown | every request that arrives before an answer is let through |
| `cooldown_means_fault` | the breaker is about provider health | callers hanging up are charged to the provider |

Others were met while modelling. The models have the behaviour, and their
properties are stated so that they hold with it:

- In free-only mode confirmation is a filter: once anything is confirmed, of whatever
  price, only confirmed models are in a plan (`ConfirmedOnly`, `available`, and so
  `FreeOnlyNeverPays`), and a request may be left with none. The repository's README
  (`src/README.md:216-217`) says "Confirmed working is a preference, not a filter"
  and that an unprobed model stays in the chain, which holds outside that mode only.
- A veto is of one spelling: a pinned request for the same model in another case is
  not kept from it (`PlansAreCallable`), where `gateway.go` says "a blacklist is a veto".
- A mark on a model outside the pool being ranked is ignored (`TaggedFor` returns
  nil for both), where the repository's README says that only marked models are used.
- A veto is applied after the rounds are dealt out, so a vetoed first choice costs
  its vendor the round (`ProvidersTakeTurns` promises alternation where nothing is vetoed).
- A slower handler's stale list may overwrite a confirmed change (`AgreeWhenCalm`
  is about handlers that did not overlap).
- A key change deletes probe rows, and the confirmations in memory stay until the
  next sweep.
- `RefreshProvider` reads the keys and then forgets. A refresh that found no key, and
  is overtaken by a handler that stores one and adopts its models, empties the list of
  a working key until the next refresh (`overtaken` in `OutageKeepsModels`).
- Outside free-only mode a model beyond `ProbeModelsPerProvider` that nobody marked may
  never be probed again, so neither its recovery nor its failure need be noticed
  (`Watched` in `RecoveryIsNoticed`).
- Two requests that disable the last two accounts at once both succeed (`raced` in
  `NeverAllDisabled`); the repository's README says the last
  account that can sign in cannot be disabled.
- `bootstrapAdminUser` creates an account "so a fresh deployment has a way in", or
  fails to, and the gateway serves all the same: `NeverAllDisabled` speaks of
  deployments that have accounts.
- A sign-in that checked its password before the account was disabled inserts its
  session after; the session is refused while the account is disabled and accepted
  when it is enabled again (`overtaken` in `SessionsEndWithAccount`).
- A key read that takes longer keeps a replaced key in use that much longer (`lag`
  in `KeyTakesEffect`).
- "The topic is authoritative: a device cannot claim to be another", except on a topic
  whose device level is empty, where the payload's own id is believed (`EachItsOwn`).
- A subscription that fails is logged and left: the session is up and nothing is
  heard until it is lost.
- An Anthropic call without arguments has `""` as its arguments when streamed and
  `{}` when not (`StreamedAsWhole` compares up to that).
- A stream that ends without an error and without its terminator counts as
  complete and is cached; a cached answer is always replayed with the finish
  reason `stop`.

## 4. Proofs

For every set of requests, providers and models, any plans and any trip count
above zero (`AttemptChainProofs`):

- `Walk`: the inductive invariant `IInv`, `TypeOK` and `WalkOK(r)` for each
  request. `WalkOK` says that the position is in the plan while the walk goes on,
  that failures noted are one for each candidate passed, that `sent` and `source`
  mention the current candidate only, and what each outcome implies of the two. None of the safety properties
  is inductive by itself: `NoSplice` needs that text of an earlier candidate
  ended the walk, which only `sent`, its reset and the position together say.
- `TypeCorrect`, `NeverSpliced`, `ErrorsAreComplete`: consequences; `LiveExact`, by
  an induction of its own over the two stages between `Begin` and `EndLive`.
- `Metered`, `PermanentIsEarned`: from `Ledger`, which is inductive given `IInv`. It
  says how rows lie relative to the position (all are errors of earlier candidates
  until the walk ends) and that every failure other than a cooldown has its row. A
  summary is made of failures only; that each of them was a call is what the rows
  remember. That they are the rows of exactly those who were asked (`RowsGivenUp`)
  follows from both.
- `RefusedAreBenched`: from `SetAside`, which follows a refusal through the steps
  between the answer and the bench: what is still to be benched (`PendingOK`), and
  what a failure already noted has put there or has lapsed since (`NotedOK`).
- `OnlyFaultsTrip`: the action property, action by action.
- `Implementation`: `Spec => Failover`'s specification, by initial states and one
  case per action, with `IInv` as the invariant of the simulation.

For any catalogue, orders of models, configurations and requests, and any number
of edits (`PlanningProofs`):

- The state needs little: `StateOK` says that only offered profiles are listed and
  that depth and cap are numbers. The theorems are about the operators.
- `Counts` and `Arranged`: counting along a total order gives the places
  1 to n, each once (an injection between finite sets of one size), so `Arrange`
  loses and repeats nothing and keeps the order counted by. What each filter, sort
  and concatenation of the code returns follows, one lemma each.
- `CallablePlans`, `FreeMeansFree`, `MarksAreAllOrNothing`: by the path that made the
  plan, from what the lemmas say is in it.
- `TurnsAreTaken`, `AutoHasAPlan`, `ConfirmedComeFirst`: from `Fair`, which says of
  a chain and the list it was dealt from that each provider on the list is there,
  that no provider returns before all have come, that each provider's models keep
  their order and that the first is the list's first. `CutFair` proves it of the deal cut at
  `limit`: the first round has as many places as there are providers, so a cut that
  is no shorter leaves it whole.
- `NamedIsHonoured`: the first occurrences among the caller's own places and the
  fallbacks, less the vetoed; those of the caller's own places are kept first and
  leave no gap (`NoGap`), so they fill exactly as many places as there are
  such candidates.

For any handlers, lists and entries (`SettingsAndBridgeProofs`):

- `Settled`: the inductive invariant. A calm setting has one handler at most
  (`OneAtATime`), what that handler read is what is stored (`HoldsStored`), what
  any handler read was stored once (`HoldsPast`), and at rest memory is the table
  (`AgreeAtRest`); the conjuncts on `told` carry confirmations through a handler's
  steps.
- `NoDrift`, `NoMixture`, `ConfirmedStays`, `SettingsTyped`: consequences.

For any models, goroutines, keys and operations (`ProviderAccessProofs`):

- `TypeCorrect`: types, operation by operation.
- `ConfirmationIsEvidence`: from `Evidence`. A confirmation passes through four
  places (what a sweep found, the row, the list read back, memory), and each may
  outlive the operation that put it there; the invariant is that all four hold only
  models that answered.
- `OutagesKeepModels`: the action property, from `Offered` (a list on its way into the
  catalogue is not empty) and `Warrants` (who is forgetting either has no key stored
  against it, or was overtaken).
- `NothingDriftsApart`, `NewKeysStartClean`: from `Calm`: while nothing has overlapped
  or failed, at most one operation is under way, and what tables and memory may
  hold is fixed by how far that operation has come.

For any dialects, candidates, fragments, calls and blocks (`ResponsesStreamProofs`):

- `OneStream`: `Framed` of a stream; `EveryStream`: of each stream of `AgentTurns`'
  client, whose turns start the stream anew. `Framed` counts and quantifies over
  the whole log, and a step sends up to three events, so the proof splits it:
  `LogOK` can be kept one event at a time (one lemma per kind of event), and
  `StreamOK` ties the log to the bookkeeping of `responsesStream` (which item is
  the text's, which a call's, in which order they were added, which are closed,
  and where `finish` is). That an item is done once needs the position in `finish`; that
  deltas belong to open items needs that no item is closed before it.
- `OneStreamSaysWhatWasSaid`, `EveryStreamSaysWhatWasSaid`: `DeltasAreWhatWasSaid`.
  `LogSays`: the deltas of an item add up to what `responsesStream` holds of it;
  `SaidOK`: what the provider said is what is held and what is still in the chunks
  to be consumed, item by item; `DecoderOK`: the decoder numbers calls in the order
  they begin, in each dialect. They are
  inductive together, given `StreamOK`.
- `OneStreamAsWhole`, `EveryStreamAsWhole`: `StreamedAsWhole`. `FinishOK` adds what
  `finish` has sent and put in the output so far: items closed in the order they
  were added, each with what is held of it.

For any number of turns, items, calls and results (`AgentTurnsProofs`):

- `NothingIsLost`, `DialectRulesAreKept`: `NothingLost` and `DialectRulesKept`, from
  `ClientOK`: items are well-shaped, ids are places of the conversation, nothing is
  outstanding while a request is under way, and (unless an item is malformed, and the request
  refused) in the chat messages each one that calls is followed by its results,
  except that one may still be open: its results so far end the list, and those
  outstanding are its other calls. Only the exact count, calls less results, tells that
  the message is complete when nothing is outstanding. That an answer leaves this
  true needs `FinishOK`: a message comes first in the output or not at all, so the
  calls of a turn join one chat message. Then each loop (`AddItem`, `AddTurn`,
  `JoinRole`) is shown to keep words and ids in order and a call with its results;
  roles alternate because `JoinRole` joins them.

For any accounts, addresses, connections, limits and lifetimes (`SignInProofs`):

- `Accounted`: the inductive invariant, types and `Counted`: a request that has
  passed the count and is about to disable an account saw more than one active,
  unless `ADMIN_TOKEN` is set. `NeverAllDisabled` needs it, because the step that
  disables looks at nothing but what its request remembers.
- `LastAccountStays`, `SessionsEnd`: consequences.
- `GuessesAreBounded`: from `Counts`, inductive given `IInv`. A sign-in that passed the check
  is a wrong answer to come, so the invariant bounds the answers charged and those
  to come together: by the record's own count while it is young, by the limit and
  the other connections once it is locked. A success in between, an expired window
  and the end of a lock each start the count anew with connections still past the
  check, which is why the bound has one more for each other connection.

The sets of accounts and connections are assumed finite, for their cardinalities,
and there is some address.

For any requests, models, prompts, similarity, threshold and lifetimes
(`SemanticCacheProofs`):

- `CacheInOrder`: the inductive invariant. Rows are whole answers to requests that
  may be cached, and age and remaining life add up to the TTL (`TableFine`); a
  request's fields fit the place it is at (`Fine`); and however long a read of the
  key takes, the key read, remembered or used is out of date by less than the
  lifetime and the read (`KeyFine`).
- `SoundReplays`, `OneAnswerEach`, `KeysTakeEffect`: consequences.

For any devices, callers, messages and faults (`SettingsAndBridgeProofs`):

- `TrafficStaysOwn`: `EachItsOwn`, from the invariant that a task is taken for the
  device its topic names and carries its worker's key (`OwnTasks`): answers, readings
  and bills are made from tasks, steps after the message is gone.

The assumptions are the named `ASSUME`s of the modules, which TLC evaluates in
each run. TLC checked the strengthened invariants on the instances of section 3
before they were proved.

Left to TLC:

- `RequestsFinish`, `RecoveryIsNoticed`, `NotLeftWaiting`: liveness under fairness.

Every invariant and every action property that a passing run checks is
stated by a theorem. What the loops of `Planning` and `Translation` compute is
written as a function of how far the loop has come; what holds at each place is
proved by refuting the least place at which it fails (`Least`, `LeastOf`), since
the library's induction theorems take an operator, which the provers cannot
instantiate.

## 5. Not modelled

- Scoring and suitability: floating-point weights and keyword tables, stateless;
  `Planning` takes the orders they induce as parameters, and with them the latency
  and reliability feedback that changes them.
- Dashboard views, playground, analytics, listings: read and render.
- Client keys: single statements on single rows, nothing in memory. `IOT_API_KEY`
  is validated once, at start; after that its revocation has no effect on MQTT
  traffic until a restart.
- Migrations: before anything else starts, each in one transaction. Two servers
  starting at once is listed as a hazard.
- Parsing of the environment, encryption, hashing, cookies, password and address
  rules, JSON syntax, HTTP headers and endpoints.

Within the modules: usage numbers and cache counters; more than one choice per
chunk; errors of writing to a client that has gone, which `send` ignores;
declarations of tools and the choice among them; a call's id and name arrive
together; providers that send no index send all calls in one delta; call ids are
unique in a conversation; readings and their listing order; replacements of
several marks of one model at once; publications that time out.
