------------------------------ MODULE Planning ------------------------------
(***************************************************************************)
(* How the gateway makes a plan: internal/gateway/gateway.go from plan to  *)
(* filterToKeyed, on the catalogue of internal/routing/smart.go.  The      *)
(* state is everything a plan depends on and the program may change while  *)
(* it runs (stored keys, discovered lists, bench, marks, confirmations,    *)
(* blacklist, the free-only switch); Plan is a pure operator of that state *)
(* and of the request, and the properties speak of the plan every request  *)
(* would get in every state.                                               *)
(*                                                                         *)
(* Scores are abstracted to the orders they induce (Score for the curated  *)
(* catalogue, Fitness for pools of any origin), so the objective of a      *)
(* sentinel is part of the order; names compare by NameOrder.              *)
(***************************************************************************)
EXTENDS Naturals, SequencesExt

CONSTANTS Providers, Models, Tasks,
          Lower,       \* strings.ToLower of a model's name
          Curated,     \* the hand-written profiles, in catalogue order
          Offers,      \* every profile discovery may report, by name
          Asks,        \* the requests to plan for
          Score,       \* Score[task][candidate]: the order of Rank
          Fitness,     \* Fitness[task][candidate]: the order of RankForTask
          NameOrder,   \* NameOrder[candidate]: by provider, then by model
          Special,     \* the models whose name says they do not chat
          Native,      \* nativeProviderFor: a set of <<model, provider>>
          Fallbacks,   \* config.FallbackModels
          DefaultModel,
          Configs,     \* the configurations to start with
          Edits        \* bound: how far the state may be from the first one

Candidate == [provider : Providers, model : Models]
Profile   == [provider : Providers, model : Models, cost : Nat,
              known : BOOLEAN, tasks : SUBSET Tasks]

\* What a request says: a sentinel (auto, auto:free, or one that names its
\* task), no model at all, a model, or a model pinned to a provider.  The
\* task is the one DetectTask reads in the prompt, or the sentinel's own.
Kinds == {"auto", "auto:free", "auto:task", "empty", "named", "pinned"}
Ask   == [kind : Kinds, task : Tasks, provider : Providers, model : Models]

ASSUME CatalogueAssumption ==
    /\ Curated \in Seq(Profile)
    /\ Offers \in Seq(Profile)
    /\ Asks \subseteq Ask
    /\ Fallbacks \in Seq(Models)
    /\ DefaultModel \in Models
ASSUME OrderAssumption ==
    /\ Score \in [Tasks -> [Candidate -> Nat]]
    /\ Fitness \in [Tasks -> [Candidate -> Nat]]
    /\ NameOrder \in [Candidate -> Nat]
    /\ Lower \in [Models -> Models]
    /\ \A i, k \in DOMAIN Offers :
          i < k => NameOrder[[provider |-> Offers[i].provider, model |-> Offers[i].model]]
                   < NameOrder[[provider |-> Offers[k].provider, model |-> Offers[k].model]]
    /\ Special \subseteq Models
    /\ Native \subseteq Models \X Providers

\* RoutingMode, AttemptsPerProvider and MaxAttempts.
Config == [mode : {"auto", "always", "off"}, depth : Nat, cap : Nat]
ASSUME ConfigAssumption == Configs \subseteq Config

VARIABLES
    keyed,       \* the providers with a stored key
    listed,      \* Catalog.discovered
    bench,       \* Gateway.bench
    marks,       \* Catalog.tags, as pairs of candidate and task
    confirmed,   \* Catalog.confirmed
    blacklist,   \* Catalog.blacklist
    freeFlag,    \* Gateway.freeOnlyFlag
    config       \* Gateway.cfg, fixed at start

vars == <<keyed, listed, bench, marks, confirmed, blacklist, freeFlag, config>>

-----------------------------------------------------------------------------
\* The catalogue.

CandOf(p) == [provider |-> p.provider, model |-> p.model]
Cands(pool) == [i \in DOMAIN pool |-> CandOf(pool[i])]

\* Models are looked up by name in any case; bench, marks, confirmations and
\* blacklist go by the name as it is spelled.
SameModel(m, n) == Lower[m] = Lower[n]

\* Free: a zero price that the provider published.
Free(p) == p.known /\ p.cost = 0

\* What s has at the places I, each put where place says.  Sorts, filters and
\* rounds are written with it, an element's place being how many do not come
\* after it, so that what they keep and in which order can be proved.
Arrange(s, I, place) ==
    LET at == {<<place[i], i>> : i \in I}
    IN  [n \in 1..Cardinality(I) |-> s[(CHOOSE q \in at : q[1] = n)[2]]]

\* sort.SliceStable by a key.
SortBy(s, key) ==
    Arrange(s, DOMAIN s,
            [i \in DOMAIN s |-> Cardinality({k \in DOMAIN s :
                \/ key[k] < key[i]
                \/ key[k] = key[i] /\ k <= i})])

\* A loop that appends what passes a test.
Keep(s, I) == Arrange(s, I, [i \in I |-> Cardinality({k \in I : k <= i})])

\* The first source that has anything.
OrElse(first, second) == IF first # <<>> THEN first ELSE second

\* A loop that appends sequences.
Concat(ss) ==
    LET I == UNION {{i} \X (DOMAIN ss[i]) : i \in DOMAIN ss}
    IN  Arrange([q \in I |-> ss[q[1]][q[2]]], I,
                [q \in I |-> Cardinality({r \in I : \/ r[1] < q[1]
                                                    \/ r[1] = q[1] /\ r[2] <= q[2]})])

ByName(s) == SortBy(s, [i \in DOMAIN s |-> NameOrder[CandOf(s[i])]])

\* Discovered: every provider's list, by provider then by model.
Discovered == Keep(Offers, {i \in DOMAIN Offers : Offers[i] \in listed})

\* FreeModels: of the curated and the discovered profiles.
FreeOf(pool) == Keep(pool, {i \in DOMAIN pool : Free(pool[i])})
FreeModels   == ByName(FreeOf(Curated) \o FreeOf(Discovered))

\* Resolve: every place a named model is served, cheapest first.  A profile
\* without a published price costs nothing here.
Serving(pool, m) == Keep(pool, {i \in DOMAIN pool : SameModel(pool[i].model, m)})
ByCost(pool)     == SortBy(pool, [i \in DOMAIN pool |-> pool[i].cost])
Resolve(m)       == ByCost(Serving(Curated \o Discovered, m))

\* ServesModel: a provider with no discovered list is given the benefit of the
\* doubt.
ServesModel(c) ==
    LET own == {p \in listed : p.provider = c.provider}
    IN  own = {} \/ \E p \in own : SameModel(p.model, c.model)

\* Rank: the curated profiles that claim the task, or all of them.
ByScore(pool, task) == SortBy(pool, [i \in DOMAIN pool |-> Score[task][CandOf(pool[i])]])
Rank(task) ==
    ByScore(OrElse(Keep(Curated, {i \in DOMAIN Curated : task \in Curated[i].tasks}), Curated),
            task)

RankForTask(pool, task) ==
    SortBy(pool, [i \in DOMAIN pool |-> Fitness[task][CandOf(pool[i])]])

\* Mutant of RestrictToTagged: a mark is one more preference.
PreferTagged(pool, task) ==
    SortBy(pool, [i \in DOMAIN pool |-> IF <<CandOf(pool[i]), task>> \in marks THEN 0 ELSE 1])

\* TaggedFor as its callers read it: a nil result is no restriction, and the
\* result is nil both when nothing is marked for the task and when nothing in
\* the pool is.
RestrictToTagged(pool, task) ==
    OrElse(Keep(pool, {i \in DOMAIN pool : <<CandOf(pool[i]), task>> \in marks}), pool)

\* Mutant of PreferConfirmed: the confirmed models are put last.
PreferUnconfirmed(pool) ==
    SortBy(pool, [i \in DOMAIN pool |-> IF CandOf(pool[i]) \in confirmed THEN 1 ELSE 0])

PreferConfirmed(pool) ==
    IF confirmed = {} THEN pool
    ELSE SortBy(pool, [i \in DOMAIN pool |-> IF CandOf(pool[i]) \in confirmed THEN 0 ELSE 1])

ConfirmedOnly(pool) ==
    IF confirmed = {} THEN pool
    ELSE Keep(pool, {i \in DOMAIN pool : CandOf(pool[i]) \in confirmed})

-----------------------------------------------------------------------------
\* Which candidates are worth an attempt.

\* usable: a key, not refused recently, and still listed.
Usable(cands) ==
    Keep(cands, {i \in DOMAIN cands : /\ cands[i].provider \in keyed /\ cands[i] \notin bench
                                      /\ ServesModel(cands[i])})

FilterToKeyed(cands) == Keep(cands, {i \in DOMAIN cands : cands[i].provider \in keyed})

\* available: not benched, and one of the confirmed once there are any.
Available(c) == c \notin bench /\ (confirmed = {} \/ c \in confirmed)

\* placements of a model: the catalogue, as that spells it, or else the naming
\* convention.
Placements(m) ==
    LET native == {np \in Native : np[1] = Lower[m]}
    IN  OrElse(Cands(Resolve(m)),
               IF native = {} THEN <<>>
               ELSE <<[provider |-> (CHOOSE np \in native : TRUE)[2], model |-> m]>>)

\* The placements of the model a request names, or pins as it spells it.
Named(ask) ==
    IF ask.kind = "pinned" THEN <<[provider |-> ask.provider, model |-> ask.model]>>
    ELSE IF ask.kind = "named" THEN Placements(ask.model) ELSE <<>>

\* Mutant of FreeNamed: an available model will do, whatever it costs.
AvailableOf(cands) == Keep(cands, {i \in DOMAIN cands : Available(cands[i])})
AvailableNamed(ask) == AvailableOf(FilterToKeyed(Named(ask)))

\* freeNamed: the caller's own model where it is free and available.
FreeAndAvailable(cands) ==
    Keep(cands, {i \in DOMAIN cands :
        /\ \E p \in ToSet(Resolve(cands[i].model)) :
              p.provider = cands[i].provider /\ Free(p)
        /\ Available(cands[i])})
FreeNamed(ask) == FreeAndAvailable(FilterToKeyed(Named(ask)))

\* Mutant of Limit: the cap binds the first round too.
FlatLimit(providers) == Max({config.cap, 1})

\* The cap applies from the second round on.
Limit(providers) == Max({config.cap, Cardinality(providers), 1})

\* What pickOnePerProvider takes from its pool.
WorthATry(cands) ==
    Keep(cands, {i \in DOMAIN cands : cands[i].provider \in keyed /\ cands[i] \notin bench})

\* Mutant of PickOnePerProvider: the pool's own order, provider after provider.
PickInOrder(pool) == WorthATry(Cands(pool))

\* The places up to i of i's provider.  Their number is the round that i is
\* dealt in, the first of them its provider's place in every round.
SoFar(s, i) == {k \in 1..i : s[k].provider = s[i].provider}
Round(s, i) == Cardinality(SoFar(s, i))
Turn(s, i)  == Min(SoFar(s, i))

\* The first few of each provider, one round of providers after the other.
Deal(s, depth) ==
    LET I == {i \in DOMAIN s : Round(s, i) <= depth}
    IN  Arrange(s, I, [i \in I |-> Cardinality({k \in I :
            \/ Round(s, k) < Round(s, i)
            \/ Round(s, k) = Round(s, i) /\ Turn(s, k) <= Turn(s, i)})])

\* pickOnePerProvider.
PickOnePerProvider(pool) ==
    LET usable == WorthATry(Cands(pool))
        order  == {i \in DOMAIN usable : Round(usable, i) = 1}
        dealt  == Deal(usable, Max({config.depth, 1}))
    IN  SubSeq(dealt, 1, Min({Len(dealt), Limit(order)}))

-----------------------------------------------------------------------------
\* The planning paths.

\* freeCandidates.
FreeCandidates(task) ==
    PickOnePerProvider(PreferConfirmed(RankForTask(
        ConfirmedOnly(RestrictToTagged(FreeModels, task)), task)))

\* rankedCandidates: each provider's best curated model for the task.
FirstOfEach(cands) == Keep(cands, {i \in DOMAIN cands : SoFar(cands, i) = {i}})
RankedCandidates(task) == FirstOfEach(Cands(RestrictToTagged(Rank(task), task)))

\* discoveredCandidates.
SpecialLast(pool) ==
    SortBy(pool, [i \in DOMAIN pool |-> IF pool[i].model \in Special THEN 1 ELSE 0])
DiscoveredCandidates(task) ==
    PickOnePerProvider(PreferConfirmed(SpecialLast(
        RankForTask(RestrictToTagged(Discovered, task), task))))

\* Mutant of SmartCandidates: no second source of candidates.
CuratedCandidates(task) == Usable(RankedCandidates(task))

\* planCandidates where the router chooses: the curated models, or else what
\* the providers report.
SmartCandidates(task) ==
    OrElse(Usable(RankedCandidates(task)), DiscoveredCandidates(task))

\* Mutant of OwnModel: the caller's own model is screened too.
ScreenedModel(found) == Usable(found)

\* The caller's own model is filtered by nothing but its provider's key.
OwnModel(found) == FilterToKeyed(found)

\* namedCandidates: the caller's own model, then the screened fallbacks, each
\* once.
OnceOnly(cands) == {i \in DOMAIN cands : \A k \in 1..(i - 1) : cands[k] # cands[i]}
Once(cands) == Keep(cands, OnceOnly(cands))
FallbackPlaces == Concat([i \in DOMAIN Fallbacks |-> Placements(Fallbacks[i])])
NamedCandidates(ask) ==
    Once(OwnModel(IF ask.kind = "empty" THEN Placements(DefaultModel) ELSE Named(ask))
            \o Usable(FallbackPlaces))

\* freeOnly and smartRouting.
FreeOnly(ask) == freeFlag \/ ask.kind = "auto:free"
NamesModel(ask) == ask.kind \in {"named", "pinned"}
SmartRouting(ask) ==
    config.mode = "always" \/ (config.mode = "auto" /\ ~NamesModel(ask))

PlanCandidates(ask) ==
    IF FreeOnly(ask)
      THEN IF NamesModel(ask) THEN FreeNamed(ask) ELSE FreeCandidates(ask.task)
      ELSE IF SmartRouting(ask) THEN SmartCandidates(ask.task)
           ELSE NamedCandidates(ask)

\* Mutant of ExcludeBlacklisted: only the first choice is looked at.
ExcludeFirst(cands) ==
    IF cands # <<>> /\ Head(cands) \in blacklist THEN Tail(cands) ELSE cands

\* excludeBlacklisted.
ExcludeBlacklisted(cands) == Keep(cands, {i \in DOMAIN cands : cands[i] \notin blacklist})

\* plan: the operator's veto comes last, over every path alike.
Plan(ask) == ExcludeBlacklisted(PlanCandidates(ask))

-----------------------------------------------------------------------------
\* What changes under the planner.  Distance bounds how many entries differ
\* from a deployment where every key is stored, discovery has run and nothing
\* else has happened.
\* Changes that change nothing are left out: they are stutters.

Distance ==
    Cardinality(bench) + Cardinality(marks) + Cardinality(confirmed)
        + Cardinality(blacklist) + Cardinality(ToSet(Offers) \ listed)
        + Cardinality(Providers \ keyed)

Room == Distance < Edits

\* The candidates the catalogue can come to know of, and those requests pin.
Known  == {CandOf(p) : p \in ToSet(Curated) \cup ToSet(Offers)}
Pinned == {[provider |-> ask.provider, model |-> ask.model] :
             ask \in {a \in Asks : a.kind = "pinned"}}

Init ==
    /\ keyed     = Providers
    /\ listed    = ToSet(Offers)
    /\ bench     = {}
    /\ marks     = {}
    /\ confirmed = {}
    /\ blacklist = {}
    /\ freeFlag \in BOOLEAN
    /\ config \in Configs

\* StoreProviderKey and DeleteProviderKey.
StoreKey(p) ==
    /\ p \notin keyed
    /\ keyed' = keyed \cup {p}
    /\ UNCHANGED <<listed, bench, marks, confirmed, blacklist, freeFlag, config>>
DeleteKey(p) ==
    /\ Room /\ p \in keyed
    /\ keyed' = keyed \ {p}
    /\ UNCHANGED <<listed, bench, marks, confirmed, blacklist, freeFlag, config>>

\* ForgetDiscovered, some time after a key went, and even if one has come since.
ForgetDiscovered(p) ==
    /\ \E o \in listed : o.provider = p
    /\ listed' = {o \in listed : o.provider # p}
    /\ UNCHANGED <<keyed, bench, marks, confirmed, blacklist, freeFlag, config>>
    /\ Distance' <= Edits

\* SetDiscovered: a provider's list is replaced whole, and by a non-empty one; its
\* key may have gone since the list was asked for.
SetDiscovered(p, list) ==
    /\ list # {} /\ list # {o \in listed : o.provider = p}
    /\ listed' = {o \in listed : o.provider # p} \cup list
    /\ UNCHANGED <<keyed, bench, marks, confirmed, blacklist, freeFlag, config>>
    /\ Distance' <= Edits

\* benchOne, and unbench or the lapse of an entry.
BenchOne(c) ==
    /\ Room /\ c \notin bench
    /\ bench' = bench \cup {c}
    /\ UNCHANGED <<keyed, listed, marks, confirmed, blacklist, freeFlag, config>>
Unbench(c) ==
    /\ c \in bench
    /\ bench' = bench \ {c}
    /\ UNCHANGED <<keyed, listed, marks, confirmed, blacklist, freeFlag, config>>

\* SetTags, one mark at a time.
Mark(c, task) ==
    /\ Room /\ <<c, task>> \notin marks
    /\ marks' = marks \cup {<<c, task>>}
    /\ UNCHANGED <<keyed, listed, bench, confirmed, blacklist, freeFlag, config>>
Unmark(c, task) ==
    /\ <<c, task>> \in marks
    /\ marks' = marks \ {<<c, task>>}
    /\ UNCHANGED <<keyed, listed, bench, confirmed, blacklist, freeFlag, config>>

\* SetConfirmed, as successive sweeps find one model more or one less.
Confirm(c) ==
    /\ Room /\ c \notin confirmed
    /\ confirmed' = confirmed \cup {c}
    /\ UNCHANGED <<keyed, listed, bench, marks, blacklist, freeFlag, config>>
Unconfirm(c) ==
    /\ c \in confirmed
    /\ confirmed' = confirmed \ {c}
    /\ UNCHANGED <<keyed, listed, bench, marks, blacklist, freeFlag, config>>

\* SetBlacklist, one model at a time.
Veto(c) ==
    /\ Room /\ c \notin blacklist
    /\ blacklist' = blacklist \cup {c}
    /\ UNCHANGED <<keyed, listed, bench, marks, confirmed, freeFlag, config>>
Unveto(c) ==
    /\ c \in blacklist
    /\ blacklist' = blacklist \ {c}
    /\ UNCHANGED <<keyed, listed, bench, marks, confirmed, freeFlag, config>>

SetFreeOnly ==
    /\ freeFlag' = ~freeFlag
    /\ UNCHANGED <<keyed, listed, bench, marks, confirmed, blacklist, config>>

Next ==
    \/ \E p \in Providers :
          \/ StoreKey(p) \/ DeleteKey(p) \/ ForgetDiscovered(p)
          \/ \E list \in SUBSET {o \in ToSet(Offers) : o.provider = p} : SetDiscovered(p, list)
    \/ \E c \in Known \cup Pinned : BenchOne(c) \/ Unbench(c)
    \/ \E c \in Known :
          \/ Confirm(c) \/ Unconfirm(c) \/ Veto(c) \/ Unveto(c)
          \/ \E task \in Tasks : Mark(c, task) \/ Unmark(c, task)
    \/ SetFreeOnly

Spec == Init /\ [][Next]_vars

-----------------------------------------------------------------------------
\* Properties.

Automatic(ask) == FreeOnly(ask) \/ SmartRouting(ask)

\* Every candidate of every plan can be called: its provider holds a key (the
\* walk's own "no API key configured" is never reached from route) and no
\* operator vetoed it, whether the router or the caller chose it.  A veto is of
\* one spelling: a request that pins the model in another case is not kept from
\* it, for which gateway.go's "a blacklist is a veto" says too much.
PlansAreCallable ==
    \A ask \in Asks : \A c \in ToSet(Plan(ask)) :
        c.provider \in keyed /\ c \notin blacklist

\* The candidate's own provider publishes the model at zero cost.
PublishedFree(c) ==
    \E p \in ToSet(Curated) \cup listed :
        p.provider = c.provider /\ SameModel(p.model, c.model) /\ Free(p)

\* Free-only never spends: while the switch is on, or for a request that asks
\* for it, every candidate is published at zero cost by that very provider, and
\* none is benched.  And once probes confirmed anything at all, it is one of the
\* confirmed, as gateway.go says of available and smart.go of ConfirmedOnly.
\* That is a filter: src/README.md:216-217 says of the same thing "Confirmed
\* working is a preference, not a filter", and that an unprobed model stays in the
\* chain, which holds outside free-only mode only.  In it the README is wrong, and
\* one confirmed paid model is enough to leave a free-only request with no plan.
FreeOnlyNeverPays ==
    \A ask \in Asks : FreeOnly(ask) =>
        \A c \in ToSet(Plan(ask)) : PublishedFree(c) /\ Available(c)

\* A place of one of the fallback models.
Fallback(c) == \E m \in ToSet(Fallbacks) : SameModel(c.model, m)

\* own first, then fallbacks worth an attempt, nothing twice.
BeginsWith(plan, own) ==
    /\ {plan[i] : i \in 1..Min({Cardinality(own), Len(plan)})} = own
    /\ \A i \in DOMAIN plan : i > Cardinality(own) =>
          plan[i] \notin bench /\ Fallback(plan[i])
    /\ \A i, k \in DOMAIN plan : plan[i] = plan[k] => i = k

\* Naming a model is an instruction: outside free-only mode the plan begins
\* with exactly the keyed places that serve it, benched, retired or not, and
\* goes on with fallbacks that are worth an attempt, none of them twice.
NamedMeansNamed ==
    \A ask \in Asks : NamesModel(ask) /\ ~Automatic(ask) =>
        BeginsWith(Plan(ask), {c \in ToSet(Named(ask)) :
                                  c.provider \in keyed /\ c \notin blacklist})

\* What alternating means: no provider comes a second time before every
\* provider with a model left to offer has come once.
Alternates(plan, offered) ==
    \A i, k \in DOMAIN plan :
        i < k /\ plan[i].provider = plan[k].provider =>
            \A c \in offered : \E j \in 1..(k - 1) : plan[j].provider = c.provider

\* What an automatic request may be served by.
Offered(ask) ==
    LET pool == IF FreeOnly(ask) THEN ConfirmedOnly(RestrictToTagged(FreeModels, ask.task))
                ELSE RestrictToTagged(Discovered, ask.task)
    IN  {c \in ToSet(Cands(pool)) :
            c.provider \in keyed /\ c \notin bench /\ c \notin blacklist}

\* Providers take turns.  "The cap must never stop a provider being tried
\* once": in a chain made from a pool, every keyed provider with a model of the
\* pool to offer is there; and as long as nothing is vetoed, no provider comes
\* again before all of them have come.
ProvidersTakeTurns ==
    /\ \A task \in Tasks :
         LET chain == DiscoveredCandidates(task) IN
         \A o \in ToSet(RestrictToTagged(Discovered, task)) :
            o.provider \in keyed /\ CandOf(o) \notin bench =>
                \E c \in ToSet(chain) : c.provider = o.provider
    /\ blacklist = {} =>
        \A ask \in Asks :
            /\ FreeOnly(ask) /\ ~NamesModel(ask) => Alternates(Plan(ask), Offered(ask))
            /\ SmartRouting(ask) /\ ~FreeOnly(ask) /\ Usable(RankedCandidates(ask.task)) = <<>>
                  => Alternates(Plan(ask), Offered(ask))

\* "auto" is not a dead end: with no veto, a request that leaves the choice to
\* the router gets a plan whenever a keyed provider lists a model that it has
\* not refused and that the marks allow, however poor the curated entries are.
AutoIsRoutable ==
    blacklist = {} =>
        \A ask \in Asks : SmartRouting(ask) /\ ~FreeOnly(ask) =>
            (Offered(ask) # {} => Plan(ask) # <<>>)

\* Confirmed models lead, of each provider and of the whole chain.
ConfirmedLead(plan) ==
    \A i, k \in DOMAIN plan :
        /\ i < k /\ plan[k] \in confirmed /\ plan[i].provider = plan[k].provider
              => plan[i] \in confirmed
        /\ plan[1] \notin confirmed => plan[i] \notin confirmed

\* A model known to answer goes first: in a chain made from the discovered
\* pool no unconfirmed model precedes a confirmed one of the same provider,
\* nor a confirmed first choice of another.
ConfirmedFirst == \A task \in Tasks : ConfirmedLead(DiscoveredCandidates(task))

\* Marks are all or nothing: a plan the router makes for a task holds marked
\* models only or unmarked models only.
MarksNeverMix ==
    \A ask \in Asks : Automatic(ask) /\ ~NamesModel(ask) =>
        \A c, d \in ToSet(Plan(ask)) :
            <<c, ask.task>> \in marks => <<d, ask.task>> \in marks
=============================================================================
