--------------------------- MODULE ProviderAccess ---------------------------
(***************************************************************************)
(* What the gateway believes of one provider, and who changes it: admin    *)
(* requests that set or delete its key (internal/api/providers.go), model  *)
(* discovery (gateway/discovery.go), probe sweeps (gateway/probe.go) and   *)
(* calls that are refused.  They run side by side; the stored key, the     *)
(* lists and the probe results are in the database and, all but the key,   *)
(* in the catalogue as well, and no lock spans two of them.                *)
(*                                                                         *)
(* Keys are numbered in the order operators present them, 0 is none.  In   *)
(* free-only mode a sweep tries all the listed models that cost nothing,   *)
(* otherwise PerSweep of the listed; and the marked ones in either.  Which *)
(* PerSweep head the ranked list is left open.  A probe result is not      *)
(* dated but grows old at some point; not during the sweep that made it,   *)
(* as ProbeFreshness is longer than a sweep.  Lists that two transactions  *)
(* save at once may end up merged in the table (read committed); here the  *)
(* later one wins.  Models of the built-in catalogue are left out.         *)
(***************************************************************************)
EXTENDS Naturals, FiniteSets

CONSTANTS Models,    \* what the provider may list
          Free,      \* those of them that cost nothing
          Marked,    \* those an operator marked for a task
          Kept,      \* those an earlier run may have left cached
          Procs,     \* goroutines: handlers of admin requests, refreshes, calls
          Ticker,    \* the goroutine of StartProbing
          PerSweep,  \* how many models a sweep samples
          MaxKey,    \* bound: how many keys operators present
          Starts     \* bound: operations begun but for the ticker's, failures, restarts

ASSUME BoundsAssumption ==
    /\ Ticker \in Procs
    /\ Free \subseteq Models /\ Marked \subseteq Models
    /\ Kept \subseteq Models /\ (Kept # {} => MaxKey > 0)
    /\ PerSweep \in Nat \ {0} /\ MaxKey \in Nat /\ Starts \in Nat

VARIABLES
    key,        \* the provider_keys row
    listed,     \* Catalog.discovered
    rows,       \* discovered_models
    confirmed,  \* Catalog.confirmed
    probes,     \* model_probes: what each model's row says, if there is one
    bench,      \* Gateway.bench
    up,         \* the models the provider answers for now (external)
    freeOnly,   \* the operator's switch (set as OperatorSettings has it)
    pc, op,     \* where each goroutine is, and what it is doing
    mine,       \* the key it read or was given
    list,       \* the models it was told of, has left to try, or read back
    found,      \* the probe result it has yet to record
    presented,  \* keys presented so far
    left,       \* of Starts
    calm,       \* history: nothing overlapped, failed or was cut short
    answered,   \* history: the models that ever answered a probe
    under,      \* history: the key each probe row and bench entry is due to
    overtaken   \* history: who forgets for want of a key that is stored by now

memory  == <<listed, confirmed, bench>>
tables  == <<key, rows, probes>>
locals  == <<pc, op, mine, list, found>>
outside == <<up, freeOnly>>
history == <<calm, answered, under, overtaken>>
bounds  == <<presented, left>>
vars    == <<memory, tables, outside, locals, bounds, history>>

Keys   == 0..MaxKey
Stages == {"idle", "store", "reread", "forget", "forget rows", "drop probes",
           "ask", "set", "save", "clear", "forget probes",
           "aim", "probe", "record", "read", "apply", "call"}
Ops    == {"none", "set", "delete", "refresh", "sweep", "cut", "call"}

TypeOK ==
    /\ key \in Keys
    /\ listed \subseteq Models /\ rows \subseteq Models
    /\ confirmed \subseteq Models /\ bench \subseteq Models
    /\ up \subseteq Models /\ freeOnly \in BOOLEAN
    /\ probes \in [Models -> {"none", "ok", "refused", "old"}]
    /\ pc \in [Procs -> Stages] /\ op \in [Procs -> Ops]
    /\ mine \in [Procs -> Keys] /\ list \in [Procs -> SUBSET Models]
    /\ found \in [Procs -> SUBSET (Models \X BOOLEAN)]
    /\ presented \in Keys /\ left \in 0..Starts
    /\ calm \in BOOLEAN /\ answered \subseteq Models
    /\ under \in [{"probe", "bench"} -> [Models -> Keys]]
    /\ overtaken \subseteq Procs

\* Whose key things are due to is only looked at while calm, and kept as long.
Nobody     == [w \in {"probe", "bench"} |-> [m \in Models |-> 0]]
Remembered == IF calm' THEN under ELSE Nobody

\* A new installation, or one an earlier run left with a key and a list.
Init ==
    /\ \E kept \in {{}, Kept} :
          /\ key = IF kept = {} THEN 0 ELSE 1
          /\ presented = key
          /\ listed = kept /\ rows = kept /\ answered = kept
    /\ confirmed = {} /\ bench = {}
    /\ probes = [m \in Models |-> "none"]
    /\ up \in SUBSET Models /\ freeOnly \in BOOLEAN
    /\ pc = [p \in Procs |-> "idle"] /\ op = [p \in Procs |-> "none"]
    /\ mine = [p \in Procs |-> 0] /\ list = [p \in Procs |-> {}]
    /\ found = [p \in Procs |-> {}]
    /\ left = Starts
    /\ calm = TRUE /\ under = Nobody /\ overtaken = {}

Busy == {p \in Procs : pc[p] # "idle"}

-----------------------------------------------------------------------------
\* Beginning, moving on and ending.

\* Goroutine p takes up operation o, with a key and a list, at a stage.
Begins(p, o, k, l, stage) ==
    /\ pc[p] = "idle"
    /\ pc'   = [pc EXCEPT ![p] = stage]
    /\ op'   = [op EXCEPT ![p] = o]
    /\ mine' = [mine EXCEPT ![p] = k]
    /\ list' = [list EXCEPT ![p] = l]
    /\ calm' = (calm /\ Busy = {})
    /\ under' = Remembered
    /\ UNCHANGED <<found, answered, overtaken>>

Spends == left > 0 /\ left' = left - 1

Ends(p) ==
    /\ pc'    = [pc EXCEPT ![p] = "idle"]
    /\ op'    = [op EXCEPT ![p] = "none"]
    /\ mine'  = [mine EXCEPT ![p] = 0]
    /\ list'  = [list EXCEPT ![p] = {}]
    /\ found' = [found EXCEPT ![p] = {}]

Goes(p, stage) ==
    /\ pc' = [pc EXCEPT ![p] = stage]
    /\ UNCHANGED <<op, mine, list, found>>

\* After the models are in place: a new key still has the bench to clear.
Settles(p) == IF op[p] = "set" THEN Goes(p, "clear") ELSE Ends(p)

-----------------------------------------------------------------------------
\* Setting and deleting the key.

\* adminSetProviderKey up to the store: the key is refused by the provider, and
\* nothing happens, or it is verified by listing its models.  An empty list
\* stands for a verification that was skipped as well.
SetKey(p, models) ==
    /\ Spends
    /\ presented < MaxKey
    /\ presented' = presented + 1
    /\ Begins(p, "set", presented + 1, models, "store")
    /\ UNCHANGED <<memory, tables, outside>>

\* Where a goroutine is that found no key stored.
Forgetting == {"forget", "forget rows", "drop probes"}

\* StoreProviderKey, then AdoptModels with the list or RefreshProvider without.
Store(p) ==
    /\ pc[p] = "store"
    /\ key' = mine[p]
    /\ Goes(p, IF list[p] # {} THEN "set" ELSE "reread")
    /\ overtaken' = overtaken \cup {q \in Procs : pc[q] \in Forgetting}
    /\ UNCHANGED <<memory, rows, probes, outside, bounds, calm, answered, under>>

\* adminDeleteProviderKey: DeleteProviderKey, then RefreshProvider.
DeleteKey(p) ==
    /\ Spends
    /\ key # 0
    /\ key' = 0
    /\ Begins(p, "delete", 0, {}, "reread")
    /\ UNCHANGED <<memory, rows, probes, outside, presented>>

\* RefreshProvider reads the keys again.
Reread(p) ==
    /\ pc[p] = "reread"
    /\ mine' = [mine EXCEPT ![p] = key]
    /\ pc' = [pc EXCEPT ![p] = IF key = 0 THEN "forget" ELSE "ask"]
    /\ UNCHANGED <<memory, tables, outside, op, list, found, bounds, history>>

\* With none stored when it looked the models are forgotten, in the catalogue
\* first: ForgetDiscovered, ...
ForgetDiscovered(p) ==
    /\ pc[p] = "forget"
    /\ listed' = {}
    /\ Goes(p, "forget rows")
    /\ UNCHANGED <<confirmed, bench, tables, outside, bounds, history>>

\* Mutant of ForgetRows: the cached list is kept.
KeepRows(p) ==
    /\ pc[p] = "forget rows"
    /\ Goes(p, "drop probes")
    /\ UNCHANGED <<memory, tables, outside, bounds, history>>

\* ... ForgetDiscoveredModels ...
ForgetRows(p) ==
    /\ pc[p] = "forget rows"
    /\ rows' = {}
    /\ Goes(p, "drop probes")
    /\ UNCHANGED <<memory, key, probes, outside, bounds, history>>

\* ... and ForgetProbes.
DropProbes(p) ==
    /\ pc[p] = "drop probes"
    /\ probes' = [m \in Models |-> "none"]
    /\ Settles(p)
    /\ overtaken' = overtaken \ {p}
    /\ UNCHANGED <<memory, key, rows, outside, bounds, calm, answered, under>>

\* Mutant of ClearBench: models sidelined under the old key stay so.
KeepBench(p) ==
    /\ pc[p] = "clear"
    /\ Goes(p, "forget probes")
    /\ UNCHANGED <<memory, tables, outside, bounds, history>>

\* ClearBench.
ClearBench(p) ==
    /\ pc[p] = "clear"
    /\ bench' = {}
    /\ Goes(p, "forget probes")
    /\ UNCHANGED <<listed, confirmed, tables, outside, bounds, history>>

\* ForgetProbes: the rows go; what is confirmed in memory stays.
ForgetProbes(p) ==
    /\ pc[p] = "forget probes"
    /\ probes' = [m \in Models |-> "none"]
    /\ Ends(p)
    /\ UNCHANGED <<memory, key, rows, outside, bounds, history>>

-----------------------------------------------------------------------------
\* Discovery.

\* RefreshModels reads the keys once, for every provider.
Refresh(p) ==
    /\ Spends
    /\ key # 0
    /\ Begins(p, "refresh", key, {}, "ask")
    /\ UNCHANGED <<memory, tables, outside, presented>>

\* Mutant of Ask: an empty list is taken for an answer.
AskForAny(p, models) ==
    /\ pc[p] = "ask"
    /\ pc'   = [pc EXCEPT ![p] = "set"]
    /\ list' = [list EXCEPT ![p] = models]
    /\ UNCHANGED <<memory, tables, outside, op, mine, found, bounds, history>>

\* ListModels: a failure or an empty list keeps what is known.
Ask(p, models) ==
    /\ pc[p] = "ask"
    /\ IF models = {} THEN Settles(p)
       ELSE /\ pc'   = [pc EXCEPT ![p] = "set"]
            /\ list' = [list EXCEPT ![p] = models]
            /\ UNCHANGED <<op, mine, found>>
    /\ UNCHANGED <<memory, tables, outside, bounds, history>>

\* SetDiscovered ...
SetDiscovered(p) ==
    /\ pc[p] = "set"
    /\ listed' = list[p]
    /\ Goes(p, "save")
    /\ UNCHANGED <<confirmed, bench, tables, outside, bounds, history>>

\* ... and ReplaceDiscoveredModels, in one transaction.
Save(p) ==
    /\ pc[p] = "save"
    /\ rows' = list[p]
    /\ Settles(p)
    /\ UNCHANGED <<memory, key, probes, outside, bounds, history>>

-----------------------------------------------------------------------------
\* Probing.

\* ProbeModels reads the keys ...
StartSweep(p) ==
    /\ IF p = Ticker THEN UNCHANGED left ELSE Spends
    /\ Begins(p, "sweep", key, {}, "aim")
    /\ UNCHANGED <<memory, tables, outside, presented>>

\* What a sweep outside free-only mode may sample: PerSweep of the listed.
Samples ==
    {s \in SUBSET listed : \/ Cardinality(s) = PerSweep
                           \/ s = listed /\ Cardinality(s) < PerSweep}

\* probeTargets: what may be tried, with the lists of this moment.
Targets ==
    {s \cup (Marked \cap listed) : s \in IF freeOnly THEN {Free \cap listed} ELSE Samples}

\* ... and then takes its targets.  Without any here the sweep returns at once,
\* unless other providers have some: then it ends with the reload, which is of
\* every provider.
Aim(p, targets) ==
    /\ pc[p] = "aim"
    /\ targets \in IF mine[p] = 0 THEN {{}} ELSE Targets
    /\ IF targets = {} THEN Ends(p) \/ Goes(p, "read")
       ELSE /\ pc'   = [pc EXCEPT ![p] = "probe"]
            /\ list' = [list EXCEPT ![p] = targets]
            /\ UNCHANGED <<op, mine, found>>
    /\ UNCHANGED <<memory, tables, outside, bounds, history>>

\* benchIfAccessDenied: nothing, the model, or with a free one all of a spent
\* free allowance.
Sidelined(m) == {{}, {m}} \cup {{m} \cup (Free \cap listed) : f \in Free \cap {m}}

Due(p, what, models) ==
    IF calm THEN [under EXCEPT ![what] = [m \in Models |-> IF m \in models THEN mine[p] ELSE @[m]]]
    ELSE under

\* probeOne: an answer takes the model off the bench, a refusal puts it there,
\* a timeout or a fault does neither.
Probe(p, m, out) ==
    /\ pc[p] = "probe"
    /\ m \in list[p]
    /\ bench' = IF m \in up THEN bench \ {m} ELSE bench \cup out
    /\ under' = IF m \in up THEN under ELSE Due(p, "bench", out)
    /\ answered' = IF m \in up THEN answered \cup {m} ELSE answered
    /\ found' = [found EXCEPT ![p] = {<<m, m \in up>>}]
    /\ list'  = [list EXCEPT ![p] = @ \ {m}]
    /\ pc'    = [pc EXCEPT ![p] = "record"]
    /\ UNCHANGED <<listed, confirmed, tables, outside, op, mine, bounds, calm, overtaken>>

\* What follows a result: the next model, or the reload.  A sweep whose caller
\* left does neither (the reload fails at once on its context).
Recorded(p) ==
    IF op[p] = "cut" THEN Ends(p)
    ELSE /\ pc'    = [pc EXCEPT ![p] = IF list[p] = {} THEN "read" ELSE "probe"]
         /\ found' = [found EXCEPT ![p] = {}]
         /\ UNCHANGED <<op, mine, list>>

\* Mutant of Record: the failure itself is stored in place of the verdict.
RecordReason(p) ==
    /\ pc[p] = "record"
    /\ \E f \in found[p] :
          /\ probes' = [probes EXCEPT ![f[1]] = IF f[2] THEN "ok" ELSE "context canceled"]
          /\ under'  = Due(p, "probe", {f[1]})
    /\ Recorded(p)
    /\ UNCHANGED <<memory, key, rows, outside, bounds, calm, answered, overtaken>>

\* RecordProbe: the model's one row is replaced, whatever became of the caller.
Record(p) ==
    /\ pc[p] = "record"
    /\ \E f \in found[p] :
          /\ probes' = [probes EXCEPT ![f[1]] = IF f[2] THEN "ok" ELSE "refused"]
          /\ under'  = Due(p, "probe", {f[1]})
    /\ Recorded(p)
    /\ UNCHANGED <<memory, key, rows, outside, bounds, calm, answered, overtaken>>

\* The operator who asked for the sweep leaves: the probe under way ends with
\* the context's error, which is recorded like any failure.
CutShort(p) ==
    /\ Spends
    /\ pc[p] = "probe" /\ p # Ticker
    /\ \/ Ends(p)
       \/ \E m \in list[p] :
            /\ found' = [found EXCEPT ![p] = {<<m, FALSE>>}]
            /\ list'  = [list EXCEPT ![p] = {}]
            /\ op'    = [op EXCEPT ![p] = "cut"]
            /\ pc'    = [pc EXCEPT ![p] = "record"]
            /\ UNCHANGED mine
    /\ calm' = FALSE
    /\ under' = Remembered
    /\ UNCHANGED <<memory, tables, outside, presented, answered, overtaken>>

\* Mutant of ReadProbes: every model with a fresh row counts.
ReadAttempted(p) ==
    /\ pc[p] = "read"
    /\ list' = [list EXCEPT ![p] = {m \in Models : probes[m] \in {"ok", "refused"}}]
    /\ pc'   = [pc EXCEPT ![p] = "apply"]
    /\ UNCHANGED <<memory, tables, outside, op, mine, found, bounds, history>>

\* LoadConfirmedModels: the fresh successes are read ...
ReadProbes(p) ==
    /\ pc[p] = "read"
    /\ list' = [list EXCEPT ![p] = {m \in Models : probes[m] = "ok"}]
    /\ pc'   = [pc EXCEPT ![p] = "apply"]
    /\ UNCHANGED <<memory, tables, outside, op, mine, found, bounds, history>>

\* Mutant of SetConfirmed: an empty result keeps what was known.
KeepConfirmed(p) ==
    /\ pc[p] = "apply"
    /\ confirmed' = IF list[p] = {} THEN confirmed ELSE list[p]
    /\ Ends(p)
    /\ UNCHANGED <<listed, bench, tables, outside, bounds, history>>

\* ... and put in the catalogue, wholesale.
SetConfirmed(p) ==
    /\ pc[p] = "apply"
    /\ confirmed' = list[p]
    /\ Ends(p)
    /\ UNCHANGED <<listed, bench, tables, outside, bounds, history>>

-----------------------------------------------------------------------------
\* Traffic, failures, time and restarts.

\* A request reads the key, and some time later its attempt ends.
Call(p) ==
    /\ Spends
    /\ key # 0
    /\ Begins(p, "call", key, {}, "call")
    /\ UNCHANGED <<memory, tables, outside, presented>>

CallEnds(p, m, out) ==
    /\ pc[p] = "call"
    /\ IF m \in up THEN UNCHANGED <<bench, under>>
       ELSE bench' = bench \cup out /\ under' = Due(p, "bench", out)
    /\ Ends(p)
    /\ UNCHANGED <<listed, confirmed, tables, outside, bounds, calm, answered, overtaken>>

\* A statement fails.  The store and the handler's own ForgetProbes give up with
\* an error; everything else is logged and goes on.
Fails(p) ==
    /\ Spends
    /\ \/ pc[p] \in {"store", "forget probes", "read"} /\ Ends(p)
       \/ pc[p] = "forget rows" /\ Goes(p, "drop probes")
       \/ pc[p] \in {"reread", "save", "drop probes"} /\ Settles(p)
       \/ pc[p] = "record" /\ Recorded(p)
    /\ calm' = FALSE
    /\ under' = Remembered
    /\ overtaken' = IF pc'[p] \in Forgetting THEN overtaken ELSE overtaken \ {p}
    /\ UNCHANGED <<memory, tables, outside, presented, answered>>

\* The provider's answers change; an operator switches free-only mode; a bench
\* entry lapses; a result grows old.
Change(m) ==
    /\ up' = IF m \in up THEN up \ {m} ELSE up \cup {m}
    /\ UNCHANGED <<memory, tables, freeOnly, locals, bounds, history>>
Switch ==
    /\ freeOnly' = ~freeOnly
    /\ UNCHANGED <<memory, tables, up, locals, bounds, history>>
Lapses(m) ==
    /\ m \in bench
    /\ bench' = bench \ {m}
    /\ UNCHANGED <<listed, confirmed, tables, outside, locals, bounds, history>>
Ages(m) ==
    /\ probes[m] \in {"ok", "refused"}
    /\ \A p \in Procs : op[p] \in {"sweep", "cut"} =>
          pc[p] = "aim" \/ (pc[p] = "probe" /\ m \in list[p])
    /\ probes' = [probes EXCEPT ![m] = "old"]
    /\ UNCHANGED <<memory, key, rows, outside, locals, bounds, history>>

\* The process stops and main loads the lists and the confirmations again; a
\* load that fails is logged, and leaves them empty.
Restart(lost) ==
    /\ Spends
    /\ listed'    = IF "lists" \in lost THEN {} ELSE rows
    /\ confirmed' = {m \in Models : probes[m] = "ok" /\ "probes" \notin lost}
    /\ bench'     = {}
    /\ pc'    = [p \in Procs |-> "idle"]
    /\ op'    = [p \in Procs |-> "none"]
    /\ mine'  = [p \in Procs |-> 0]
    /\ list'  = [p \in Procs |-> {}]
    /\ found' = [p \in Procs |-> {}]
    /\ calm'  = (calm /\ Busy = {} /\ lost = {})
    /\ under' = Remembered
    /\ overtaken' = {}
    /\ UNCHANGED <<tables, outside, presented, answered>>

Moves(p) ==
    \/ Store(p) \/ Reread(p) \/ ForgetDiscovered(p) \/ ForgetRows(p) \/ DropProbes(p)
    \/ ClearBench(p) \/ ForgetProbes(p)
    \/ (\E models \in SUBSET Models : Ask(p, models)) \/ SetDiscovered(p) \/ Save(p)
    \/ (\E targets \in SUBSET Models : Aim(p, targets))
    \/ (\E m \in Models : \E out \in Sidelined(m) : Probe(p, m, out))
    \/ Record(p) \/ ReadProbes(p) \/ SetConfirmed(p)
    \/ \E m \in Models : \E out \in Sidelined(m) : CallEnds(p, m, out)

Starting(p) ==
    \/ (\E models \in SUBSET Models : SetKey(p, models))
    \/ DeleteKey(p) \/ Refresh(p) \/ Call(p)

Next ==
    \/ \E p \in Procs : Moves(p) \/ Fails(p) \/ CutShort(p) \/ StartSweep(p)
    \/ \E p \in Procs \ {Ticker} : Starting(p)
    \/ (\E m \in Models : Change(m) \/ Lapses(m) \/ Ages(m)) \/ Switch
    \/ \E lost \in SUBSET {"lists", "probes"} : Restart(lost)

Spec == Init /\ [][Next]_vars

\* Goroutines are scheduled, every wait of theirs has a timeout, and the
\* ticker of StartProbing never stops.
FairSpec ==
    /\ Spec
    /\ \A p \in Procs : WF_vars(Moves(p))
    /\ WF_vars(StartSweep(Ticker))

-----------------------------------------------------------------------------
\* Properties.

\* The catalogue and the database agree once the operations are done, as long
\* as they did not overlap and none failed; and when the key was deleted nothing
\* is left of its models or its probe results in either.
NothingDrifts ==
    calm /\ Busy = {} =>
        /\ listed = rows
        /\ key = 0 => listed = {} /\ \A m \in Models : probes[m] = "none"

\* "a transient outage must not empty the catalogue": whoever overlaps and
\* whatever the provider does, the list in the catalogue and the one in the
\* database go only with the key, or by a goroutine that found no key stored and
\* was overtaken by a new one before it forgot (RefreshProvider reads the key and
\* then forgets, so the list just adopted under the new key goes, until the next
\* refresh), or when a restart finds none cached or cannot read the cache.
OutageKeepsModels ==
    [][/\ listed # {} /\ listed' = {} =>
             \/ \E p \in Procs : pc[p] = "forget" /\ (key = 0 \/ p \in overtaken)
             \/ Busy' = {} /\ \E lost \in SUBSET {"lists", "probes"} : Restart(lost)
       /\ rows # {} /\ rows' = {} =>
             \E p \in Procs : pc[p] = "forget rows" /\ (key = 0 \/ p \in overtaken)]_vars

\* "Confirmed" is evidence: however sweeps, key changes, failures and restarts
\* overlap, only a model that once answered a probe is confirmed.
ConfirmedHasAnswered == confirmed \subseteq answered

\* "A new key may carry different entitlements": once it is in place, with
\* nothing overlapping, no bench entry and no probe row of another key is left.
NewKeyStartsClean ==
    calm /\ Busy = {} /\ key # 0 =>
        /\ \A m \in bench : under["bench"][m] = key
        /\ \A m \in Models : probes[m] # "none" => under["probe"][m] = key

\* Whether every sweep tries the model, as long as it is listed: a marked one, a
\* free one in free-only mode, or one of too few to sample from.
Watched(m) ==
    \/ m \in Marked
    \/ freeOnly /\ m \in Free
    \/ ~freeOnly /\ Cardinality(listed) <= PerSweep

\* "a model that was refused yesterday may answer today": a listed model that
\* every sweep tries and that keeps answering is in the end confirmed for good
\* and never left on the bench for good (a sibling's spent allowance may put it
\* there); and one that keeps refusing ends up unconfirmed.  Of a model that is
\* only sampled (probeTargets outside free-only mode) nothing is promised: a
\* sweep may leave it out for ever, and its verdict then only grows old.
RecoveryIsNoticed ==
    \A m \in Models :
        /\ <>[](key # 0 /\ m \in listed /\ Watched(m) /\ m \in up) =>
              <>[](m \in confirmed) /\ []<>(m \notin bench)
        /\ <>[](key # 0 /\ m \in listed /\ Watched(m) /\ m \notin up) =>
              <>[](m \notin confirmed)
=============================================================================
