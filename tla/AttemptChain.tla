---------------------------- MODULE AttemptChain ----------------------------
(***************************************************************************)
(* The failover walk of internal/gateway/gateway.go: concurrent requests,  *)
(* each a goroutine in attemptChain, share the per-provider circuit        *)
(* breakers, the bench of refused models and the view of live calls.  Each *)
(* action is one critical section (or one wait) of that goroutine, so      *)
(* everything another goroutine can do in between happens here too.        *)
(*                                                                         *)
(* Time is abstracted: a cooldown and a bench entry lapse at some point    *)
(* after they begin, so what is checked holds for every BreakerCooldown    *)
(* and benchDuration.  The plan a request walks is any member of Plans     *)
(* (how plans are made is the planner's business); every candidate of a    *)
(* plan has a stored key, since each planning path filters on it, so the   *)
(* walk's "no API key configured" branch is never taken from route.  The   *)
(* semantic cache, consulted before the walk and filled after it, is not   *)
(* part of this module.                                                    *)
(***************************************************************************)
EXTENDS Naturals, Sequences, FiniteSets

CONSTANTS Requests,    \* the requests the gateway is serving
          Providers,   \* the configured upstreams
          Models,      \* the models they serve
          Plans,       \* the chains the planner may return
          Free,        \* the candidates published at zero cost
          Trip         \* config.BreakerTrip

Candidate == [provider : Providers, model : Models]

ASSUME PlansAssumption == Plans \subseteq Seq(Candidate)
ASSUME FreeAssumption  == Free \subseteq Candidate
ASSUME TripAssumption  == Trip \in Nat \ {0}

VARIABLES
    pc,         \* where each request's goroutine is
    chain,      \* cands: the plan it walks
    at,         \* the index of the candidate it is on
    sent,       \* this attempt has put a chunk on the wire
    gone,       \* the caller hung up: ctx is cancelled
    verdict,    \* what the current attempt returned
    failures,   \* why each candidate so far could not serve
    outcome,    \* what the caller was told
    fails,      \* breaker.failures, per provider
    gate,       \* breaker.openUntil, per provider: zero, ahead or past
    bench,      \* Gateway.bench: the models sidelined now
    toBench,    \* the rest of a spent free pool still to be benched
    live,       \* liveState.inFlight
    usage,      \* the rows logUsage hands to usage_logs, for each request
    source,     \* history: the plan indexes whose text reached the caller
    probe,      \* history: this attempt was let in by a lapsed cooldown
    released    \* history: models that have left the bench again

walk    == <<pc, chain, at, sent, gone, verdict, failures, outcome>>
breaker == <<fails, gate>>
history == <<source, probe, released>>
vars    == <<walk, breaker, bench, toBench, live, usage, history>>

Stages   == {"new", "next", "admitted", "calling", "returned", "judging",
             "benching", "logging", "done"}
\* An attempt ends well, with a fault of the provider, with a refusal that a
\* retry will not fix, with a spent allowance, or because the caller left.
Verdicts == {"none", "ok", "fault", "denied", "spent", "gone"}
Reasons  == {"cooldown", "fault", "denied", "spent", "gone"}
Outcomes == {"none", "answered", "unroutable", "failed", "permanent", "cut off"}
Gates    == {"closed", "open", "lapsed"}
Rows     == [index : Nat \ {0}, status : {"success", "error"}]

TypeOK ==
    /\ pc        \in [Requests -> Stages]
    /\ chain     \in [Requests -> Seq(Candidate)]
    /\ at        \in [Requests -> Nat \ {0}]
    /\ sent      \in [Requests -> BOOLEAN]
    /\ gone      \in [Requests -> BOOLEAN]
    /\ verdict   \in [Requests -> Verdicts]
    /\ failures  \in [Requests -> Seq(Reasons)]
    /\ outcome   \in [Requests -> Outcomes]
    /\ fails     \in [Providers -> 0..(Trip - 1)]
    /\ gate      \in [Providers -> Gates]
    /\ bench     \in SUBSET Candidate
    /\ toBench   \in [Requests -> SUBSET Candidate]
    /\ live      \in SUBSET (Requests \X (Nat \ {0}))
    /\ usage     \in [Requests -> Seq(Rows)]
    /\ source    \in [Requests -> SUBSET (Nat \ {0})]
    /\ probe     \in [Requests -> BOOLEAN]
    /\ released  \in SUBSET Candidate

Init ==
    /\ pc        = [r \in Requests |-> "new"]
    /\ chain     = [r \in Requests |-> <<>>]
    /\ at        = [r \in Requests |-> 1]
    /\ sent      = [r \in Requests |-> FALSE]
    /\ gone      = [r \in Requests |-> FALSE]
    /\ verdict   = [r \in Requests |-> "none"]
    /\ failures  = [r \in Requests |-> <<>>]
    /\ outcome   = [r \in Requests |-> "none"]
    /\ fails     = [p \in Providers |-> 0]
    /\ gate      = [p \in Providers |-> "closed"]
    /\ bench     = {}
    /\ toBench   = [r \in Requests |-> {}]
    /\ live      = {}
    /\ usage     = [r \in Requests |-> <<>>]
    /\ source    = [r \in Requests |-> {}]
    /\ probe     = [r \in Requests |-> FALSE]
    /\ released  = {}

-----------------------------------------------------------------------------
\* What the walk reads.

Cand(r) == chain[r][at[r]]

\* allow: a provider without a breaker entry, or whose openUntil has passed.
Allow(p) == gate[p] # "open"

\* isAccessDenied on the reason of a failure: a skip for cooldown, a fault and
\* a cancelled context carry none of the marker words.
AccessDenied(reason) == reason \in {"denied", "spent"}

\* Mutant of SpentPool: only the refused model is set aside.
NoPool(r) == {}

\* The other free models of the provider whose allowance is spent.
SpentPool(r) ==
    IF verdict[r] = "spent" /\ Cand(r) \in Free
      THEN {c \in Free : c.provider = Cand(r).provider /\ c # Cand(r)}
      ELSE {}

\* Mutant of Summary: one refusal among the failures is enough.
SummaryOfAny(reasons) ==
    IF Len(reasons) > 1 /\ \E i \in DOMAIN reasons : AccessDenied(reasons[i])
      THEN "permanent" ELSE "failed"

\* summarizeFailures: one failure is reported bare; several are called
\* permanent when every one of them was a refusal.
Summary(reasons) ==
    IF Len(reasons) > 1 /\ \A i \in DOMAIN reasons : AccessDenied(reasons[i])
      THEN "permanent" ELSE "failed"

-----------------------------------------------------------------------------
\* route after a cache miss: load keys, plan, and give up when nothing can
\* serve the request.
Route(r) ==
    /\ pc[r] = "new"
    /\ \E plan \in Plans :
          /\ chain' = [chain EXCEPT ![r] = plan]
          /\ IF plan = <<>>
               THEN /\ pc'      = [pc EXCEPT ![r] = "done"]
                    /\ outcome' = [outcome EXCEPT ![r] = "unroutable"]
               ELSE /\ pc'      = [pc EXCEPT ![r] = "next"]
                    /\ UNCHANGED outcome
    /\ UNCHANGED <<at, sent, gone, verdict, failures, breaker, bench, toBench,
                   live, usage, history>>

\* Mutant of SkipInCooldown: the skipped candidate is not noted.
SkipSilently(r) ==
    /\ pc[r] = "next"
    /\ at[r] <= Len(chain[r])
    /\ ~Allow(Cand(r).provider)
    /\ at' = [at EXCEPT ![r] = @ + 1]
    /\ UNCHANGED <<pc, chain, sent, gone, verdict, failures, outcome, breaker,
                   bench, toBench, live, usage, history>>

\* The provider is in cooldown: note it and move on.
SkipInCooldown(r) ==
    /\ pc[r] = "next"
    /\ at[r] <= Len(chain[r])
    /\ ~Allow(Cand(r).provider)
    /\ failures' = [failures EXCEPT ![r] = Append(@, "cooldown")]
    /\ at' = [at EXCEPT ![r] = @ + 1]
    /\ UNCHANGED <<pc, chain, sent, gone, verdict, outcome, breaker,
                   bench, toBench, live, usage, history>>

\* allow answered yes.  The call itself starts only later, outside the lock.
Admit(r) ==
    /\ pc[r] = "next"
    /\ at[r] <= Len(chain[r])
    /\ Allow(Cand(r).provider)
    /\ pc'    = [pc EXCEPT ![r] = "admitted"]
    /\ sent'  = [sent EXCEPT ![r] = FALSE]
    /\ probe' = [probe EXCEPT ![r] = gate[Cand(r).provider] = "lapsed"]
    /\ UNCHANGED <<chain, at, gone, verdict, failures, outcome,
                   breaker, bench, toBench, live, usage, source, released>>

\* live.begin, then the upstream call is under way.
Begin(r) ==
    /\ pc[r] = "admitted"
    /\ pc'   = [pc EXCEPT ![r] = "calling"]
    /\ live' = live \cup {<<r, at[r]>>}
    /\ UNCHANGED <<chain, at, sent, gone, verdict, failures, outcome,
                   breaker, bench, toBench, usage, history>>

\* wrapped: a decoded chunk is passed to the caller.  A request that did not
\* ask to stream is one that never takes this step.
Chunk(r) ==
    /\ pc[r] = "calling"
    /\ ~gone[r]
    /\ sent'   = [sent EXCEPT ![r] = TRUE]
    /\ source' = [source EXCEPT ![r] = @ \cup {at[r]}]
    /\ UNCHANGED <<pc, chain, at, gone, verdict, failures, outcome,
                   breaker, bench, toBench, live, usage, probe, released>>

\* attempt returns.  Once the caller has hung up, Do, the body read and emit
\* all fail with the context's error; before that the upstream decides.
Return(r) ==
    /\ pc[r] = "calling"
    /\ \E v \in IF gone[r] THEN {"gone"} ELSE {"ok", "fault", "denied", "spent"} :
          verdict' = [verdict EXCEPT ![r] = v]
    /\ pc' = [pc EXCEPT ![r] = "returned"]
    /\ UNCHANGED <<chain, at, sent, gone, failures, outcome, breaker,
                   bench, toBench, live, usage, history>>

\* Mutant of EndLive: only a success clears the attempt.
EndLiveOnSuccess(r) ==
    /\ pc[r] = "returned"
    /\ pc'   = [pc EXCEPT ![r] = "judging"]
    /\ live' = IF verdict[r] = "ok" THEN live \ {<<r, at[r]>>} ELSE live
    /\ UNCHANGED <<chain, at, sent, gone, verdict, failures, outcome,
                   breaker, bench, toBench, usage, history>>

\* live.end, whether the attempt failed or not.
EndLive(r) ==
    /\ pc[r] = "returned"
    /\ pc'   = [pc EXCEPT ![r] = "judging"]
    /\ live' = live \ {<<r, at[r]>>}
    /\ UNCHANGED <<chain, at, sent, gone, verdict, failures, outcome,
                   breaker, bench, toBench, usage, history>>

\* recordSuccess: closes the breaker, whatever happened since this call began.
RecordSuccess(r) ==
    /\ pc[r] = "judging"
    /\ verdict[r] = "ok"
    /\ pc'    = [pc EXCEPT ![r] = "logging"]
    /\ fails' = [fails EXCEPT ![Cand(r).provider] = 0]
    /\ gate'  = [gate EXCEPT ![Cand(r).provider] = "closed"]
    /\ UNCHANGED <<chain, at, sent, gone, verdict, failures, outcome,
                   bench, toBench, live, usage, history>>

\* Mutant of Charge: the count is not started afresh.
ChargeWithoutReset(p) ==
    /\ fails' = [fails EXCEPT ![p] = @ + 1]
    /\ gate'  = IF fails[p] + 1 >= Trip THEN [gate EXCEPT ![p] = "open"] ELSE gate

\* recordFailure: count, and on reaching the trip count open the breaker and
\* start the count afresh.
Charge(p) ==
    IF fails[p] + 1 >= Trip
      THEN /\ fails' = [fails EXCEPT ![p] = 0]
           /\ gate'  = [gate EXCEPT ![p] = "open"]
      ELSE /\ fails' = [fails EXCEPT ![p] = @ + 1]
           /\ UNCHANGED gate

\* Any error that is not a refusal is charged to the provider.
RecordFailure(r) ==
    /\ pc[r] = "judging"
    /\ verdict[r] \in {"fault", "gone"}
    /\ Charge(Cand(r).provider)
    /\ pc' = [pc EXCEPT ![r] = "logging"]
    /\ UNCHANGED <<chain, at, sent, gone, verdict, failures, outcome,
                   bench, toBench, live, usage, history>>

\* Mutant of BenchRefused: refusals are charged too.
BenchAndCharge(r) ==
    /\ pc[r] = "judging"
    /\ AccessDenied(verdict[r])
    /\ Charge(Cand(r).provider)
    /\ bench'    = bench \cup {Cand(r)}
    /\ released' = released \ {Cand(r)}
    /\ toBench'  = [toBench EXCEPT ![r] = SpentPool(r)]
    /\ pc'       = [pc EXCEPT ![r] = "benching"]
    /\ UNCHANGED <<chain, at, sent, gone, verdict, failures, outcome,
                   live, usage, source, probe>>

\* benchIfAccessDenied: the refused model first.  The breaker is not charged.
BenchRefused(r) ==
    /\ pc[r] = "judging"
    /\ AccessDenied(verdict[r])
    /\ bench'    = bench \cup {Cand(r)}
    /\ released' = released \ {Cand(r)}
    /\ toBench'  = [toBench EXCEPT ![r] = SpentPool(r)]
    /\ pc'       = [pc EXCEPT ![r] = "benching"]
    /\ UNCHANGED <<chain, at, sent, gone, verdict, failures, outcome,
                   breaker, live, usage, source, probe>>

\* Then each other free model of a spent pool, one lock at a time.
BenchPool(r) ==
    /\ pc[r] = "benching"
    /\ \E c \in toBench[r] :
          /\ bench'    = bench \cup {c}
          /\ released' = released \ {c}
          /\ toBench'  = [toBench EXCEPT ![r] = @ \ {c}]
    /\ UNCHANGED <<walk, breaker, live, usage, source, probe>>

BenchDone(r) ==
    /\ pc[r] = "benching"
    /\ toBench[r] = {}
    /\ pc' = [pc EXCEPT ![r] = "logging"]
    /\ UNCHANGED <<chain, at, sent, gone, verdict, failures, outcome,
                   breaker, bench, toBench, live, usage, history>>

\* logUsage of a success, and the answer goes back to the caller.
Answer(r) ==
    /\ pc[r] = "logging"
    /\ verdict[r] = "ok"
    /\ usage'   = [usage EXCEPT ![r] =
                     Append(@, [index |-> at[r], status |-> "success"])]
    /\ pc'      = [pc EXCEPT ![r] = "done"]
    /\ outcome' = [outcome EXCEPT ![r] = "answered"]
    /\ UNCHANGED <<chain, at, sent, gone, verdict, failures, breaker,
                   bench, toBench, live, history>>

\* Mutant of MoveOn: the walk goes on even after text was sent.
MoveOnAnyway(r) ==
    /\ pc[r] = "logging"
    /\ verdict[r] # "ok"
    /\ usage'    = [usage EXCEPT ![r] =
                      Append(@, [index |-> at[r], status |-> "error"])]
    /\ failures' = [failures EXCEPT ![r] = Append(@, verdict[r])]
    /\ pc'       = [pc EXCEPT ![r] = "next"]
    /\ at'       = [at EXCEPT ![r] = @ + 1]
    /\ UNCHANGED <<chain, sent, gone, verdict, outcome, breaker, bench,
                   toBench, live, history>>

\* Mutant of MoveOn: an attempt the caller saw part of is not metered.
MoveOnUnmetered(r) ==
    /\ pc[r] = "logging"
    /\ verdict[r] # "ok"
    /\ failures' = [failures EXCEPT ![r] = Append(@, verdict[r])]
    /\ IF sent[r]
         THEN /\ pc'      = [pc EXCEPT ![r] = "done"]
              /\ outcome' = [outcome EXCEPT ![r] = "cut off"]
              /\ UNCHANGED <<at, usage>>
         ELSE /\ pc'      = [pc EXCEPT ![r] = "next"]
              /\ at'      = [at EXCEPT ![r] = @ + 1]
              /\ usage'   = [usage EXCEPT ![r] =
                               Append(@, [index |-> at[r], status |-> "error"])]
              /\ UNCHANGED outcome
    /\ UNCHANGED <<chain, sent, gone, verdict, breaker, bench,
                   toBench, live, history>>

\* Mutant of MoveOn: the same candidate is tried again for as long as it fails.
RetryForever(r) ==
    /\ pc[r] = "logging"
    /\ verdict[r] # "ok"
    /\ pc' = [pc EXCEPT ![r] = "next"]
    /\ UNCHANGED <<chain, at, sent, gone, verdict, failures, outcome, breaker,
                   bench, toBench, live, usage, history>>

\* logUsage of a failure.  The walk goes on to the next candidate unless the
\* caller has already read part of this one.
MoveOn(r) ==
    /\ pc[r] = "logging"
    /\ verdict[r] # "ok"
    /\ usage'    = [usage EXCEPT ![r] =
                      Append(@, [index |-> at[r], status |-> "error"])]
    /\ failures' = [failures EXCEPT ![r] = Append(@, verdict[r])]
    /\ IF sent[r]
         THEN /\ pc'      = [pc EXCEPT ![r] = "done"]
              /\ outcome' = [outcome EXCEPT ![r] = "cut off"]
              /\ UNCHANGED at
         ELSE /\ pc'      = [pc EXCEPT ![r] = "next"]
              /\ at'      = [at EXCEPT ![r] = @ + 1]
              /\ UNCHANGED outcome
    /\ UNCHANGED <<chain, sent, gone, verdict, breaker, bench,
                   toBench, live, history>>

\* Every candidate has failed.
Exhausted(r) ==
    /\ pc[r] = "next"
    /\ at[r] > Len(chain[r])
    /\ pc'      = [pc EXCEPT ![r] = "done"]
    /\ outcome' = [outcome EXCEPT ![r] = Summary(failures[r])]
    /\ UNCHANGED <<chain, at, sent, gone, verdict, failures, breaker,
                   bench, toBench, live, usage, history>>

-----------------------------------------------------------------------------
\* The surroundings.

\* The caller hangs up; net/http cancels the request's context.
Disconnect(r) ==
    /\ pc[r] \notin {"new", "done"}
    /\ ~gone[r]
    /\ gone' = [gone EXCEPT ![r] = TRUE]
    /\ UNCHANGED <<pc, chain, at, sent, verdict, failures, outcome,
                   breaker, bench, toBench, live, usage, history>>

\* BreakerCooldown passes.
CooldownLapses(p) ==
    /\ gate[p] = "open"
    /\ gate' = [gate EXCEPT ![p] = "lapsed"]
    /\ UNCHANGED <<walk, fails, bench, toBench, live, usage, history>>

\* benchDuration passes for one model; benched drops the entry when it next
\* looks at it.
BenchLapses(c) ==
    /\ c \in bench
    /\ bench'    = bench \ {c}
    /\ released' = released \cup {c}
    /\ UNCHANGED <<walk, breaker, toBench, live, usage, source, probe>>

\* ClearBench, when an operator stores a provider key.
ClearBench ==
    /\ bench # {}
    /\ bench'    = {}
    /\ released' = released \cup bench
    /\ UNCHANGED <<walk, breaker, toBench, live, usage, source, probe>>

\* Nothing is left to do.
Finished ==
    /\ \A r \in Requests : pc[r] = "done"
    /\ UNCHANGED vars

Step(r) ==
    \/ Route(r) \/ SkipInCooldown(r) \/ Admit(r) \/ Begin(r) \/ Chunk(r)
    \/ Return(r) \/ EndLive(r) \/ RecordSuccess(r) \/ RecordFailure(r)
    \/ BenchRefused(r) \/ BenchPool(r) \/ BenchDone(r)
    \/ Answer(r) \/ MoveOn(r) \/ Exhausted(r)

Next ==
    \/ \E r \in Requests : Step(r)
    \/ \E r \in Requests : Disconnect(r)
    \/ \E p \in Providers : CooldownLapses(p)
    \/ \E c \in Candidate : BenchLapses(c)
    \/ ClearBench
    \/ Finished

Spec == Init /\ [][Next]_vars

\* Goroutines are scheduled, and an upstream call is bounded by the http
\* client's RequestTimeout, so each of a request's steps but Chunk is taken
\* once it stays enabled.  Nothing is assumed of cooldowns or benches.
Progress(r) ==
    \/ Route(r) \/ SkipInCooldown(r) \/ Admit(r) \/ Begin(r)
    \/ Return(r) \/ EndLive(r) \/ RecordSuccess(r) \/ RecordFailure(r)
    \/ BenchRefused(r) \/ BenchPool(r) \/ BenchDone(r)
    \/ Answer(r) \/ MoveOn(r) \/ Exhausted(r)

FairSpec ==
    /\ Spec
    /\ \A r \in Requests : WF_vars(Progress(r))

-----------------------------------------------------------------------------
\* Properties.

\* A caller never reads text of two upstreams, even when the first one fails
\* mid-stream and others are left in the plan: attemptChain's "retrying on
\* another provider would splice two different completions".
NoSplice == \A r \in Requests : Cardinality(source[r]) <= 1

\* An error without text means every candidate of the plan was tried or in
\* cooldown, and the failures name them in order: "A caller only sees an error
\* once every one of them has failed."
EveryCandidateFailed ==
    \A r \in Requests :
        /\ outcome[r] \in {"failed", "permanent"} =>
              Len(failures[r]) = Len(chain[r])
        /\ outcome[r] = "cut off" => at[r] \in source[r]

\* "retrying will not help" is said only when every candidate was really asked
\* and really refused: none was skipped for cooldown, failed, or lost to the
\* caller's own hanging up.
PermanentMeansRefused ==
    \A r \in Requests :
        outcome[r] = "permanent" =>
            \A i \in DOMAIN chain[r] :
                /\ failures[r][i] \in {"denied", "spent"}
                /\ \E k \in DOMAIN usage[r] : usage[r][k].index = i

\* The dashboard's live view lists exactly the attempts between live.begin and
\* live.end: nothing leaks when a walk moves on, is cut off or hangs up.
LiveIsExact ==
    live = {<<r, at[r]>> : r \in {q \in Requests : pc[q] \in {"calling", "returned"}}}

\* The candidates whose upstream was asked and has been heard of: every one
\* the walk gave up on but those it skipped for cooldown, and the answering one.
Asked(r) ==
    {i \in DOMAIN failures[r] : failures[r][i] # "cooldown"}
        \cup {i \in {at[r]} : outcome[r] = "answered"}

\* usage_logs: every attempt that came back is given its one row, in plan
\* order, whatever it ended in (an answer, a fault, a refusal, a caller gone, a
\* stream cut off); a skipped candidate is given none; and a request has a
\* success row exactly when its caller got an answer.  (An INSERT that fails
\* is only logged, and loses that row.)
MeteredOnce ==
    \A r \in Requests :
        /\ {usage[r][k].index : k \in DOMAIN usage[r]} = Asked(r)
        /\ \A i, k \in DOMAIN usage[r] : i < k => usage[r][i].index < usage[r][k].index
        /\ \A k \in DOMAIN usage[r] :
              usage[r][k].status = "success" <=>
                  outcome[r] = "answered" /\ k = Len(usage[r])

\* A model that refused sits out until its bench entry lapses or is cleared,
\* and when a free allowance was spent the provider's whole free pool does.
RefusedSitOut ==
    \A r \in Requests : \A i \in DOMAIN failures[r] :
        LET c == chain[r][i] IN
        /\ failures[r][i] \in {"denied", "spent"} => c \in bench \cup released
        /\ failures[r][i] = "spent" /\ c \in Free =>
              \A d \in Free : d.provider = c.provider => d \in bench \cup released

\* A provider leaves rotation only in a step that handles an error which is
\* not a refusal: no mix of concurrent refusals opens a breaker.
RefusalsNeverTrip ==
    [][\A p \in Providers :
          gate[p] # "open" /\ gate'[p] = "open" =>
              \E r \in Requests :
                  /\ pc[r] = "judging" /\ pc'[r] = "logging"
                  /\ Cand(r).provider = p
                  /\ ~AccessDenied(verdict[r]) /\ verdict[r] # "ok"]_vars

\* Every request is told something, however its walk goes: with upstreams that
\* fail, providers that stay in cooldown for ever and a bench that never lapses.
RequestsFinish == \A r \in Requests : <>(pc[r] = "done")

\* How a request stands in the terms of Failover.
Standing(r) ==
    IF outcome[r] \in {"unroutable", "failed", "permanent"} THEN "refused"
    ELSE IF outcome[r] # "none" THEN outcome[r]
    ELSE IF pc[r] = "new" THEN "new" ELSE "open"

Promise == INSTANCE Failover WITH
    status <- [r \in Requests |-> Standing(r)],
    slots  <- [r \in Requests |-> Len(chain[r])],
    gaveUp <- [r \in Requests |-> 1..Len(failures[r])],
    from   <- source

\* The walk keeps the promise of Failover: slots are given up in order and only
\* before any text is sent, one slot's text reaches the caller, and a request
\* ends answered, cut off by the slot it was reading, or refused after all.
ImplementsFailover == Promise!FSpec

-----------------------------------------------------------------------------
\* What the code's comments say of it and the code does not do.

\* gateway.go, type breaker: "lets a single request probe it again once the
\* cooldown expires".
SingleProbe ==
    \A p \in Providers :
        Cardinality({r \in Requests :
            /\ pc[r] \in {"admitted", "calling"}
            /\ probe[r]
            /\ Cand(r).provider = p}) <= 1

\* gateway.go, attemptChain: "The circuit breaker is about provider health":
\* a provider in cooldown has had at least one fault of its own.
CooldownMeansFault ==
    \A p \in Providers :
        gate[p] = "open" =>
            \E r \in Requests :
                \/ \E i \in DOMAIN failures[r] :
                      failures[r][i] = "fault" /\ chain[r][i].provider = p
                \/ /\ verdict[r] = "fault"
                   /\ pc[r] \in {"logging"} /\ Cand(r).provider = p
=============================================================================
