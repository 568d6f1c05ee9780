------------------------- MODULE AttemptChainProofs -------------------------
(***************************************************************************)
(* Proofs about AttemptChain, for every set of requests, providers, models *)
(* and plans, and every trip count.                                        *)
(***************************************************************************)
EXTENDS AttemptChain, FiniteSetTheorems, TLAPS

InAttempt == {"admitted", "calling", "returned", "judging", "benching", "logging"}

(***************************************************************************)
(* The inductive strengthening.  While a request walks, the failures noted *)
(* so far are one per candidate passed, and the only candidate whose text  *)
(* the caller can have seen is the one it is on.                           *)
(***************************************************************************)
NewOK(r) ==
    pc[r] = "new" => /\ chain[r] = <<>> /\ failures[r] = <<>>
                     /\ at[r] = 1 /\ source[r] = {}

WalkingOK(r) ==
    pc[r] \in InAttempt \cup {"next"} =>
        /\ Len(failures[r]) = at[r] - 1
        /\ at[r] <= Len(chain[r]) + 1
        /\ pc[r] # "next" => at[r] <= Len(chain[r])

SourceOK(r) ==
    /\ pc[r] \in {"next", "admitted"} => source[r] = {}
    /\ pc[r] = "admitted" => ~sent[r]
    /\ pc[r] \in InAttempt => source[r] = IF sent[r] THEN {at[r]} ELSE {}

DoneOK(r) ==
    /\ pc[r] = "done" <=> outcome[r] # "none"
    /\ outcome[r] = "unroutable" => /\ chain[r] = <<>> /\ failures[r] = <<>>
                                    /\ source[r] = {}
    /\ outcome[r] = "answered" =>
          /\ Len(failures[r]) = at[r] - 1 /\ at[r] <= Len(chain[r])
          /\ source[r] \in {{}, {at[r]}}
    /\ outcome[r] = "cut off" =>
          /\ Len(failures[r]) = at[r] /\ at[r] <= Len(chain[r])
          /\ source[r] = {at[r]}
    /\ outcome[r] \in {"failed", "permanent"} =>
          /\ Len(failures[r]) = Len(chain[r]) /\ source[r] = {}

VerdictOK(r) ==
    pc[r] \in {"returned", "judging", "benching", "logging"} => verdict[r] # "none"

WalkOK(r) == NewOK(r) /\ WalkingOK(r) /\ SourceOK(r) /\ VerdictOK(r) /\ DoneOK(r)

IInv == TypeOK /\ \A r \in Requests : WalkOK(r)

-----------------------------------------------------------------------------
\* A request in the middle of an attempt is on a candidate of its plan.
LEMMA CandOK ==
    ASSUME IInv, NEW r \in Requests, pc[r] \in InAttempt
    PROVE  Cand(r) \in Candidate /\ Cand(r).provider \in Providers
  <1>1. chain[r] \in Seq(Candidate) /\ at[r] \in Nat \ {0}
    BY DEF IInv, TypeOK
  <1>2. at[r] <= Len(chain[r])
    BY DEF IInv, WalkOK, WalkingOK, InAttempt
  <1>3. chain[r][at[r]] \in Candidate
    BY <1>1, <1>2
  <1> QED BY <1>3 DEF Cand, Candidate

LEMMA InitIInv == Init => IInv
  BY TripAssumption DEF Init, IInv, TypeOK, WalkOK, NewOK, WalkingOK, SourceOK, VerdictOK,
     DoneOK, InAttempt, Stages, Verdicts, Outcomes, Gates, Reasons

\* Every action keeps the types: one step per variable it assigns.
LEMMA NextTypeOK == IInv /\ [Next]_vars => TypeOK'
  <1> SUFFICES ASSUME IInv, [Next]_vars PROVE TypeOK'
    OBVIOUS
  <1>0. TypeOK
    BY DEF IInv
  <1>1. ASSUME NEW r \in Requests, Route(r) PROVE TypeOK'
    <2>1. pc' \in [Requests -> Stages]
      BY <1>0, <1>1 DEF Route, TypeOK, Stages
    <2>2. chain' \in [Requests -> Seq(Candidate)]
      BY <1>0, <1>1, PlansAssumption DEF Route, TypeOK
    <2>3. outcome' \in [Requests -> Outcomes]
      BY <1>0, <1>1 DEF Route, TypeOK, Outcomes
    <2> QED BY <1>0, <1>1, <2>1, <2>2, <2>3 DEF Route, TypeOK, walk, breaker, history
  <1>2. ASSUME NEW r \in Requests, SkipInCooldown(r) PROVE TypeOK'
    <2>1. failures' \in [Requests -> Seq(Reasons)]
      BY <1>0, <1>2 DEF SkipInCooldown, TypeOK, Reasons
    <2>2. at' \in [Requests -> Nat \ {0}]
      BY <1>0, <1>2 DEF SkipInCooldown, TypeOK
    <2> QED BY <1>0, <1>2, <2>1, <2>2 DEF SkipInCooldown, TypeOK, walk, breaker, history
  <1>3. ASSUME NEW r \in Requests, Admit(r) PROVE TypeOK'
    <2>1. pc' \in [Requests -> Stages]
      BY <1>0, <1>3 DEF Admit, TypeOK, Stages
    <2>2. sent' \in [Requests -> BOOLEAN]
      BY <1>0, <1>3 DEF Admit, TypeOK
    <2>3. probe' \in [Requests -> BOOLEAN]
      BY <1>0, <1>3 DEF Admit, TypeOK
    <2> QED BY <1>0, <1>3, <2>1, <2>2, <2>3 DEF Admit, TypeOK, walk, breaker, history
  <1>4. ASSUME NEW r \in Requests, Begin(r) PROVE TypeOK'
    <2>1. pc' \in [Requests -> Stages]
      BY <1>0, <1>4 DEF Begin, TypeOK, Stages
    <2>2. live' \in SUBSET (Requests \X (Nat \ {0}))
      BY <1>0, <1>4 DEF Begin, TypeOK
    <2> QED BY <1>0, <1>4, <2>1, <2>2 DEF Begin, TypeOK, walk, breaker, history
  <1>5. ASSUME NEW r \in Requests, Chunk(r) PROVE TypeOK'
    <2>1. sent' \in [Requests -> BOOLEAN]
      BY <1>0, <1>5 DEF Chunk, TypeOK
    <2>2. source' \in [Requests -> SUBSET (Nat \ {0})]
      BY <1>0, <1>5 DEF Chunk, TypeOK
    <2> QED BY <1>0, <1>5, <2>1, <2>2 DEF Chunk, TypeOK, walk, breaker, history
  <1>6. ASSUME NEW r \in Requests, Return(r) PROVE TypeOK'
    <2>1. pc' \in [Requests -> Stages]
      BY <1>0, <1>6 DEF Return, TypeOK, Stages
    <2>2. verdict' \in [Requests -> Verdicts]
      BY <1>0, <1>6 DEF Return, TypeOK, Verdicts
    <2> QED BY <1>0, <1>6, <2>1, <2>2 DEF Return, TypeOK, walk, breaker, history
  <1>7. ASSUME NEW r \in Requests, EndLive(r) PROVE TypeOK'
    <2>1. pc' \in [Requests -> Stages]
      BY <1>0, <1>7 DEF EndLive, TypeOK, Stages
    <2>2. live' \in SUBSET (Requests \X (Nat \ {0}))
      BY <1>0, <1>7 DEF EndLive, TypeOK
    <2> QED BY <1>0, <1>7, <2>1, <2>2 DEF EndLive, TypeOK, walk, breaker, history
  <1>8. ASSUME NEW r \in Requests, RecordSuccess(r) PROVE TypeOK'
    <2>1. pc' \in [Requests -> Stages]
      BY <1>0, <1>8 DEF RecordSuccess, TypeOK, Stages
    <2>2. fails' \in [Providers -> 0..(Trip - 1)]
      <3>1. 0 \in 0..(Trip - 1)
        BY TripAssumption
      <3> QED BY <1>0, <1>8, <3>1 DEF RecordSuccess, TypeOK
    <2>3. gate' \in [Providers -> Gates]
      BY <1>0, <1>8 DEF RecordSuccess, TypeOK, Gates
    <2> QED BY <1>0, <1>8, <2>1, <2>2, <2>3 DEF RecordSuccess, TypeOK, walk, breaker, history
  <1>9. ASSUME NEW r \in Requests, RecordFailure(r) PROVE TypeOK'
    <2>1. pc' \in [Requests -> Stages]
      BY <1>0, <1>9 DEF RecordFailure, TypeOK, Stages
    <2>2. fails' \in [Providers -> 0..(Trip - 1)]
      <3> DEFINE p == Cand(r).provider
      <3>1. CASE fails[p] + 1 >= Trip
        <4>1. 0 \in 0..(Trip - 1)
          BY TripAssumption
        <4>2. fails' = [fails EXCEPT ![p] = 0]
          BY <1>9, <3>1 DEF RecordFailure, Charge
        <4> QED BY <1>0, <4>1, <4>2 DEF TypeOK
      <3>2. CASE ~(fails[p] + 1 >= Trip)
        <4>1. fails' = [fails EXCEPT ![p] = @ + 1]
          BY <1>9, <3>2 DEF RecordFailure, Charge
        <4>2. p \in Providers => fails[p] + 1 \in 0..(Trip - 1)
          BY <1>0, <3>2, TripAssumption DEF TypeOK
        <4> QED BY <1>0, <4>1, <4>2 DEF TypeOK
      <3> QED BY <3>1, <3>2
    <2>3. gate' \in [Providers -> Gates]
      BY <1>0, <1>9 DEF RecordFailure, TypeOK, Gates, Charge
    <2> QED BY <1>0, <1>9, <2>1, <2>2, <2>3 DEF RecordFailure, TypeOK, walk, breaker, history
  <1>10. ASSUME NEW r \in Requests, BenchRefused(r) PROVE TypeOK'
    <2>0. Cand(r) \in Candidate
      BY <1>10, CandOK DEF BenchRefused, InAttempt
    <2>1. pc' \in [Requests -> Stages]
      BY <1>0, <1>10 DEF BenchRefused, TypeOK, Stages
    <2>2. bench' \in SUBSET Candidate
      BY <1>0, <1>10, <2>0 DEF BenchRefused, TypeOK
    <2>3. released' \in SUBSET Candidate
      BY <1>0, <1>10, <2>0 DEF BenchRefused, TypeOK
    <2>4. toBench' \in [Requests -> SUBSET Candidate]
      BY <1>0, <1>10, <2>0, FreeAssumption DEF BenchRefused, TypeOK, SpentPool
    <2> QED BY <1>0, <1>10, <2>1, <2>2, <2>3, <2>4 DEF BenchRefused, TypeOK, walk, breaker, history
  <1>11. ASSUME NEW r \in Requests, BenchPool(r) PROVE TypeOK'
    <2>1. bench' \in SUBSET Candidate
      BY <1>0, <1>11 DEF BenchPool, TypeOK
    <2>2. released' \in SUBSET Candidate
      BY <1>0, <1>11 DEF BenchPool, TypeOK
    <2>3. toBench' \in [Requests -> SUBSET Candidate]
      BY <1>0, <1>11 DEF BenchPool, TypeOK
    <2> QED BY <1>0, <1>11, <2>1, <2>2, <2>3 DEF BenchPool, TypeOK, walk, breaker, history
  <1>12. ASSUME NEW r \in Requests, BenchDone(r) PROVE TypeOK'
    <2>1. pc' \in [Requests -> Stages]
      BY <1>0, <1>12 DEF BenchDone, TypeOK, Stages
    <2> QED BY <1>0, <1>12, <2>1 DEF BenchDone, TypeOK, walk, breaker, history
  <1>13. ASSUME NEW r \in Requests, Answer(r) PROVE TypeOK'
    <2>1. pc' \in [Requests -> Stages]
      BY <1>0, <1>13 DEF Answer, TypeOK, Stages
    <2>2. usage' \in [Requests -> Seq(Rows)]
      BY <1>0, <1>13 DEF Answer, TypeOK, Rows
    <2>3. outcome' \in [Requests -> Outcomes]
      BY <1>0, <1>13 DEF Answer, TypeOK, Outcomes
    <2> QED BY <1>0, <1>13, <2>1, <2>2, <2>3 DEF Answer, TypeOK, walk, breaker, history
  <1>14. ASSUME NEW r \in Requests, MoveOn(r) PROVE TypeOK'
    <2>1. pc' \in [Requests -> Stages]
      BY <1>0, <1>14 DEF MoveOn, TypeOK, Stages
    <2>2. at' \in [Requests -> Nat \ {0}]
      <3>1. at[r] + 1 \in Nat \ {0}
        BY <1>0 DEF TypeOK
      <3>2. at' = at \/ at' = [at EXCEPT ![r] = at[r] + 1]
        BY <1>0, <1>14 DEF MoveOn, TypeOK
      <3> QED BY <1>0, <3>1, <3>2 DEF TypeOK
    <2>3. usage' \in [Requests -> Seq(Rows)]
      <3> DEFINE row == [index |-> at[r], status |-> "error"]
      <3>1. row \in Rows
        BY <1>0 DEF TypeOK, Rows
      <3>2. usage' = [usage EXCEPT ![r] = Append(usage[r], row)]
        BY <1>0, <1>14 DEF MoveOn, TypeOK
      <3>3. Append(usage[r], row) \in Seq(Rows)
        BY <1>0, <3>1 DEF TypeOK
      <3> QED BY <1>0, <3>2, <3>3 DEF TypeOK
    <2>4. failures' \in [Requests -> Seq(Reasons)]
      <3>1. verdict[r] \in Reasons
        BY <1>0, <1>14 DEF IInv, WalkOK, VerdictOK, MoveOn, TypeOK, Reasons, Verdicts
      <3>2. Append(failures[r], verdict[r]) \in Seq(Reasons)
        BY <1>0, <3>1 DEF TypeOK
      <3>3. failures' = [failures EXCEPT ![r] = Append(failures[r], verdict[r])]
        BY <1>14 DEF MoveOn
      <3> QED BY <1>0, <3>2, <3>3 DEF TypeOK
    <2>5. outcome' \in [Requests -> Outcomes]
      BY <1>0, <1>14 DEF MoveOn, TypeOK, Outcomes
    <2> QED BY <1>0, <1>14, <2>1, <2>2, <2>3, <2>4, <2>5 DEF MoveOn, TypeOK, walk, breaker, history
  <1>15. ASSUME NEW r \in Requests, Exhausted(r) PROVE TypeOK'
    <2>1. pc' \in [Requests -> Stages]
      BY <1>0, <1>15 DEF Exhausted, TypeOK, Stages
    <2>2. outcome' \in [Requests -> Outcomes]
      BY <1>0, <1>15 DEF Exhausted, TypeOK, Outcomes, Summary
    <2> QED BY <1>0, <1>15, <2>1, <2>2 DEF Exhausted, TypeOK, walk, breaker, history
  <1>16. ASSUME NEW r \in Requests, Disconnect(r) PROVE TypeOK'
    <2>1. gone' \in [Requests -> BOOLEAN]
      BY <1>0, <1>16 DEF Disconnect, TypeOK
    <2> QED BY <1>0, <1>16, <2>1 DEF Disconnect, TypeOK, walk, breaker, history
  <1>17. ASSUME NEW p \in Providers, CooldownLapses(p) PROVE TypeOK'
    BY <1>0, <1>17 DEF CooldownLapses, TypeOK, Gates, walk, breaker, history
  <1>18. ASSUME NEW c \in Candidate, BenchLapses(c) PROVE TypeOK'
    BY <1>0, <1>18 DEF BenchLapses, TypeOK, walk, breaker, history
  <1>19. ASSUME ClearBench PROVE TypeOK'
    BY <1>0, <1>19 DEF ClearBench, TypeOK, walk, breaker, history
  <1>20. ASSUME UNCHANGED vars PROVE TypeOK'
    BY <1>0, <1>20 DEF vars, TypeOK, walk, breaker, history
  <1> QED
    BY <1>1, <1>2, <1>3, <1>4, <1>5, <1>6, <1>7, <1>8, <1>9, <1>10,
       <1>11, <1>12, <1>13, <1>14, <1>15, <1>16, <1>17, <1>18, <1>19, <1>20 DEF Next, Step, Finished

\* Every action re-establishes WalkOK for every request, the one that moves
\* and the others.
LEMMA NextWalkOK == IInv /\ [Next]_vars => \A q \in Requests : WalkOK(q)'
  <1> SUFFICES ASSUME IInv, [Next]_vars, NEW q \in Requests PROVE WalkOK(q)'
    OBVIOUS
  <1>0. TypeOK /\ WalkOK(q)
    BY DEF IInv
  <1>1. ASSUME NEW r \in Requests, Route(r) PROVE WalkOK(q)'
    <2>1. CASE q = r
      <3>1. PICK plan \in Plans :
              /\ chain' = [chain EXCEPT ![r] = plan]
              /\ plan = <<>> => /\ pc' = [pc EXCEPT ![r] = "done"]
                                /\ outcome' = [outcome EXCEPT ![r] = "unroutable"]
              /\ plan # <<>> => /\ pc' = [pc EXCEPT ![r] = "next"]
                                /\ outcome' = outcome
        BY <1>1 DEF Route
      <3>2. /\ failures'[r] = <<>> /\ at'[r] = 1
            /\ source'[r] = {} /\ chain'[r] = plan
        BY <1>0, <1>1, <2>1, <3>1 DEF Route, TypeOK, history, WalkOK, NewOK
      <3>3. Len(plan) \in Nat
        <4>1. plan \in Seq(Candidate)
          BY PlansAssumption
        <4> QED BY <4>1
      <3>4. outcome[r] = "none"
        BY <1>0, <1>1, <2>1 DEF Route, WalkOK, DoneOK
      <3>5. CASE plan = <<>>
        BY <1>0, <2>1, <3>1, <3>2, <3>3, <3>4, <3>5 DEF TypeOK, WalkOK, NewOK,
           WalkingOK, SourceOK, VerdictOK, DoneOK, InAttempt
      <3>6. CASE plan # <<>>
        BY <1>0, <2>1, <3>1, <3>2, <3>3, <3>4, <3>6 DEF TypeOK, WalkOK, NewOK,
           WalkingOK, SourceOK, VerdictOK, DoneOK, InAttempt
      <3> QED BY <3>5, <3>6
    <2>2. CASE q # r
      BY <1>0, <1>1, <2>2, PlansAssumption DEF Route, TypeOK, history, WalkOK, NewOK, WalkingOK,
         SourceOK, VerdictOK, DoneOK, InAttempt
    <2> QED BY <2>1, <2>2
  <1>2. ASSUME NEW r \in Requests, SkipInCooldown(r) PROVE WalkOK(q)'
    <2>1. CASE q = r
      BY <1>0, <1>2, <2>1 DEF SkipInCooldown, TypeOK, history, WalkOK, NewOK, WalkingOK,
         SourceOK, VerdictOK, DoneOK, InAttempt
    <2>2. CASE q # r
      BY <1>0, <1>2, <2>2 DEF SkipInCooldown, TypeOK, history, WalkOK, NewOK, WalkingOK,
         SourceOK, VerdictOK, DoneOK, InAttempt
    <2> QED BY <2>1, <2>2
  <1>3. ASSUME NEW r \in Requests, Admit(r) PROVE WalkOK(q)'
    <2>1. CASE q = r
      BY <1>0, <1>3, <2>1 DEF Admit, TypeOK, history, WalkOK, NewOK, WalkingOK,
         SourceOK, VerdictOK, DoneOK, InAttempt
    <2>2. CASE q # r
      BY <1>0, <1>3, <2>2 DEF Admit, TypeOK, history, WalkOK, NewOK, WalkingOK,
         SourceOK, VerdictOK, DoneOK, InAttempt
    <2> QED BY <2>1, <2>2
  <1>4. ASSUME NEW r \in Requests, Begin(r) PROVE WalkOK(q)'
    BY <1>0, <1>4 DEF Begin, TypeOK, history, WalkOK, NewOK, WalkingOK,
         SourceOK, VerdictOK, DoneOK, InAttempt
  <1>5. ASSUME NEW r \in Requests, Chunk(r) PROVE WalkOK(q)'
    <2>1. CASE q = r
      BY <1>0, <1>5, <2>1 DEF Chunk, TypeOK, history, WalkOK, NewOK, WalkingOK,
         SourceOK, VerdictOK, DoneOK, InAttempt
    <2>2. CASE q # r
      BY <1>0, <1>5, <2>2 DEF Chunk, TypeOK, history, WalkOK, NewOK, WalkingOK,
         SourceOK, VerdictOK, DoneOK, InAttempt
    <2> QED BY <2>1, <2>2
  <1>6. ASSUME NEW r \in Requests, Return(r) PROVE WalkOK(q)'
    BY <1>0, <1>6 DEF Return, TypeOK, history, WalkOK, NewOK, WalkingOK,
         SourceOK, VerdictOK, DoneOK, InAttempt
  <1>7. ASSUME NEW r \in Requests, EndLive(r) PROVE WalkOK(q)'
    BY <1>0, <1>7 DEF EndLive, TypeOK, history, WalkOK, NewOK, WalkingOK,
         SourceOK, VerdictOK, DoneOK, InAttempt
  <1>8. ASSUME NEW r \in Requests, RecordSuccess(r) PROVE WalkOK(q)'
    BY <1>0, <1>8 DEF RecordSuccess, TypeOK, history, WalkOK, NewOK, WalkingOK,
         SourceOK, VerdictOK, DoneOK, InAttempt
  <1>9. ASSUME NEW r \in Requests, RecordFailure(r) PROVE WalkOK(q)'
    BY <1>0, <1>9 DEF RecordFailure, TypeOK, history, WalkOK, NewOK, WalkingOK,
         SourceOK, VerdictOK, DoneOK, InAttempt
  <1>10. ASSUME NEW r \in Requests, BenchRefused(r) PROVE WalkOK(q)'
    BY <1>0, <1>10 DEF BenchRefused, TypeOK, history, WalkOK, NewOK, WalkingOK,
         SourceOK, VerdictOK, DoneOK, InAttempt
  <1>11. ASSUME NEW r \in Requests, BenchPool(r) PROVE WalkOK(q)'
    BY <1>0, <1>11 DEF BenchPool, TypeOK, history, walk, WalkOK, NewOK, WalkingOK,
         SourceOK, VerdictOK, DoneOK, InAttempt
  <1>12. ASSUME NEW r \in Requests, BenchDone(r) PROVE WalkOK(q)'
    BY <1>0, <1>12 DEF BenchDone, TypeOK, history, WalkOK, NewOK, WalkingOK,
         SourceOK, VerdictOK, DoneOK, InAttempt
  <1>13. ASSUME NEW r \in Requests, Answer(r) PROVE WalkOK(q)'
    BY <1>0, <1>13 DEF Answer, TypeOK, history, WalkOK, NewOK, WalkingOK,
         SourceOK, VerdictOK, DoneOK, InAttempt
  <1>14. ASSUME NEW r \in Requests, MoveOn(r) PROVE WalkOK(q)'
    <2>1. CASE q = r
      <3>1. Len(failures'[r]) = at[r]
        <4>1. failures'[r] = Append(failures[r], verdict[r])
          BY <1>0, <1>14 DEF MoveOn, TypeOK
        <4>2. /\ failures[r] \in Seq(Reasons) /\ at[r] \in Nat
              /\ Len(failures[r]) = at[r] - 1
          BY <1>0, <1>14, <2>1 DEF MoveOn, TypeOK, WalkOK, WalkingOK, InAttempt
        <4> QED BY <4>1, <4>2
      <3>2. /\ at[r] \in Nat /\ chain'[r] = chain[r] /\ sent'[r] = sent[r]
            /\ source'[r] = source[r] /\ at[r] <= Len(chain[r])
            /\ source[r] = IF sent[r] THEN {at[r]} ELSE {}
        BY <1>0, <1>14, <2>1 DEF MoveOn, TypeOK, history, WalkOK, WalkingOK,
           SourceOK, InAttempt
      <3>3. Len(chain[r]) \in Nat
        BY <1>0 DEF TypeOK
      <3>4. outcome[r] = "none"
        BY <1>0, <1>14, <2>1 DEF MoveOn, WalkOK, DoneOK
      <3>5. CASE sent[r]
        <4>1. /\ pc'[r] = "done" /\ outcome'[r] = "cut off" /\ at'[r] = at[r]
          BY <1>0, <1>14, <3>5 DEF MoveOn, TypeOK
        <4> QED BY <2>1, <3>1, <3>2, <3>5, <4>1 DEF
              WalkOK, NewOK, WalkingOK, SourceOK, VerdictOK, DoneOK, InAttempt
      <3>6. CASE ~sent[r]
        BY <1>0, <1>14, <2>1, <3>1, <3>2, <3>3, <3>4, <3>6 DEF MoveOn, TypeOK,
           WalkOK, NewOK, WalkingOK, SourceOK, VerdictOK, DoneOK, InAttempt
      <3> QED BY <3>5, <3>6
    <2>2. CASE q # r
      BY <1>0, <1>14, <2>2 DEF MoveOn, TypeOK, history, WalkOK, NewOK, WalkingOK,
         SourceOK, VerdictOK, DoneOK, InAttempt
    <2> QED BY <2>1, <2>2
  <1>15. ASSUME NEW r \in Requests, Exhausted(r) PROVE WalkOK(q)'
    <2>1. CASE q = r
      BY <1>0, <1>15, <2>1 DEF Exhausted, TypeOK, history, Summary, WalkOK, NewOK, WalkingOK,
         SourceOK, VerdictOK, DoneOK, InAttempt
    <2>2. CASE q # r
      BY <1>0, <1>15, <2>2 DEF Exhausted, TypeOK, history, WalkOK, NewOK, WalkingOK,
         SourceOK, VerdictOK, DoneOK, InAttempt
    <2> QED BY <2>1, <2>2
  <1>16. ASSUME NEW r \in Requests, Disconnect(r) PROVE WalkOK(q)'
    BY <1>0, <1>16 DEF Disconnect, TypeOK, history, WalkOK, NewOK, WalkingOK,
         SourceOK, VerdictOK, DoneOK, InAttempt
  <1>17. ASSUME NEW p \in Providers, CooldownLapses(p) PROVE WalkOK(q)'
    BY <1>0, <1>17 DEF CooldownLapses, walk, history, WalkOK, NewOK, WalkingOK,
         SourceOK, VerdictOK, DoneOK, InAttempt
  <1>18. ASSUME NEW c \in Candidate, BenchLapses(c) PROVE WalkOK(q)'
    BY <1>0, <1>18 DEF BenchLapses, walk, history, WalkOK, NewOK, WalkingOK,
         SourceOK, VerdictOK, DoneOK, InAttempt
  <1>19. ASSUME ClearBench PROVE WalkOK(q)'
    BY <1>0, <1>19 DEF ClearBench, walk, history, WalkOK, NewOK, WalkingOK,
         SourceOK, VerdictOK, DoneOK, InAttempt
  <1>20. ASSUME UNCHANGED vars PROVE WalkOK(q)'
    BY <1>0, <1>20 DEF vars, walk, history, WalkOK, NewOK, WalkingOK,
         SourceOK, VerdictOK, DoneOK, InAttempt
  <1> QED
    BY <1>1, <1>2, <1>3, <1>4, <1>5, <1>6, <1>7, <1>8, <1>9, <1>10,
       <1>11, <1>12, <1>13, <1>14, <1>15, <1>16, <1>17, <1>18, <1>19, <1>20 DEF Next, Step, Finished

\* IInv holds throughout.
THEOREM Walk == Spec => []IInv
  <1>1. IInv /\ [Next]_vars => IInv'
    BY NextTypeOK, NextWalkOK DEF IInv
  <1> QED BY InitIInv, <1>1, PTL DEF Spec

\* Every variable keeps its type; in particular a breaker's count stays below
\* the trip count, however many requests charge it at once (recordFailure).
THEOREM TypeCorrect == Spec => []TypeOK
  <1>1. IInv => TypeOK
    BY DEF IInv
  <1> QED BY Walk, <1>1, PTL

\* No caller ever reads text of two upstreams (attemptChain returns on an error
\* once sent is set).
THEOREM NeverSpliced == Spec => []NoSplice
  <1>1. ASSUME IInv, NEW r \in Requests PROVE Cardinality(source[r]) <= 1
    <2>1. source[r] = {} \/ source[r] = {at[r]}
      <3>1. CASE pc[r] = "new"
        BY <1>1, <3>1 DEF IInv, WalkOK, NewOK
      <3>2. CASE pc[r] \in InAttempt \cup {"next"}
        BY <1>1, <3>2 DEF IInv, WalkOK, SourceOK, InAttempt
      <3>3. CASE pc[r] = "done"
        <4>1. outcome[r] \in Outcomes \ {"none"}
          BY <1>1, <3>3 DEF IInv, TypeOK, WalkOK, DoneOK
        <4> QED BY <1>1, <4>1 DEF IInv, WalkOK, DoneOK, Outcomes
      <3>4. pc[r] \in Stages
        BY <1>1 DEF IInv, TypeOK
      <3> QED BY <3>1, <3>2, <3>3, <3>4 DEF Stages, InAttempt
    <2>2. Cardinality({}) = 0 /\ Cardinality({at[r]}) = 1
      BY FS_EmptySet, FS_Singleton
    <2> QED BY <2>1, <2>2
  <1>2. IInv => NoSplice
    BY <1>1 DEF NoSplice
  <1> QED BY Walk, <1>2, PTL

\* An error reaches the caller only after every candidate has failed, or from
\* the candidate whose text it was reading (attemptChain's promise).
THEOREM ErrorsAreComplete == Spec => []EveryCandidateFailed
  <1>1. IInv => EveryCandidateFailed
    BY DEF IInv, WalkOK, DoneOK, EveryCandidateFailed
  <1> QED BY Walk, <1>1, PTL

-----------------------------------------------------------------------------
\* live.begin and live.end bracket the call on every path, so the live view
\* never leaks an attempt and never hides one.
THEOREM LiveExact == Spec => []LiveIsExact
  <1>1. Init => LiveIsExact
    BY DEF Init, LiveIsExact
  <1>2. IInv /\ LiveIsExact /\ [Next]_vars => LiveIsExact'
    <2> SUFFICES ASSUME TypeOK, LiveIsExact, [Next]_vars PROVE LiveIsExact'
      BY DEF IInv
    <2> DEFINE Calling == {q \in Requests : pc[q] \in {"calling", "returned"}}
    <2>1. ASSUME NEW r \in Requests, Begin(r) PROVE LiveIsExact'
      <3>1. Calling' = Calling \cup {r}
        BY <2>1 DEF Begin, TypeOK
      <3>2. at' = at
        BY <2>1 DEF Begin
      <3> QED BY <2>1, <3>1, <3>2 DEF Begin, LiveIsExact
    <2>2. ASSUME NEW r \in Requests, EndLive(r) PROVE LiveIsExact'
      <3>1. Calling' = Calling \ {r}
        BY <2>2 DEF EndLive, TypeOK
      <3>2. at' = at
        BY <2>2 DEF EndLive
      <3> QED BY <2>2, <3>1, <3>2 DEF EndLive, LiveIsExact
    <2>3. ASSUME NEW r \in Requests, SkipInCooldown(r) \/ MoveOn(r) PROVE LiveIsExact'
      <3>1. Calling' = Calling /\ r \notin Calling
        BY <2>3 DEF SkipInCooldown, MoveOn, TypeOK
      <3>2. \A q \in Calling : at'[q] = at[q]
        BY <2>3, <3>1 DEF SkipInCooldown, MoveOn, TypeOK
      <3>3. live' = live
        BY <2>3 DEF SkipInCooldown, MoveOn
      <3> QED BY <3>1, <3>2, <3>3 DEF LiveIsExact
    <2>4. ASSUME at' = at, live' = live, Calling' = Calling PROVE LiveIsExact'
      BY <2>4 DEF LiveIsExact
    <2>5. ASSUME NEW r \in Requests,
                 \/ Route(r) \/ Admit(r) \/ Chunk(r) \/ Return(r)
                 \/ RecordSuccess(r) \/ RecordFailure(r) \/ BenchRefused(r)
                 \/ BenchPool(r) \/ BenchDone(r) \/ Answer(r) \/ Exhausted(r)
                 \/ Disconnect(r)
          PROVE at' = at /\ live' = live /\ Calling' = Calling
      BY <2>5 DEF Route, Admit, Chunk, Return, RecordSuccess, RecordFailure,
         BenchRefused, BenchPool, BenchDone, Answer, Exhausted, Disconnect,
         walk, TypeOK
    <2>6. ASSUME \/ \E p \in Providers : CooldownLapses(p)
                 \/ \E c \in Candidate : BenchLapses(c)
                 \/ ClearBench \/ UNCHANGED vars
          PROVE at' = at /\ live' = live /\ Calling' = Calling
      BY <2>6 DEF CooldownLapses, BenchLapses, ClearBench, vars, walk
    <2> QED BY <2>1, <2>2, <2>3, <2>4, <2>5, <2>6 DEF Next, Step, Finished
  <1> QED BY Walk, <1>1, <1>2, PTL DEF Spec

\* No refusal opens a breaker: only recordFailure's step of a request whose
\* attempt failed in some other way does (attemptChain, !isAccessDenied).
THEOREM OnlyFaultsTrip == Spec => RefusalsNeverTrip
  <1>1. IInv /\ [Next]_vars =>
          [\A p \in Providers :
              gate[p] # "open" /\ gate'[p] = "open" =>
                  \E r \in Requests :
                      /\ pc[r] = "judging" /\ pc'[r] = "logging"
                      /\ Cand(r).provider = p
                      /\ ~AccessDenied(verdict[r]) /\ verdict[r] # "ok"]_vars
    <2> SUFFICES ASSUME TypeOK, [Next]_vars, NEW p \in Providers,
                        gate[p] # "open", gate'[p] = "open"
                 PROVE  \E r \in Requests :
                            /\ pc[r] = "judging" /\ pc'[r] = "logging"
                            /\ Cand(r).provider = p
                            /\ ~AccessDenied(verdict[r]) /\ verdict[r] # "ok"
      BY DEF IInv
    <2>1. \E r \in Requests : RecordFailure(r) /\ Cand(r).provider = p
      <3>1. ASSUME NEW r \in Requests, RecordSuccess(r) PROVE FALSE
        BY <3>1 DEF RecordSuccess, TypeOK
      <3>2. ASSUME NEW q \in Providers, CooldownLapses(q) PROVE FALSE
        BY <3>2 DEF CooldownLapses, TypeOK
      <3>3. ASSUME NEW r \in Requests, RecordFailure(r) PROVE Cand(r).provider = p
        BY <3>3 DEF RecordFailure, Charge, TypeOK
      <3>4. ASSUME gate' = gate PROVE FALSE
        BY <3>4
      <3> QED
        BY <3>1, <3>2, <3>3, <3>4 DEF Next, Step, Finished, vars, breaker, walk,
           Route, SkipInCooldown, Admit, Begin, Chunk, Return, EndLive,
           BenchRefused, BenchPool, BenchDone, Answer, MoveOn, Exhausted,
           Disconnect, BenchLapses, ClearBench
    <2> QED BY <2>1 DEF RecordFailure, AccessDenied, TypeOK
  <1> QED BY Walk, <1>1, PTL DEF Spec, RefusalsNeverTrip

-----------------------------------------------------------------------------
(***************************************************************************)
(* The usage rows.  Until a request is done its rows are those of failed   *)
(* attempts on candidates already passed; every failure noted for anything *)
(* but a cooldown has its row, every row is of a candidate that was asked, *)
(* and "permanent" was said of refusals only.                              *)
(***************************************************************************)
RowsOK(r) ==
    /\ \A i, k \in DOMAIN usage[r] : i < k => usage[r][i].index < usage[r][k].index
    /\ pc[r] # "done" => \A k \in DOMAIN usage[r] :
          usage[r][k].index < at[r] /\ usage[r][k].status = "error"
    /\ \A k \in DOMAIN usage[r] :
          usage[r][k].status = "success" <=>
              outcome[r] = "answered" /\ k = Len(usage[r])
    /\ outcome[r] = "answered" => \E k \in DOMAIN usage[r] : usage[r][k].index = at[r]

AskedOK(r) ==
    /\ \A i \in DOMAIN failures[r] :
          failures[r][i] # "cooldown" => \E k \in DOMAIN usage[r] : usage[r][k].index = i
    /\ outcome[r] = "permanent" =>
          \A i \in DOMAIN failures[r] : AccessDenied(failures[r][i])
    /\ \A k \in DOMAIN usage[r] : usage[r][k].index \in Asked(r)

Ledger == \A r \in Requests : RowsOK(r) /\ AskedOK(r)

\* A request whose rows, failures, place and outcome stay as they are keeps
\* its part of the ledger in order.
LEMMA LedgerKept ==
    ASSUME NEW q \in Requests, RowsOK(q), AskedOK(q),
           usage'[q] = usage[q], failures'[q] = failures[q], at'[q] = at[q],
           outcome'[q] = outcome[q], pc[q] = "done" => pc'[q] = "done"
    PROVE  RowsOK(q)' /\ AskedOK(q)'
  BY DEF RowsOK, AskedOK, Asked, AccessDenied

\* The row an attempt is given comes after all the request's earlier rows.
LEMMA RowAdded ==
    ASSUME IInv, NEW r \in Requests, RowsOK(r), pc[r] = "logging",
           NEW s \in {"success", "error"},
           usage' = [usage EXCEPT ![r] = Append(@, [index |-> at[r], status |-> s])]
    PROVE  /\ Len(usage'[r]) = Len(usage[r]) + 1
           /\ Len(usage[r]) \in Nat
           /\ DOMAIN usage'[r] = 1..(Len(usage[r]) + 1)
           /\ DOMAIN usage[r] = 1..Len(usage[r])
           /\ usage'[r][Len(usage[r]) + 1] = [index |-> at[r], status |-> s]
           /\ \A k \in DOMAIN usage[r] : usage'[r][k] = usage[r][k]
           /\ \A i, k \in DOMAIN usage'[r] : i < k => usage'[r][i].index < usage'[r][k].index
  <1> DEFINE row == [index |-> at[r], status |-> s]
             n   == Len(usage[r])
  <1>1. usage[r] \in Seq(Rows) /\ usage'[r] = Append(usage[r], row) /\ row \in Rows
    BY DEF IInv, TypeOK, Rows
  <1>2. /\ n \in Nat /\ Len(usage'[r]) = n + 1 /\ DOMAIN usage'[r] = 1..(n + 1)
        /\ DOMAIN usage[r] = 1..n
    BY <1>1
  <1>3. usage'[r][n + 1] = row
    BY <1>1
  <1>4. \A k \in 1..n : usage'[r][k] = usage[r][k]
    BY <1>1
  <1>5. \A k \in 1..n : usage[r][k].index < at[r]
    BY <1>2 DEF RowsOK
  <1>6. \A i, k \in 1..n : i < k => usage[r][i].index < usage[r][k].index
    BY <1>2 DEF RowsOK
  <1>7. row.index = at[r]
    OBVIOUS
  <1>8. \A i, k \in 1..(n + 1) : i < k => usage'[r][i].index < usage'[r][k].index
    <2> SUFFICES ASSUME NEW i \in 1..(n + 1), NEW k \in 1..(n + 1), i < k
                 PROVE  usage'[r][i].index < usage'[r][k].index
      OBVIOUS
    <2>1. i \in 1..n /\ (k \in 1..n \/ k = n + 1)
      BY <1>2
    <2> HIDE DEF row, n
    <2> QED BY <2>1, <1>3, <1>4, <1>5, <1>6, <1>7
  <1> QED BY <1>2, <1>3, <1>4, <1>8

\* A row names a place in the plan.
LEMMA RowsTyped ==
    ASSUME TypeOK, NEW r \in Requests
    PROVE  \A k \in DOMAIN usage[r] : usage[r][k].index \in Nat
  <1> SUFFICES ASSUME NEW k \in DOMAIN usage[r] PROVE usage[r][k].index \in Nat
    OBVIOUS
  <1>1. usage[r] \in Seq(Rows)
    BY DEF TypeOK
  <1>2. usage[r][k] \in Rows
    BY <1>1
  <1> QED BY <1>2 DEF Rows

\* Until a request is done, its rows are of candidates it gave up on.
LEMMA RowsGivenUp ==
    ASSUME TypeOK, NEW r \in Requests, RowsOK(r), AskedOK(r), pc[r] # "done"
    PROVE  \A k \in DOMAIN usage[r] :
              /\ usage[r][k].index \in DOMAIN failures[r]
              /\ failures[r][usage[r][k].index] # "cooldown"
  <1> SUFFICES ASSUME NEW k \in DOMAIN usage[r]
               PROVE  /\ usage[r][k].index \in DOMAIN failures[r]
                      /\ failures[r][usage[r][k].index] # "cooldown"
    OBVIOUS
  <1>1. usage[r][k].index \in Nat /\ at[r] \in Nat
    BY RowsTyped DEF TypeOK
  <1>2. usage[r][k].index < at[r]
    BY DEF RowsOK
  <1>3. usage[r][k].index \in Asked(r)
    BY DEF AskedOK
  <1> QED BY <1>1, <1>2, <1>3 DEF Asked

\* What a failure noted at the end leaves of the earlier ones.
LEMMA FailureNoted ==
    ASSUME NEW s \in Seq(Reasons), NEW e \in Reasons
    PROVE  /\ Len(Append(s, e)) = Len(s) + 1 /\ Len(s) \in Nat
           /\ DOMAIN Append(s, e) = 1..(Len(s) + 1) /\ DOMAIN s = 1..Len(s)
           /\ Append(s, e)[Len(s) + 1] = e
           /\ \A j \in 1..Len(s) : Append(s, e)[j] = s[j]
  OBVIOUS

\* Every action keeps the ledger: only logUsage, a skip and the end of a walk
\* touch what it is about.
LEMMA NextLedger == IInv /\ Ledger /\ [Next]_vars => Ledger'
  <1> SUFFICES ASSUME IInv, Ledger, [Next]_vars, NEW q \in Requests
               PROVE  RowsOK(q)' /\ AskedOK(q)'
    BY DEF Ledger
  <1>0. TypeOK /\ RowsOK(q) /\ AskedOK(q)
    BY DEF IInv, Ledger
  <1>1. ASSUME NEW r \in Requests, Answer(r) PROVE RowsOK(q)' /\ AskedOK(q)'
    <2>1. CASE q # r
      <3>1. /\ usage'[q] = usage[q] /\ failures'[q] = failures[q] /\ at'[q] = at[q]
            /\ outcome'[q] = outcome[q] /\ pc'[q] = pc[q]
        BY <1>0, <1>1, <2>1 DEF Answer, TypeOK
      <3> QED BY <1>0, <3>1, LedgerKept
    <2>2. CASE q = r
      <3> DEFINE n == Len(usage[r])
      <3>1. /\ usage' = [usage EXCEPT ![r] =
                             Append(@, [index |-> at[r], status |-> "success"])]
            /\ pc[r] = "logging" /\ failures'[r] = failures[r]
            /\ pc'[r] = "done" /\ outcome'[r] = "answered" /\ at'[r] = at[r]
        BY <1>0, <1>1 DEF Answer, TypeOK
      <3>2. /\ Len(usage'[r]) = n + 1 /\ n \in Nat /\ DOMAIN usage'[r] = 1..(n + 1)
            /\ DOMAIN usage[r] = 1..n
            /\ usage'[r][n + 1] = [index |-> at[r], status |-> "success"]
            /\ \A k \in DOMAIN usage[r] : usage'[r][k] = usage[r][k]
            /\ \A i, k \in DOMAIN usage'[r] : i < k => usage'[r][i].index < usage'[r][k].index
        BY <1>0, <2>2, <3>1, RowAdded
      <3>3. \A k \in 1..n : usage[r][k].status = "error"
        BY <1>0, <2>2, <3>1, <3>2 DEF RowsOK
      <3>4. \A k \in 1..(n + 1) : k \in 1..n \/ k = n + 1
        BY <3>2
      <3>5. \A k \in 1..n : k # n + 1
        BY <3>2
      <3>6. n + 1 \in DOMAIN usage'[r] /\ usage'[r][n + 1].index = at'[r]
        BY <3>1, <3>2
      <3>7. usage'[r][n + 1].status = "success"
        BY <3>2
      <3> HIDE DEF n
      <3>8. RowsOK(r)'
        BY <3>1, <3>2, <3>3, <3>4, <3>5, <3>6, <3>7 DEF RowsOK
      <3>9. AskedOK(r)'
        <4>1. \A k \in 1..n : k \in 1..(n + 1)
          BY <3>2
        <4>2. \A k \in 1..n : usage'[r][k].index \in Asked(r)'
          BY <1>0, <2>2, <3>1, <3>2, RowsGivenUp DEF Asked
        <4>3. usage'[r][n + 1].index \in Asked(r)'
          BY <3>1, <3>6 DEF Asked
        <4>4. \A k \in DOMAIN usage'[r] : usage'[r][k].index \in Asked(r)'
          BY <3>2, <3>4, <4>2, <4>3
        <4> QED BY <1>0, <2>2, <3>1, <3>2, <4>1, <4>4 DEF AskedOK
      <3> QED BY <2>2, <3>8, <3>9
    <2> QED BY <2>1, <2>2
  <1>2. ASSUME NEW r \in Requests, MoveOn(r) PROVE RowsOK(q)' /\ AskedOK(q)'
    <2>1. CASE q # r
      <3>1. /\ usage'[q] = usage[q] /\ failures'[q] = failures[q] /\ at'[q] = at[q]
            /\ outcome'[q] = outcome[q] /\ pc'[q] = pc[q]
        BY <1>0, <1>2, <2>1 DEF MoveOn, TypeOK
      <3> QED BY <1>0, <3>1, LedgerKept
    <2>2. CASE q = r
      <3> DEFINE n == Len(usage[r])
      <3>1. /\ usage' = [usage EXCEPT ![r] =
                             Append(@, [index |-> at[r], status |-> "error"])]
            /\ pc[r] = "logging" /\ failures'[r] = Append(failures[r], verdict[r])
            /\ outcome'[r] \in {outcome[r], "cut off"}
            /\ pc'[r] = "done" \/ (pc'[r] = "next" /\ at'[r] = at[r] + 1)
        BY <1>0, <1>2 DEF MoveOn, TypeOK
      <3>2. /\ Len(usage'[r]) = n + 1 /\ n \in Nat /\ DOMAIN usage'[r] = 1..(n + 1)
            /\ DOMAIN usage[r] = 1..n
            /\ usage'[r][n + 1] = [index |-> at[r], status |-> "error"]
            /\ \A k \in DOMAIN usage[r] : usage'[r][k] = usage[r][k]
            /\ \A i, k \in DOMAIN usage'[r] : i < k => usage'[r][i].index < usage'[r][k].index
        BY <1>0, <2>2, <3>1, RowAdded
      <3>3. \A k \in 1..n : usage[r][k].status = "error" /\ usage[r][k].index < at[r]
        BY <1>0, <2>2, <3>1, <3>2 DEF RowsOK
      <3>4. \A k \in 1..(n + 1) : k \in 1..n \/ k = n + 1
        BY <3>2
      <3>5. outcome'[r] \in {"none", "cut off"}
        BY <3>1 DEF IInv, WalkOK, DoneOK
      <3>6. /\ Len(failures[r]) = at[r] - 1 /\ at[r] \in Nat
            /\ failures[r] \in Seq(Reasons) /\ usage[r] \in Seq(Rows)
        BY <1>0, <2>2, <3>1 DEF IInv, WalkOK, WalkingOK, InAttempt, TypeOK
      <3>7. \A k \in 1..(n + 1) : usage'[r][k].status = "error" /\ usage'[r][k].index < at[r] + 1
        <4>1. \A k \in 1..n : usage[r][k].index \in Nat
          BY <1>0, <3>2, RowsTyped
        <4>2. usage'[r][n + 1].status = "error" /\ usage'[r][n + 1].index = at[r]
          BY <3>2
        <4> HIDE DEF n
        <4> QED BY <3>2, <3>3, <3>4, <3>6, <4>1, <4>2
      <3>8. RowsOK(r)'
        BY <3>1, <3>2, <3>5, <3>7 DEF RowsOK
      <3>9. AskedOK(r)'
        <4>1. Len(failures'[r]) = at[r] /\ DOMAIN failures'[r] = 1..at[r]
              /\ DOMAIN failures[r] = 1..(at[r] - 1)
              /\ failures'[r][at[r]] # "cooldown"
              /\ \A j \in 1..(at[r] - 1) : failures'[r][j] = failures[r][j]
          <5>1. verdict[r] \in Reasons /\ verdict[r] # "cooldown"
            BY <1>0, <1>2 DEF IInv, WalkOK, VerdictOK, MoveOn, TypeOK, Reasons, Verdicts
          <5>2. Len(failures[r]) + 1 = at[r] /\ Len(failures[r]) = at[r] - 1
            BY <3>6
          <5>3. /\ Len(failures'[r]) = Len(failures[r]) + 1
                /\ DOMAIN failures'[r] = 1..(Len(failures[r]) + 1)
                /\ DOMAIN failures[r] = 1..Len(failures[r])
                /\ failures'[r][Len(failures[r]) + 1] = verdict[r]
                /\ \A j \in 1..Len(failures[r]) : failures'[r][j] = failures[r][j]
            <6>1. failures'[r] = Append(failures[r], verdict[r]) /\ failures[r] \in Seq(Reasons)
              BY <3>1, <3>6
            <6> QED BY <5>1, <6>1, FailureNoted
          <5> QED BY <5>1, <5>2, <5>3
        <4>2. ASSUME NEW i \in DOMAIN failures'[r], failures'[r][i] # "cooldown"
              PROVE  \E k \in DOMAIN usage'[r] : usage'[r][k].index = i
          <5>1. CASE i = at[r]
            <6>1. n + 1 \in DOMAIN usage'[r] /\ usage'[r][n + 1].index = at[r]
              BY <3>2
            <6> QED BY <5>1, <6>1
          <5>2. CASE i # at[r]
            <6>1. i \in DOMAIN failures[r] /\ failures[r][i] # "cooldown"
              BY <3>6, <4>1, <4>2, <5>2
            <6>2. PICK k \in DOMAIN usage[r] : usage[r][k].index = i
              BY <1>0, <2>2, <6>1 DEF AskedOK
            <6>3. k \in DOMAIN usage'[r] /\ usage'[r][k].index = i
              BY <3>2, <6>2
            <6> QED BY <6>3
          <5> QED BY <5>1, <5>2
        <4>3. \A k \in 1..n : usage'[r][k].index \in Asked(r)'
          <5>1. \A j \in DOMAIN failures[r] : j \in DOMAIN failures'[r] /\ failures'[r][j] = failures[r][j]
            BY <3>6, <4>1
          <5>2. \A k \in 1..n : /\ usage[r][k].index \in DOMAIN failures[r]
                                /\ failures[r][usage[r][k].index] # "cooldown"
            BY <1>0, <2>2, <3>1, <3>2, RowsGivenUp
          <5> QED BY <3>2, <5>1, <5>2 DEF Asked
        <4>4. usage'[r][n + 1].index \in Asked(r)'
          BY <3>2, <3>6, <4>1 DEF Asked
        <4>5. \A k \in DOMAIN usage'[r] : usage'[r][k].index \in Asked(r)'
          BY <3>2, <3>4, <4>3, <4>4
        <4> QED BY <3>5, <4>2, <4>5 DEF AskedOK
      <3> QED BY <2>2, <3>8, <3>9
    <2> QED BY <2>1, <2>2
  <1>3. ASSUME NEW r \in Requests, SkipInCooldown(r) PROVE RowsOK(q)' /\ AskedOK(q)'
    <2>1. CASE q # r
      <3>1. /\ usage'[q] = usage[q] /\ failures'[q] = failures[q] /\ at'[q] = at[q]
            /\ outcome'[q] = outcome[q] /\ pc'[q] = pc[q]
        BY <1>0, <1>3, <2>1 DEF SkipInCooldown, TypeOK
      <3> QED BY <1>0, <3>1, LedgerKept
    <2>2. CASE q = r
      <3>1. /\ usage'[r] = usage[r] /\ failures'[r] = Append(failures[r], "cooldown")
            /\ at'[r] = at[r] + 1 /\ outcome'[r] = outcome[r]
            /\ pc'[r] = "next" /\ pc[r] = "next"
        BY <1>0, <1>3 DEF SkipInCooldown, TypeOK
      <3>2. at[r] \in Nat /\ usage[r] \in Seq(Rows) /\ failures[r] \in Seq(Reasons)
            /\ outcome[r] = "none"
        BY <1>0, <3>1 DEF TypeOK, IInv, WalkOK, DoneOK
      <3>3. \A k \in DOMAIN usage[r] : usage[r][k].index \in Nat
        BY <1>0, RowsTyped
      <3>4. RowsOK(r)'
        BY <1>0, <2>2, <3>1, <3>2, <3>3 DEF RowsOK
      <3>5. AskedOK(r)'
        <4>1. \A i \in DOMAIN failures'[r] : failures'[r][i] # "cooldown" =>
                  i \in DOMAIN failures[r] /\ failures'[r][i] = failures[r][i]
          BY <3>1, <3>2
        <4>2. outcome'[r] # "permanent"
          BY <3>1, <3>2
        <4>3. ASSUME NEW i \in DOMAIN failures'[r], failures'[r][i] # "cooldown"
              PROVE  \E k \in DOMAIN usage'[r] : usage'[r][k].index = i
          BY <1>0, <2>2, <3>1, <4>1, <4>3 DEF AskedOK
        <4>4. \A j \in DOMAIN failures[r] : j \in DOMAIN failures'[r] /\ failures'[r][j] = failures[r][j]
          BY <3>1, <3>2
        <4>5. \A k \in DOMAIN usage[r] : /\ usage[r][k].index \in DOMAIN failures[r]
                                         /\ failures[r][usage[r][k].index] # "cooldown"
          BY <1>0, <2>2, <3>1, RowsGivenUp
        <4>6. \A k \in DOMAIN usage'[r] : usage'[r][k].index \in Asked(r)'
          BY <3>1, <4>4, <4>5 DEF Asked
        <4> QED BY <4>2, <4>3, <4>6 DEF AskedOK
      <3> QED BY <2>2, <3>4, <3>5
    <2> QED BY <2>1, <2>2
  <1>4. ASSUME NEW r \in Requests, Exhausted(r) PROVE RowsOK(q)' /\ AskedOK(q)'
    <2>1. CASE q # r
      <3>1. /\ usage'[q] = usage[q] /\ failures'[q] = failures[q] /\ at'[q] = at[q]
            /\ outcome'[q] = outcome[q] /\ pc'[q] = pc[q]
        BY <1>0, <1>4, <2>1 DEF Exhausted, TypeOK
      <3> QED BY <1>0, <3>1, LedgerKept
    <2>2. CASE q = r
      <3>1. /\ usage'[r] = usage[r] /\ failures'[r] = failures[r]
            /\ outcome'[r] = Summary(failures[r])
            /\ pc'[r] = "done" /\ pc[r] = "next"
        BY <1>0, <1>4 DEF Exhausted, TypeOK
      <3>2. \A k \in DOMAIN usage[r] : usage[r][k].status = "error"
        BY <1>0, <2>2, <3>1 DEF RowsOK
      <3>3. outcome'[r] = "permanent" => \A i \in DOMAIN failures[r] : AccessDenied(failures[r][i])
        BY <3>1 DEF Summary
      <3>4. outcome'[r] # "answered"
        BY <3>1 DEF Summary
      <3>5. RowsOK(r)'
        BY <1>0, <2>2, <3>1, <3>2, <3>4 DEF RowsOK
      <3>6. AskedOK(r)'
        <4>1. \A k \in DOMAIN usage'[r] : usage'[r][k].index \in Asked(r)'
          BY <1>0, <2>2, <3>1, RowsGivenUp DEF Asked
        <4> QED BY <1>0, <2>2, <3>1, <3>3, <4>1 DEF AskedOK, AccessDenied
      <3> QED BY <2>2, <3>5, <3>6
    <2> QED BY <2>1, <2>2
  <1>5. ASSUME NEW r \in Requests, Route(r) PROVE RowsOK(q)' /\ AskedOK(q)'
    <2>1. /\ usage'[q] = usage[q] /\ failures'[q] = failures[q] /\ at'[q] = at[q]
          /\ pc[q] # "done" \/ (pc'[q] = pc[q] /\ outcome'[q] = outcome[q])
          /\ outcome'[q] \in {outcome[q], "unroutable"}
      BY <1>0, <1>5 DEF Route, TypeOK
    <2>2. CASE outcome'[q] = outcome[q]
      <3>1. pc[q] = "done" => pc'[q] = "done"
        BY <2>1
      <3> QED BY <1>0, <2>1, <2>2, <3>1, LedgerKept
    <2>3. CASE outcome'[q] # outcome[q]
      <3>1. outcome'[q] = "unroutable" /\ pc[q] # "done"
        BY <2>1, <2>3
      <3>2. \A k \in DOMAIN usage'[q] : usage'[q][k].index \in Asked(q)'
        BY <1>0, <2>1, <3>1, RowsGivenUp DEF Asked
      <3> QED BY <1>0, <2>1, <3>1, <3>2 DEF RowsOK, AskedOK
    <2> QED BY <2>2, <2>3
  <1>6. ASSUME NEW r \in Requests,
               \/ Admit(r) \/ Begin(r) \/ Chunk(r) \/ Return(r) \/ EndLive(r)
               \/ RecordSuccess(r) \/ RecordFailure(r) \/ BenchRefused(r)
               \/ BenchPool(r) \/ BenchDone(r) \/ Disconnect(r)
        PROVE RowsOK(q)' /\ AskedOK(q)'
    <2>1. /\ usage' = usage /\ failures' = failures /\ at' = at /\ outcome' = outcome
          /\ pc[q] = "done" => pc'[q] = "done"
      BY <1>0, <1>6 DEF Admit, Begin, Chunk, Return, EndLive, RecordSuccess,
         RecordFailure, BenchRefused, BenchPool, BenchDone, Disconnect, walk, TypeOK
    <2> QED BY <1>0, <2>1, LedgerKept
  <1>7. ASSUME \/ \E p \in Providers : CooldownLapses(p)
               \/ \E c \in Candidate : BenchLapses(c)
               \/ ClearBench \/ UNCHANGED vars
        PROVE RowsOK(q)' /\ AskedOK(q)'
    <2>1. /\ usage' = usage /\ failures' = failures /\ at' = at /\ outcome' = outcome
          /\ pc' = pc
      BY <1>7 DEF CooldownLapses, BenchLapses, ClearBench, vars, walk
    <2> QED BY <1>0, <2>1, LedgerKept
  <1> QED BY <1>1, <1>2, <1>3, <1>4, <1>5, <1>6, <1>7 DEF Next, Step, Finished

\* The ledger is in order throughout.
LEMMA LedgerInv == Spec => []Ledger
  <1>1. Init => Ledger
    BY DEF Init, Ledger, RowsOK, AskedOK, Asked
  <1> QED BY Walk, NextLedger, <1>1, PTL DEF Spec

\* Every attempt that came back has its one usage row, in plan order, a skipped
\* candidate has none, and a success row is the last and the answer's (logUsage
\* in attemptChain).
THEOREM Metered == Spec => []MeteredOnce
  <1>1. Ledger => MeteredOnce
    <2> SUFFICES ASSUME Ledger, NEW r \in Requests
                 PROVE  {usage[r][k].index : k \in DOMAIN usage[r]} = Asked(r)
      BY DEF Ledger, RowsOK, MeteredOnce
    <2>1. \A k \in DOMAIN usage[r] : usage[r][k].index \in Asked(r)
      BY DEF Ledger, AskedOK
    <2>2. \A i \in Asked(r) : \E k \in DOMAIN usage[r] : usage[r][k].index = i
      BY DEF Ledger, RowsOK, AskedOK, Asked
    <2> QED BY <2>1, <2>2
  <1> QED BY LedgerInv, <1>1, PTL

\* "retrying will not help" is only said when every candidate of the plan was
\* asked and refused (summarizeFailures).
THEOREM PermanentIsEarned == Spec => []PermanentMeansRefused
  <1>1. IInv /\ Ledger => PermanentMeansRefused
    <2> SUFFICES ASSUME IInv, Ledger, NEW r \in Requests, outcome[r] = "permanent",
                        NEW i \in DOMAIN chain[r]
                 PROVE  /\ failures[r][i] \in {"denied", "spent"}
                        /\ \E k \in DOMAIN usage[r] : usage[r][k].index = i
      BY DEF PermanentMeansRefused
    <2>1. Len(failures[r]) = Len(chain[r])
      BY DEF IInv, WalkOK, DoneOK
    <2>2. chain[r] \in Seq(Candidate) /\ failures[r] \in Seq(Reasons)
      BY DEF IInv, TypeOK
    <2>3. i \in DOMAIN failures[r]
      BY <2>1, <2>2
    <2>4. AccessDenied(failures[r][i])
      BY <2>3 DEF Ledger, AskedOK
    <2> QED BY <2>3, <2>4 DEF Ledger, AskedOK, AccessDenied
  <1> QED BY Walk, LedgerInv, <1>1, PTL

-----------------------------------------------------------------------------
(***************************************************************************)
(* The bench.  A refusal at hand has set its model aside once judged, and  *)
(* with a spent free allowance the rest of the pool is set aside or in the *)
(* request's own list of what is still to be; that list is empty whenever  *)
(* the request is not benching.                                            *)
(***************************************************************************)
Aside == bench \cup released

Refusing(r) == pc[r] \in {"benching", "logging"} /\ AccessDenied(verdict[r])

PendingOK(r) ==
    /\ pc[r] # "benching" => toBench[r] = {}
    /\ Refusing(r) =>
          /\ Cand(r) \in Aside
          /\ verdict[r] = "spent" /\ Cand(r) \in Free =>
                \A d \in Free : d.provider = Cand(r).provider => d \in Aside \cup toBench[r]

NotedOK(r) ==
    \A i \in DOMAIN failures[r] :
        /\ failures[r][i] \in {"denied", "spent"} => chain[r][i] \in Aside
        /\ failures[r][i] = "spent" /\ chain[r][i] \in Free =>
              \A d \in Free : d.provider = chain[r][i].provider => d \in Aside

SetAside == \A r \in Requests : PendingOK(r) /\ NotedOK(r)

\* What was once set aside is benched now or has served its time: no step
\* forgets it.
LEMMA AsideGrows == TypeOK /\ [Next]_vars => Aside \subseteq Aside'
  <1> SUFFICES ASSUME TypeOK, [Next]_vars PROVE Aside \subseteq Aside'
    OBVIOUS
  <1>1. ASSUME NEW r \in Requests, BenchRefused(r) PROVE Aside \subseteq Aside'
    BY <1>1 DEF BenchRefused, Aside
  <1>2. ASSUME NEW r \in Requests, BenchPool(r) PROVE Aside \subseteq Aside'
    BY <1>2 DEF BenchPool, Aside
  <1>3. ASSUME NEW c \in Candidate, BenchLapses(c) PROVE Aside \subseteq Aside'
    BY <1>3 DEF BenchLapses, Aside
  <1>4. ASSUME ClearBench PROVE Aside \subseteq Aside'
    BY <1>4 DEF ClearBench, Aside
  <1>5. ASSUME bench' = bench, released' = released PROVE Aside \subseteq Aside'
    BY <1>5 DEF Aside
  <1> QED
    BY <1>1, <1>2, <1>3, <1>4, <1>5 DEF Next, Step, Finished, vars, history,
       Route, SkipInCooldown, Admit, Begin, Chunk, Return, EndLive, RecordSuccess,
       RecordFailure, BenchDone, Answer, MoveOn, Exhausted, Disconnect, CooldownLapses

\* What a request has noted stays true while it notes nothing new.
LEMMA NotedKept ==
    ASSUME NEW q \in Requests, NotedOK(q), Aside \subseteq Aside',
           failures'[q] = failures[q],
           chain'[q] = chain[q] \/ failures[q] = <<>>
    PROVE  NotedOK(q)'
  <1>1. CASE chain'[q] = chain[q]
    BY <1>1 DEF NotedOK
  <1>2. CASE failures[q] = <<>>
    BY <1>2 DEF NotedOK
  <1> QED BY <1>1, <1>2

\* A refusal at hand stays set aside while its request does not move.
LEMMA PendingKept ==
    ASSUME NEW q \in Requests, PendingOK(q), Aside \subseteq Aside',
           pc'[q] = pc[q], verdict'[q] = verdict[q], Cand(q)' = Cand(q),
           toBench'[q] = toBench[q]
    PROVE  PendingOK(q)'
  BY DEF PendingOK, Refusing, AccessDenied

\* Every action keeps refused models aside, its own request's and the others'.
LEMMA NextSetAside == IInv /\ SetAside /\ [Next]_vars => SetAside'
  <1> SUFFICES ASSUME IInv, SetAside, [Next]_vars, NEW q \in Requests
               PROVE  PendingOK(q)' /\ NotedOK(q)'
    BY DEF SetAside
  <1>0. TypeOK /\ PendingOK(q) /\ NotedOK(q) /\ Aside \subseteq Aside'
    BY AsideGrows DEF IInv, SetAside
  <1>1. ASSUME NEW r \in Requests, q # r, Step(r) \/ Disconnect(r)
        PROVE  PendingOK(q)' /\ NotedOK(q)'
    <2>1. /\ pc'[q] = pc[q] /\ verdict'[q] = verdict[q] /\ toBench'[q] = toBench[q]
          /\ at'[q] = at[q] /\ chain'[q] = chain[q] /\ failures'[q] = failures[q]
      BY <1>0, <1>1 DEF Step, Route, SkipInCooldown, Admit, Begin, Chunk, Return, EndLive,
         RecordSuccess, RecordFailure, BenchRefused, BenchPool, BenchDone, Answer, MoveOn,
         Exhausted, Disconnect, walk, TypeOK
    <2>2. Cand(q)' = Cand(q)
      BY <2>1 DEF Cand
    <2> QED BY <1>0, <2>1, <2>2, NotedKept, PendingKept
  <1>2. ASSUME BenchRefused(q) PROVE PendingOK(q)' /\ NotedOK(q)'
    <2>1. /\ pc'[q] = "benching" /\ verdict'[q] = verdict[q] /\ toBench'[q] = SpentPool(q)
          /\ at'[q] = at[q] /\ chain'[q] = chain[q] /\ failures'[q] = failures[q]
          /\ bench' = bench \cup {Cand(q)}
      BY <1>0, <1>2 DEF BenchRefused, TypeOK
    <2>2. Cand(q)' = Cand(q) /\ Cand(q) \in Aside'
      BY <2>1 DEF Cand, Aside
    <2>3. verdict[q] = "spent" /\ Cand(q) \in Free =>
              \A d \in Free : d.provider = Cand(q).provider => d = Cand(q) \/ d \in SpentPool(q)
      BY DEF SpentPool
    <2> QED BY <1>0, <2>1, <2>2, <2>3, NotedKept DEF PendingOK, Refusing
  <1>3. ASSUME BenchPool(q) PROVE PendingOK(q)' /\ NotedOK(q)'
    <2>1. PICK c \in toBench[q] : bench' = bench \cup {c} /\ toBench' = [toBench EXCEPT ![q] = @ \ {c}]
      BY <1>3 DEF BenchPool
    <2>2. /\ pc' = pc /\ verdict' = verdict /\ at' = at /\ chain' = chain
          /\ failures' = failures /\ pc[q] = "benching"
      BY <1>3 DEF BenchPool, walk
    <2>3. toBench'[q] = toBench[q] \ {c}
      BY <1>0, <2>1 DEF TypeOK
    <2>4. Cand(q)' = Cand(q)
      BY <2>2 DEF Cand
    <2>5. Aside \cup toBench[q] \subseteq Aside' \cup toBench'[q]
      BY <1>0, <2>1, <2>3 DEF Aside
    <2> QED BY <1>0, <2>2, <2>4, <2>5, NotedKept DEF PendingOK, Refusing, AccessDenied
  <1>4. ASSUME BenchDone(q) PROVE PendingOK(q)' /\ NotedOK(q)'
    <2>1. /\ pc'[q] = "logging" /\ pc[q] = "benching" /\ verdict' = verdict /\ toBench' = toBench
          /\ at' = at /\ chain' = chain /\ failures' = failures /\ toBench[q] = {}
      BY <1>0, <1>4 DEF BenchDone, TypeOK
    <2>2. Cand(q)' = Cand(q)
      BY <2>1 DEF Cand
    <2> QED BY <1>0, <2>1, <2>2, NotedKept DEF PendingOK, Refusing, AccessDenied
  <1>5. ASSUME MoveOn(q) PROVE PendingOK(q)' /\ NotedOK(q)'
    <2>1. /\ pc[q] = "logging" /\ pc'[q] \in {"next", "done"} /\ toBench' = toBench
          /\ chain' = chain /\ failures'[q] = Append(failures[q], verdict[q])
      BY <1>0, <1>5 DEF MoveOn, TypeOK
    <2>2. PendingOK(q)'
      BY <1>0, <2>1 DEF PendingOK, Refusing
    <2>3. /\ verdict[q] \in Reasons /\ failures[q] \in Seq(Reasons)
          /\ Len(failures[q]) + 1 = at[q]
      <3>1. Len(failures[q]) = at[q] - 1 /\ at[q] \in Nat
        BY <1>0, <2>1 DEF IInv, WalkOK, WalkingOK, InAttempt, TypeOK
      <3>2. verdict[q] \in Reasons
        BY <1>0, <1>5 DEF IInv, WalkOK, VerdictOK, MoveOn, TypeOK, Reasons, Verdicts
      <3>3. failures[q] \in Seq(Reasons)
        BY <1>0 DEF TypeOK
      <3>4. Len(failures[q]) + 1 = at[q]
        BY <3>1
      <3> QED BY <3>2, <3>3, <3>4
    <2>4. /\ DOMAIN failures'[q] = 1..(Len(failures[q]) + 1) /\ DOMAIN failures[q] = 1..Len(failures[q])
          /\ failures'[q][Len(failures[q]) + 1] = verdict[q] /\ Len(failures[q]) \in Nat
          /\ \A j \in 1..Len(failures[q]) : failures'[q][j] = failures[q][j]
      BY <2>1, <2>3, FailureNoted
    <2>5. AccessDenied(verdict[q]) =>
            /\ Cand(q) \in Aside
            /\ verdict[q] = "spent" /\ Cand(q) \in Free =>
                  \A d \in Free : d.provider = Cand(q).provider => d \in Aside
      BY <1>0, <2>1 DEF PendingOK, Refusing
    <2>6. ASSUME NEW i \in DOMAIN failures'[q]
          PROVE  /\ failures'[q][i] \in {"denied", "spent"} => chain[q][i] \in Aside
                 /\ failures'[q][i] = "spent" /\ chain[q][i] \in Free =>
                       \A d \in Free : d.provider = chain[q][i].provider => d \in Aside
      <3>1. CASE i \in 1..Len(failures[q])
        BY <1>0, <2>4, <3>1 DEF NotedOK
      <3>2. CASE i = at[q]
        <4>1. failures'[q][i] = verdict[q] /\ chain[q][i] = Cand(q)
          BY <2>3, <2>4, <3>2 DEF Cand
        <4> QED BY <2>5, <4>1 DEF AccessDenied
      <3> QED BY <2>3, <2>4, <3>1, <3>2
    <2>7. NotedOK(q)'
      BY <1>0, <2>1, <2>6 DEF NotedOK
    <2> QED BY <2>2, <2>7
  <1>6. ASSUME SkipInCooldown(q) PROVE PendingOK(q)' /\ NotedOK(q)'
    <2>1. /\ pc'[q] = "next" /\ pc[q] = "next" /\ toBench' = toBench
          /\ chain' = chain /\ failures'[q] = Append(failures[q], "cooldown")
      BY <1>0, <1>6 DEF SkipInCooldown, TypeOK
    <2>2. PendingOK(q)'
      BY <1>0, <2>1 DEF PendingOK, Refusing
    <2>3. failures[q] \in Seq(Reasons) /\ "cooldown" \in Reasons
      BY <1>0 DEF TypeOK, Reasons
    <2>4. \A i \in DOMAIN failures'[q] : failures'[q][i] # "cooldown" =>
              i \in DOMAIN failures[q] /\ failures'[q][i] = failures[q][i]
      BY <2>1, <2>3
    <2>5. NotedOK(q)'
      BY <1>0, <2>1, <2>4 DEF NotedOK
    <2> QED BY <2>2, <2>5
  <1>7. ASSUME Route(q) PROVE PendingOK(q)' /\ NotedOK(q)'
    <2>1. /\ pc[q] = "new" /\ pc'[q] \in {"next", "done"} /\ toBench' = toBench
          /\ failures' = failures
      BY <1>0, <1>7 DEF Route, TypeOK
    <2>2. failures[q] = <<>>
      BY <2>1 DEF IInv, WalkOK, NewOK
    <2>3. PendingOK(q)'
      BY <1>0, <2>1 DEF PendingOK, Refusing
    <2> QED BY <1>0, <2>1, <2>2, <2>3, NotedKept
  <1>8. ASSUME \/ Admit(q) \/ Begin(q) \/ Return(q) \/ EndLive(q) \/ RecordSuccess(q)
               \/ RecordFailure(q) \/ Answer(q) \/ Exhausted(q)
        PROVE PendingOK(q)' /\ NotedOK(q)'
    <2>1. /\ pc[q] # "benching" /\ pc'[q] # "benching" /\ toBench' = toBench
          /\ chain' = chain /\ failures' = failures
          /\ pc'[q] = "logging" => ~AccessDenied(verdict'[q])
      BY <1>0, <1>8 DEF Admit, Begin, Return, EndLive, RecordSuccess, RecordFailure,
         Answer, Exhausted, AccessDenied, TypeOK
    <2>2. PendingOK(q)'
      BY <1>0, <2>1 DEF PendingOK, Refusing
    <2> QED BY <1>0, <2>1, <2>2, NotedKept
  <1>9. ASSUME \/ Chunk(q) \/ Disconnect(q)
               \/ \E p \in Providers : CooldownLapses(p)
               \/ \E c \in Candidate : BenchLapses(c)
               \/ ClearBench \/ UNCHANGED vars
        PROVE PendingOK(q)' /\ NotedOK(q)'
    <2>1. /\ pc' = pc /\ verdict' = verdict /\ toBench' = toBench
          /\ at' = at /\ chain' = chain /\ failures' = failures
      BY <1>9 DEF Chunk, Disconnect, CooldownLapses, BenchLapses, ClearBench, vars, walk
    <2>2. Cand(q)' = Cand(q)
      BY <2>1 DEF Cand
    <2> QED BY <1>0, <2>1, <2>2, NotedKept, PendingKept
  <1> QED BY <1>1, <1>2, <1>3, <1>4, <1>5, <1>6, <1>7, <1>8, <1>9 DEF Next, Step, Finished

\* A refused model sits out until its bench entry lapses or is cleared, and a
\* spent free allowance sets the provider's whole free pool aside, whatever
\* other requests bench or clear meanwhile (benchIfAccessDenied).
THEOREM RefusedAreBenched == Spec => []RefusedSitOut
  <1>1. Init => SetAside
    BY DEF Init, SetAside, PendingOK, NotedOK, Refusing
  <1>2. SetAside => RefusedSitOut
    BY DEF SetAside, NotedOK, RefusedSitOut, Aside
  <1> QED BY Walk, NextSetAside, <1>1, <1>2, PTL DEF Spec

-----------------------------------------------------------------------------
\* The initial states of the walk map to those of Failover.
LEMMA InitRefines == Init => Promise!FInit
  BY DEF Init, Promise!FInit, Standing

\* A walk step that moves no request between standings, notes no failure and
\* sends no text is invisible to Failover.
LEMMA Invisible ==
    ASSUME chain' = chain, failures' = failures, source' = source,
           \A q \in Requests : Standing(q)' = Standing(q)
    PROVE  UNCHANGED Promise!fvars
  BY DEF Promise!fvars

\* Every step of the walk is a step of Failover or invisible to it.
LEMMA NextRefines == IInv /\ [Next]_vars => [Promise!FNext]_(Promise!fvars)
  <1> SUFFICES ASSUME IInv, [Next]_vars PROVE Promise!FNext \/ UNCHANGED Promise!fvars
    OBVIOUS
  <1>0. TypeOK
    BY DEF IInv
  <1>1. ASSUME NEW r \in Requests, Route(r) PROVE Promise!Accept(r)
    <2>1. PICK plan \in Plans :
            /\ chain' = [chain EXCEPT ![r] = plan]
            /\ plan = <<>> => /\ pc' = [pc EXCEPT ![r] = "done"]
                              /\ outcome' = [outcome EXCEPT ![r] = "unroutable"]
            /\ plan # <<>> => /\ pc' = [pc EXCEPT ![r] = "next"]
                              /\ outcome' = outcome
      BY <1>1 DEF Route
    <2>2. plan \in Seq(Candidate)
      BY PlansAssumption
    <2>3. Len(plan) \in Nat /\ (Len(plan) = 0 <=> plan = <<>>)
      BY <2>2
    <2>4. outcome[r] = "none" /\ pc[r] = "new"
      BY <1>1 DEF IInv, WalkOK, DoneOK, Route
    <2>5. [q \in Requests |-> Len(chain[q])]' = 
              [[q \in Requests |-> Len(chain[q])] EXCEPT ![r] = Len(plan)]
      BY <1>0, <2>1 DEF TypeOK
    <2>6. [q \in Requests |-> Standing(q)]' = 
              [[q \in Requests |-> Standing(q)] EXCEPT ![r] = IF Len(plan) = 0 THEN "refused" ELSE "open"]
      BY <1>0, <2>1, <2>3, <2>4 DEF TypeOK, Standing
    <2>7. failures' = failures /\ source' = source
      BY <1>1 DEF Route, history
    <2>8. Standing(r) = "new"
      BY <2>4 DEF Standing
    <2> QED BY <2>3, <2>5, <2>6, <2>7, <2>8 DEF Promise!Accept
  <1>2. ASSUME NEW r \in Requests, at'[r] = at[r] + 1, at[r] <= Len(chain[r]),
               source[r] = {}, Len(failures[r]) = at[r] - 1,
               Standing(r) = "open", chain' = chain, source' = source,
               \A q \in Requests : Standing(q)' = Standing(q),
               NEW why, failures' = [failures EXCEPT ![r] = Append(@, why)]
        PROVE  Promise!GiveUp(r)
    <2>1. at[r] \in 1..Len(chain[r])
      <3>1. at[r] \in Nat \ {0} /\ Len(chain[r]) \in Nat
        BY <1>0 DEF TypeOK
      <3> QED BY <3>1, <1>2
    <2>2. Len(failures'[r]) = at[r]
      <3>1. failures[r] \in Seq(Reasons) /\ at[r] \in Nat
        BY <1>0 DEF TypeOK
      <3>2. failures'[r] = Append(failures[r], why)
        BY <1>0, <1>2 DEF TypeOK
      <3> QED BY <1>2, <3>1, <3>2
    <2>3. [q \in Requests |-> 1..Len(failures[q])]' =
              [[q \in Requests |-> 1..Len(failures[q])] EXCEPT ![r] = 1..at[r]]
      BY <1>0, <1>2, <2>2 DEF TypeOK
    <2>4. [q \in Requests |-> Standing(q)]' = [q \in Requests |-> Standing(q)]
      BY <1>2
    <2> QED BY <1>2, <2>1, <2>3, <2>4 DEF Promise!GiveUp
  <1>3. ASSUME NEW r \in Requests, SkipInCooldown(r) PROVE Promise!GiveUp(r)
    <2>1. /\ at'[r] = at[r] + 1 /\ at[r] <= Len(chain[r]) /\ chain' = chain
          /\ source' = source
          /\ failures' = [failures EXCEPT ![r] = Append(@, "cooldown")]
      BY <1>0, <1>3 DEF SkipInCooldown, TypeOK, history
    <2>2. source[r] = {} /\ Len(failures[r]) = at[r] - 1 /\ Standing(r) = "open"
      BY <1>3 DEF SkipInCooldown, IInv, WalkOK, WalkingOK, SourceOK, DoneOK, Standing
    <2>3. \A q \in Requests : Standing(q)' = Standing(q)
      BY <1>3 DEF SkipInCooldown, Standing
    <2> QED BY <1>2, <2>1, <2>2, <2>3
  <1>4. ASSUME NEW r \in Requests, MoveOn(r), ~sent[r] PROVE Promise!GiveUp(r)
    <2>1. /\ at'[r] = at[r] + 1 /\ chain' = chain /\ source' = source
          /\ failures' = [failures EXCEPT ![r] = Append(@, verdict[r])]
      BY <1>0, <1>4 DEF MoveOn, TypeOK, history
    <2>2. /\ source[r] = {} /\ Len(failures[r]) = at[r] - 1
          /\ at[r] <= Len(chain[r]) /\ Standing(r) = "open"
      BY <1>4 DEF MoveOn, IInv, WalkOK, WalkingOK, SourceOK, DoneOK, InAttempt, Standing
    <2>3. \A q \in Requests : Standing(q)' = Standing(q)
      BY <1>0, <1>4 DEF MoveOn, Standing, TypeOK
    <2> QED BY <1>2, <2>1, <2>2, <2>3
  <1>5. ASSUME NEW r \in Requests, MoveOn(r), sent[r] PROVE Promise!CutOff(r)
    <2>1. /\ chain' = chain /\ source' = source /\ outcome' = [outcome EXCEPT ![r] = "cut off"]
          /\ pc' = [pc EXCEPT ![r] = "done"] /\ failures'[r] = Append(failures[r], verdict[r])
          /\ \A q \in Requests : q # r => failures'[q] = failures[q]
      BY <1>0, <1>5 DEF MoveOn, TypeOK, history
    <2>2. /\ source[r] = {at[r]} /\ Len(failures[r]) = at[r] - 1 /\ Standing(r) = "open"
      BY <1>5 DEF MoveOn, IInv, WalkOK, WalkingOK, SourceOK, DoneOK, InAttempt, Standing
    <2>3. 1..Len(failures'[r]) = (1..Len(failures[r])) \cup source[r]
      <3>1. failures[r] \in Seq(Reasons) /\ at[r] \in Nat \ {0}
        BY <1>0 DEF TypeOK
      <3>2. Len(failures'[r]) = at[r]
        <4>1. Len(Append(failures[r], verdict[r])) = Len(failures[r]) + 1
          BY <3>1
        <4>2. failures'[r] = Append(failures[r], verdict[r])
          BY <2>1
        <4>3. Len(failures[r]) = at[r] - 1
          BY <2>2
        <4> QED BY <3>1, <4>1, <4>2, <4>3
      <3> QED BY <2>2, <3>1, <3>2
    <2>4. [q \in Requests |-> 1..Len(failures[q])]' =
              [[q \in Requests |-> 1..Len(failures[q])] EXCEPT ![r] = @ \cup source[r]]
      BY <2>1, <2>3
    <2>5. [q \in Requests |-> Standing(q)]' =
              [[q \in Requests |-> Standing(q)] EXCEPT ![r] = "cut off"]
      BY <1>0, <2>1 DEF Standing, TypeOK
    <2> QED BY <2>1, <2>2, <2>4, <2>5 DEF Promise!CutOff
  <1>6. ASSUME NEW r \in Requests, Chunk(r) PROVE Promise!Commit(r) \/ UNCHANGED Promise!fvars
    <2>1. /\ chain' = chain /\ failures' = failures
          /\ source' = [source EXCEPT ![r] = @ \cup {at[r]}]
      BY <1>6 DEF Chunk
    <2>2. /\ Len(failures[r]) = at[r] - 1 /\ Standing(r) = "open"
          /\ source[r] = {} \/ source[r] = {at[r]}
          /\ at[r] <= Len(chain[r])
      BY <1>6 DEF Chunk, IInv, WalkOK, WalkingOK, SourceOK, DoneOK, InAttempt, Standing
    <2>3. \A q \in Requests : Standing(q)' = Standing(q)
      BY <1>6 DEF Chunk, Standing
    <2>4. CASE source[r] = {at[r]}
      <3>1. source' = source
        BY <1>0, <2>1, <2>4 DEF TypeOK
      <3> QED BY <2>1, <2>3, <3>1, Invisible
    <2>5. CASE source[r] = {}
      <3>1. at[r] \in 1..Len(chain[r])
        <4>1. at[r] \in Nat \ {0} /\ Len(chain[r]) \in Nat
          BY <1>0 DEF TypeOK
        <4> QED BY <4>1, <2>2
      <3>2. source' = [source EXCEPT ![r] = {at[r]}]
        BY <1>0, <2>1, <2>5 DEF TypeOK
      <3>3. [q \in Requests |-> Standing(q)]' = [q \in Requests |-> Standing(q)]
        BY <2>3
      <3> QED BY <2>1, <2>2, <2>5, <3>1, <3>2, <3>3 DEF Promise!Commit
    <2> QED BY <2>2, <2>4, <2>5
  <1>7. ASSUME NEW r \in Requests, Answer(r) PROVE Promise!Answer(r)
    <2>1. /\ chain' = chain /\ failures' = failures /\ source' = source
          /\ outcome' = [outcome EXCEPT ![r] = "answered"]
          /\ pc' = [pc EXCEPT ![r] = "done"]
      BY <1>7 DEF Answer, history
    <2>2. /\ Len(failures[r]) = at[r] - 1 /\ Standing(r) = "open"
          /\ at[r] <= Len(chain[r])
      BY <1>7 DEF Answer, IInv, WalkOK, WalkingOK, DoneOK, InAttempt, Standing
    <2>3. 1..Len(failures[r]) # 1..Len(chain[r])
      <3>1. at[r] \in Nat \ {0} /\ Len(chain[r]) \in Nat
        BY <1>0 DEF TypeOK
      <3>2. at[r] \in 1..Len(chain[r]) /\ at[r] \notin 1..Len(failures[r])
        BY <2>2, <3>1
      <3> QED BY <3>2
    <2>4. [q \in Requests |-> Standing(q)]' =
              [[q \in Requests |-> Standing(q)] EXCEPT ![r] = "answered"]
      BY <1>0, <2>1 DEF Standing, TypeOK
    <2> QED BY <2>1, <2>2, <2>3, <2>4 DEF Promise!Answer
  <1>8. ASSUME NEW r \in Requests, Exhausted(r) PROVE Promise!Refuse(r)
    <2>1. /\ chain' = chain /\ failures' = failures /\ source' = source
          /\ pc' = [pc EXCEPT ![r] = "done"]
          /\ \E o \in {"failed", "permanent"} : outcome' = [outcome EXCEPT ![r] = o]
      BY <1>8 DEF Exhausted, Summary, history
    <2>2. /\ Len(failures[r]) = Len(chain[r]) /\ source[r] = {} /\ Standing(r) = "open"
      <3>1. /\ Len(failures[r]) = at[r] - 1 /\ Standing(r) = "open" /\ source[r] = {}
            /\ at[r] <= Len(chain[r]) + 1 /\ at[r] > Len(chain[r])
        BY <1>8 DEF Exhausted, IInv, WalkOK, WalkingOK, SourceOK, DoneOK, Standing
      <3>2. at[r] \in Nat /\ Len(chain[r]) \in Nat
        BY <1>0 DEF TypeOK
      <3> QED BY <3>1, <3>2
    <2>4. [q \in Requests |-> Standing(q)]' =
              [[q \in Requests |-> Standing(q)] EXCEPT ![r] = "refused"]
      BY <1>0, <2>1 DEF Standing, TypeOK
    <2> QED BY <2>1, <2>2, <2>4 DEF Promise!Refuse
  <1>9. ASSUME NEW r \in Requests,
               \/ Admit(r) \/ Begin(r) \/ Return(r) \/ EndLive(r)
               \/ RecordSuccess(r) \/ RecordFailure(r) \/ BenchRefused(r)
               \/ BenchDone(r)
        PROVE UNCHANGED Promise!fvars
    <2>1. chain' = chain /\ failures' = failures /\ source' = source /\ outcome' = outcome
      BY <1>9 DEF Admit, Begin, Return, EndLive, RecordSuccess, RecordFailure,
         BenchRefused, BenchDone, history
    <2>2. pc[r] # "new" /\ \E w \in Stages \ {"new"} : pc' = [pc EXCEPT ![r] = w]
      BY <1>9 DEF Admit, Begin, Return, EndLive, RecordSuccess, RecordFailure,
         BenchRefused, BenchDone, Stages
    <2>3. \A q \in Requests : Standing(q)' = Standing(q)
      BY <1>0, <2>1, <2>2 DEF Standing, TypeOK
    <2> QED BY <2>1, <2>3, Invisible
  <1>10. ASSUME \/ \E r \in Requests : BenchPool(r) \/ Disconnect(r)
                \/ \E p \in Providers : CooldownLapses(p)
                \/ \E c \in Candidate : BenchLapses(c)
                \/ ClearBench \/ UNCHANGED vars
         PROVE UNCHANGED Promise!fvars
    <2>1. /\ chain' = chain /\ failures' = failures /\ source' = source
          /\ outcome' = outcome /\ pc' = pc
      BY <1>10 DEF BenchPool, Disconnect, CooldownLapses, BenchLapses, ClearBench,
         vars, walk, history
    <2>2. \A q \in Requests : Standing(q)' = Standing(q)
      BY <2>1 DEF Standing
    <2> QED BY <2>1, <2>2, Invisible
  <1> QED
    BY <1>1, <1>3, <1>4, <1>5, <1>6, <1>7, <1>8, <1>9, <1>10
       DEF Next, Step, Finished, Promise!FNext

\* The walk implements Failover: every critical section of attemptChain is one
\* of its steps or invisible to it, for any number of concurrent requests.
THEOREM Implementation == Spec => ImplementsFailover
  BY Walk, InitRefines, NextRefines, PTL DEF Spec, ImplementsFailover, Promise!FSpec
=============================================================================
