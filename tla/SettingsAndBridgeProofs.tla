----------------------- MODULE SettingsAndBridgeProofs -----------------------
(***************************************************************************)
(* Proofs about OperatorSettings, for every set of handlers, of tables and *)
(* of entries, and either default of the switch; and about IotBridge, for  *)
(* any devices, HTTP callers, keys and bounds.  The two share no variable  *)
(* and no definition: each theorem is about one of them alone.             *)
(***************************************************************************)
EXTENDS OperatorSettings, IotBridge, TLAPS

(***************************************************************************)
(* The inductive strengthening.  What makes memory and database agree once *)
(* the handlers of a setting are done is that a calm setting has at most   *)
(* one handler, and that what this handler holds is what is stored.        *)
(***************************************************************************)
On(h, s) == pc[h] # "idle" /\ job[h].setting = s

StagesFit ==
    \A h \in Handlers :
        /\ pc[h] = "checked" => job[h].setting = Switch
        /\ pc[h] = "read" => job[h].setting \in Lists

OneAtATime ==
    \A s \in calm : \A g, h \in Handlers : On(g, s) /\ On(h, s) => g = h

HoldsPast ==
    /\ \A l \in Lists : table[l] \in past[l]
    /\ \A h \in Handlers : pc[h] = "read" => read[h] \in past[job[h].setting]

HoldsStored ==
    \A h \in Handlers :
        /\ pc[h] = "read" /\ job[h].setting \in calm => read[h] = table[job[h].setting]
        /\ pc[h] = "written" /\ job[h].setting = Switch /\ Switch \in calm
              => stored = {job[h].on}

AgreeAtRest ==
    /\ \A l \in Lists : l \in calm /\ (\A h \in Handlers : ~On(h,
        l)) => memory[l] = table[l]
    /\ Switch \in calm /\ (\A h \in Handlers : ~On(h, Switch)) => flag = Override

\* What was confirmed is stored; a calm setting's handler leaves everything but
\* its own entry as it is stored, and its own entry has not been confirmed yet.
Wrote ==
    \A h \in Handlers :
        pc[h] # "idle" /\ job[h].setting \in Lists /\ h \notin overtaken
            => (job[h].entry \in table[job[h].setting] <=> job[h].on)

ToldStored ==
    \A j \in told :
        /\ j.setting \in Lists => (j.entry \in table[j.setting] <=> j.on)
        /\ j.setting = Switch /\ Switch \in calm => stored = {j.on} /\ flag = j.on

OnlyItsEntry ==
    \A l \in Lists : \A h \in Handlers : l \in calm /\ On(h, l) =>
        \A e \in Entries : e # job[h].entry => (e \in memory[l] <=> e \in table[l])

ToldAtRest ==
    \A j \in told : \A h \in Handlers :
        j.setting \in calm /\ On(h, j.setting) => job[h].entry # j.entry

IInv ==
    /\ TypeOK /\ StagesFit /\ OneAtATime /\ HoldsPast /\ HoldsStored
    /\ AgreeAtRest /\ NeverAMixture
    /\ Wrote /\ ToldStored /\ OnlyItsEntry /\ ToldAtRest

-----------------------------------------------------------------------------

\* A stored switch is what a restart would load.
LEMMA OverrideIsStored == ASSUME NEW b \in BOOLEAN, stored = {b} PROVE Override = b
  BY DEF Override

\* A job of the switch is about the switch's one row.
LEMMA SwitchEntry ==
    ASSUME NEW j \in Jobs, j.setting = Switch PROVE j.entry = Switch /\ j.on \in BOOLEAN
  BY SwitchAssumption DEF Jobs

\* Write keeps the invariant.
LEMMA WriteStep ==
    ASSUME IInv, NEW h \in Handlers, NEW l \in Lists, NEW e \in Entries,
           NEW on \in BOOLEAN, Write(h, l, e, on)
    PROVE  IInv'
  <1>1. TypeOK'
    <2>1. table' \in [Lists -> SUBSET Entries]
      BY DEF IInv, TypeOK, Write
    <2>2. past' \in [Lists -> SUBSET SUBSET Entries]
      BY DEF IInv, TypeOK, Write
    <2>3. pc' \in [Handlers -> Stages]
      BY DEF IInv, TypeOK, Write, Stages
    <2>4. job' \in [Handlers -> Jobs]
      BY DEF IInv, TypeOK, Write, Begins, Jobs
    <2>5. calm' \in SUBSET Settings
      BY DEF IInv, TypeOK, Write, Begins
    <2>6. told' \in SUBSET Jobs
      BY DEF IInv, TypeOK, Write, Begins
    <2>7. overtaken' \in SUBSET Handlers
      BY DEF IInv, TypeOK, Write, Begins, Busy
    <2>8. QED
      BY <2>1, <2>2, <2>3, <2>4, <2>5, <2>6, <2>7 DEF IInv, TypeOK, Write
  <1>2. StagesFit'
    BY DEF IInv, StagesFit, Write, Begins
  <1>3. OneAtATime'
    BY DEF IInv, TypeOK, OneAtATime, On, Write, Begins, Busy
  <1>4. HoldsPast'
    BY DEF IInv, TypeOK, HoldsPast, Write, Begins
  <1>5. HoldsStored'
    BY SwitchAssumption DEF IInv, TypeOK, HoldsStored, Write, Begins, Busy
  <1>6. AgreeAtRest'
    BY SwitchAssumption DEF IInv, TypeOK, StagesFit, OneAtATime, AgreeAtRest, On,
       Override, Write, Begins, Busy, Jobs, NoJob, Settings, shared, history
  <1>7. NeverAMixture'
    BY DEF IInv, NeverAMixture, Write
  <1>8. Wrote'
    BY DEF IInv, TypeOK, Wrote, Write, Begins, Busy
  <1>9. ToldStored'
    BY DEF IInv, ToldStored, Write, Begins
  <1>10. OnlyItsEntry'
    BY DEF IInv, TypeOK, OnlyItsEntry, AgreeAtRest, On, Write, Begins, Busy
  <1>11. ToldAtRest'
    BY DEF IInv, TypeOK, ToldAtRest, On, Write, Begins
  <1>12. QED
    BY <1>1, <1>2, <1>3, <1>4, <1>5, <1>6, <1>7, <1>8, <1>9, <1>10, <1>11 DEF IInv

\* ReadBack keeps the invariant.
LEMMA ReadBackStep ==
    ASSUME IInv, NEW h \in Handlers, ReadBack(h)
    PROVE  IInv'
  <1>1. TypeOK'
    <2>1. read' \in [Handlers -> SUBSET Entries]
      BY DEF IInv, TypeOK, ReadBack
    <2>2. pc' \in [Handlers -> Stages]
      BY DEF IInv, TypeOK, ReadBack, Stages
    <2>3. QED
      BY <2>1, <2>2 DEF IInv, TypeOK, ReadBack, shared, history
  <1>2. StagesFit'
    BY DEF IInv, StagesFit, ReadBack
  <1>3. OneAtATime'
    BY DEF IInv, OneAtATime, On, ReadBack, history
  <1>4. HoldsPast'
    BY DEF IInv, TypeOK, HoldsPast, ReadBack, shared, history
  <1>5. HoldsStored'
    BY DEF IInv, TypeOK, HoldsStored, ReadBack, shared, history
  <1>6. AgreeAtRest'
    BY DEF IInv, TypeOK, AgreeAtRest, On, Override, ReadBack, shared, history
  <1>7. NeverAMixture'
    BY DEF IInv, NeverAMixture, ReadBack, shared, history
  <1>8. Wrote'
    BY DEF IInv, Wrote, ReadBack, shared, history
  <1>9. ToldStored'
    BY DEF IInv, ToldStored, ReadBack, shared, history
  <1>10. OnlyItsEntry'
    BY DEF IInv, OnlyItsEntry, On, ReadBack, shared, history
  <1>11. ToldAtRest'
    BY DEF IInv, ToldAtRest, On, ReadBack, history
  <1>12. QED
    BY <1>1, <1>2, <1>3, <1>4, <1>5, <1>6, <1>7, <1>8, <1>9, <1>10, <1>11 DEF IInv

\* ReadFails keeps the invariant.
LEMMA ReadFailsStep ==
    ASSUME IInv, NEW h \in Handlers, ReadFails(h)
    PROVE  IInv'
  <1>1. TypeOK'
    BY DEF IInv, TypeOK, ReadFails, Ends, Jobs, NoJob, Stages, shared
  <1>2. StagesFit'
    BY DEF IInv, StagesFit, ReadFails, Ends
  <1>3. OneAtATime'
    BY DEF IInv, TypeOK, OneAtATime, On, ReadFails, Ends
  <1>4. HoldsPast'
    BY DEF IInv, HoldsPast, ReadFails, Ends, shared
  <1>5. HoldsStored'
    BY DEF IInv, TypeOK, HoldsStored, ReadFails, Ends, shared
  <1>6. AgreeAtRest'
    BY DEF IInv, TypeOK, AgreeAtRest, On, Override, ReadFails, Ends, shared
  <1>7. NeverAMixture'
    BY DEF IInv, NeverAMixture, ReadFails, shared
  <1>8. Wrote'
    BY DEF IInv, TypeOK, Wrote, ReadFails, Ends, shared
  <1>9. ToldStored'
    BY DEF IInv, ToldStored, ReadFails, shared
  <1>10. OnlyItsEntry'
    BY SwitchAssumption DEF IInv, OnlyItsEntry, On, ReadFails, Ends, NoJob, shared
  <1>11. ToldAtRest'
    BY DEF IInv, TypeOK, ToldAtRest, On, ReadFails, Ends
  <1>12. QED
    BY <1>1, <1>2, <1>3, <1>4, <1>5, <1>6, <1>7, <1>8, <1>9, <1>10, <1>11 DEF IInv

\* Apply keeps the invariant.
LEMMA ApplyStep ==
    ASSUME IInv, NEW h \in Handlers, Apply(h)
    PROVE  IInv'
  <1>1. TypeOK'
    <2>1. memory' \in [Lists -> SUBSET Entries]
      BY DEF IInv, TypeOK, Apply
    <2>2. pc' \in [Handlers -> Stages]
      BY DEF IInv, TypeOK, Apply, Confirms, Ends, Stages
    <2>3. job' \in [Handlers -> Jobs]
      BY DEF IInv, TypeOK, Apply, Confirms, Ends, Jobs, NoJob
    <2>4. read' \in [Handlers -> SUBSET Entries]
      BY DEF IInv, TypeOK, Apply, Confirms, Ends
    <2>5. overtaken' \in SUBSET Handlers
      BY DEF IInv, TypeOK, Apply, Confirms, Ends
    <2>6. told' \in SUBSET Jobs
      BY DEF IInv, TypeOK, Apply, Confirms
    <2>7. QED
      BY <2>1, <2>2, <2>3, <2>4, <2>5, <2>6 DEF IInv, TypeOK, Apply
  <1>2. StagesFit'
    BY DEF IInv, TypeOK, StagesFit, Apply, Confirms, Ends
  <1>3. OneAtATime'
    BY DEF IInv, TypeOK, OneAtATime, On, Apply, Confirms, Ends
  <1>4. HoldsPast'
    BY DEF IInv, TypeOK, HoldsPast, Apply, Confirms, Ends
  <1>5. HoldsStored'
    BY DEF IInv, TypeOK, HoldsStored, Apply, Confirms, Ends
  <1>6. AgreeAtRest'
    <2>1. job[h].setting \in Lists /\ job[h].setting # Switch /\ On(h, job[h].setting)
      BY SwitchAssumption DEF IInv, StagesFit, Apply, On
    <2>2. \A g \in Handlers \ {h} : \A s \in Settings : On(g, s)' <=> On(g, s)
      BY DEF Apply, Confirms, Ends, On
    <2>3. \A s \in Settings : ~On(h, s)'
      BY DEF IInv, TypeOK, Apply, Confirms, Ends, On
    <2>4. ASSUME NEW l \in Lists, l \in calm, \A g \in Handlers : ~On(g, l)'
          PROVE  memory'[l] = table[l]
      <3>1. CASE l = job[h].setting
        BY <3>1, <2>4 DEF IInv, TypeOK, HoldsStored, Apply
      <3>2. CASE l # job[h].setting
        <4>1. \A g \in Handlers : ~On(g, l)
          BY <2>2, <2>4, <3>2 DEF On, Settings
        <4>2. QED
          BY <4>1, <2>4, <3>2 DEF IInv, AgreeAtRest, Apply
      <3>3. QED
        BY <3>1, <3>2
    <2>5. ASSUME Switch \in calm, \A g \in Handlers : ~On(g, Switch)'
          PROVE  flag = Override
      <3>1. \A g \in Handlers : ~On(g, Switch)
        BY <2>1, <2>2, <2>5 DEF On, Settings
      <3>2. QED
        BY <3>1, <2>5 DEF IInv, AgreeAtRest
    <2>6. QED
      BY <2>3, <2>4, <2>5 DEF AgreeAtRest, Apply, Override
  <1>7. NeverAMixture'
    BY DEF IInv, NeverAMixture, HoldsPast, Apply
  <1>8. Wrote'
    BY DEF IInv, TypeOK, Wrote, Apply, Confirms, Ends
  <1>9. ToldStored'
    BY SwitchAssumption DEF IInv, StagesFit, ToldStored, Wrote, Apply, Confirms
  <1>10. OnlyItsEntry'
    BY SwitchAssumption DEF IInv, OnlyItsEntry, HoldsStored, On, Apply, Confirms, Ends,
       NoJob
  <1>11. ToldAtRest'
    BY DEF IInv, TypeOK, OneAtATime, ToldAtRest, On, Apply, Confirms, Ends
  <1>12. QED
    BY <1>1, <1>2, <1>3, <1>4, <1>5, <1>6, <1>7, <1>8, <1>9, <1>10, <1>11 DEF IInv

\* CheckFree keeps the invariant.
LEMMA CheckFreeStep == ASSUME IInv, NEW h \in Handlers, NEW on \in BOOLEAN,
    CheckFree(h, on) PROVE IInv'
  <1>1. TypeOK'
    <2>1. pc' \in [Handlers -> Stages]
      BY DEF IInv, TypeOK, CheckFree, Stages
    <2>2. job' \in [Handlers -> Jobs]
      BY DEF IInv, TypeOK, CheckFree, Begins, Jobs
    <2>3. calm' \in SUBSET Settings
      BY DEF IInv, TypeOK, CheckFree, Begins
    <2>4. told' \in SUBSET Jobs
      BY DEF IInv, TypeOK, CheckFree, Begins
    <2>5. overtaken' \in SUBSET Handlers
      BY DEF IInv, TypeOK, CheckFree, Begins, Busy
    <2>6. QED
      BY <2>1, <2>2, <2>3, <2>4, <2>5 DEF IInv, TypeOK, CheckFree, shared
  <1>2. StagesFit'
    BY DEF IInv, TypeOK, StagesFit, CheckFree, Begins
  <1>3. OneAtATime'
    BY DEF IInv, TypeOK, OneAtATime, On, CheckFree, Begins, Busy
  <1>4. HoldsPast'
    BY DEF IInv, HoldsPast, CheckFree, Begins, shared
  <1>5. HoldsStored'
    BY DEF IInv, HoldsStored, CheckFree, Begins, shared
  <1>6. AgreeAtRest'
    BY DEF IInv, TypeOK, AgreeAtRest, On, CheckFree, Begins, shared
  <1>7. NeverAMixture'
    BY DEF IInv, NeverAMixture, CheckFree, shared
  <1>8. Wrote'
    BY SwitchAssumption DEF IInv, TypeOK, Wrote, CheckFree, Begins, shared
  <1>9. ToldStored'
    BY DEF IInv, ToldStored, CheckFree, Begins, shared
  <1>10. OnlyItsEntry'
    BY SwitchAssumption DEF IInv, TypeOK, OnlyItsEntry, On, CheckFree, Begins, shared
  <1>11. ToldAtRest'
    BY DEF IInv, TypeOK, ToldAtRest, On, CheckFree, Begins
  <1>12. QED
    BY <1>1, <1>2, <1>3, <1>4, <1>5, <1>6, <1>7, <1>8, <1>9, <1>10, <1>11 DEF IInv

\* StoreSwitch keeps the invariant.
LEMMA StoreSwitchStep ==
    ASSUME IInv, NEW h \in Handlers, StoreSwitch(h)
    PROVE  IInv'
  <1>1. TypeOK'
    BY DEF IInv, TypeOK, StoreSwitch, Jobs, Stages, history
  <1>2. StagesFit'
    BY DEF IInv, StagesFit, StoreSwitch
  <1>3. OneAtATime'
    BY DEF IInv, OneAtATime, On, StoreSwitch, history
  <1>4. HoldsPast'
    BY DEF IInv, HoldsPast, StoreSwitch, history
  <1>5. HoldsStored'
    BY DEF IInv, StagesFit, OneAtATime, HoldsStored, On, StoreSwitch, history
  <1>6. AgreeAtRest'
    BY DEF IInv, TypeOK, StagesFit, AgreeAtRest, On, StoreSwitch, history
  <1>7. NeverAMixture'
    BY DEF IInv, NeverAMixture, StoreSwitch, history
  <1>8. Wrote'
    BY DEF IInv, Wrote, StoreSwitch, history
  <1>9. ToldStored'
    <2>1. On(h, Switch) /\ job[h].entry = Switch
      BY SwitchEntry DEF IInv, TypeOK, StagesFit, StoreSwitch, On
    <2>2. \A j \in told : ~(j.setting = Switch /\ Switch \in calm)
      BY <2>1, SwitchEntry DEF IInv, TypeOK, ToldAtRest
    <2>3. QED
      BY <2>2 DEF IInv, ToldStored, StoreSwitch, history
  <1>10. OnlyItsEntry'
    BY DEF IInv, OnlyItsEntry, On, StoreSwitch, history
  <1>11. ToldAtRest'
    BY DEF IInv, ToldAtRest, On, StoreSwitch, history
  <1>12. QED
    BY <1>1, <1>2, <1>3, <1>4, <1>5, <1>6, <1>7, <1>8, <1>9, <1>10, <1>11 DEF IInv

\* StoreFails keeps the invariant.
LEMMA StoreFailsStep ==
    ASSUME IInv, NEW h \in Handlers, StoreFails(h)
    PROVE  IInv'
  <1>1. TypeOK'
    BY DEF IInv, TypeOK, StoreFails, Ends, Jobs, NoJob, Stages
  <1>2. StagesFit'
    BY DEF IInv, StagesFit, StoreFails, Ends, NoJob
  <1>3. OneAtATime'
    BY DEF IInv, OneAtATime, On, StoreFails, Ends, NoJob
  <1>4. HoldsPast'
    BY DEF IInv, HoldsPast, StoreFails, Ends
  <1>5. HoldsStored'
    BY DEF IInv, HoldsStored, StoreFails, Ends
  <1>6. AgreeAtRest'
    BY DEF IInv, StagesFit, AgreeAtRest, On, StoreFails, Ends
  <1>7. NeverAMixture'
    BY DEF IInv, NeverAMixture, StoreFails
  <1>8. Wrote'
    BY SwitchAssumption DEF IInv, StagesFit, Wrote, StoreFails, Ends, NoJob
  <1>9. ToldStored'
    BY DEF IInv, ToldStored, StoreFails
  <1>10. OnlyItsEntry'
    BY DEF IInv, OnlyItsEntry, On, StoreFails, Ends, NoJob
  <1>11. ToldAtRest'
    BY DEF IInv, ToldAtRest, On, StoreFails, Ends, NoJob
  <1>12. QED
    BY <1>1, <1>2, <1>3, <1>4, <1>5, <1>6, <1>7, <1>8, <1>9, <1>10, <1>11 DEF IInv

\* SetFreeOnly keeps the invariant.
LEMMA SetFreeOnlyStep ==
    ASSUME IInv, NEW h \in Handlers, SetFreeOnly(h)
    PROVE  IInv'
  <1>1. TypeOK'
    <2>1. flag' \in BOOLEAN
      BY DEF IInv, TypeOK, SetFreeOnly, Jobs
    <2>2. pc' \in [Handlers -> Stages]
      BY DEF IInv, TypeOK, SetFreeOnly, Confirms, Ends, Stages
    <2>3. job' \in [Handlers -> Jobs]
      BY DEF IInv, TypeOK, SetFreeOnly, Confirms, Ends, Jobs, NoJob
    <2>4. read' \in [Handlers -> SUBSET Entries]
      BY DEF IInv, TypeOK, SetFreeOnly, Confirms, Ends
    <2>5. overtaken' \in SUBSET Handlers
      BY DEF IInv, TypeOK, SetFreeOnly, Confirms, Ends
    <2>6. told' \in SUBSET Jobs
      BY DEF IInv, TypeOK, SetFreeOnly, Confirms
    <2>7. QED
      BY <2>1, <2>2, <2>3, <2>4, <2>5, <2>6 DEF IInv, TypeOK, SetFreeOnly
  <1>2. StagesFit'
    BY DEF IInv, StagesFit, SetFreeOnly, Confirms, Ends
  <1>3. OneAtATime'
    BY DEF IInv, OneAtATime, On, SetFreeOnly, Confirms, Ends, NoJob
  <1>4. HoldsPast'
    BY DEF IInv, HoldsPast, SetFreeOnly, Confirms, Ends
  <1>5. HoldsStored'
    BY DEF IInv, TypeOK, HoldsStored, SetFreeOnly, Confirms, Ends
  <1>6. AgreeAtRest'
    <2>1. \A g \in Handlers, l \in Lists : On(g, l)' <=> On(g, l)
      BY SwitchAssumption DEF SetFreeOnly, Confirms, Ends, On, NoJob
    <2>2. Switch \in calm => stored = {job[h].on}
      BY DEF IInv, HoldsStored, SetFreeOnly
    <2>3. job[h].on \in BOOLEAN
      BY SwitchEntry DEF IInv, TypeOK, SetFreeOnly
    <2>4. Switch \in calm => flag' = Override
      BY <2>2, <2>3, OverrideIsStored DEF SetFreeOnly
    <2>5. QED
      BY <2>1, <2>4 DEF IInv, AgreeAtRest, SetFreeOnly, Override
  <1>7. NeverAMixture'
    BY DEF IInv, NeverAMixture, SetFreeOnly
  <1>8. Wrote'
    BY SwitchAssumption DEF IInv, Wrote, SetFreeOnly, Confirms, Ends, NoJob
  <1>9. ToldStored'
    <2>1. Switch \in calm => stored = {job[h].on}
      BY DEF IInv, HoldsStored, SetFreeOnly
    <2>2. On(h, Switch) /\ job[h].entry = Switch
      BY SwitchEntry DEF IInv, TypeOK, SetFreeOnly, On
    <2>3. \A j \in told : ~(j.setting = Switch /\ Switch \in calm)
      BY <2>2, SwitchEntry DEF IInv, TypeOK, ToldAtRest
    <2>4. \A j \in told' : j \in told \/ j = job[h]
      BY DEF SetFreeOnly, Confirms
    <2>5. flag' = job[h].on /\ job[h].setting = Switch
            /\ UNCHANGED <<table, stored, calm>>
      BY DEF SetFreeOnly
    <2>6. ASSUME NEW j \in told'
          PROVE  /\ j.setting \in Lists => (j.entry \in table[j.setting] <=> j.on)
                 /\ j.setting = Switch /\ Switch \in calm => stored = {j.on} /\ flag' = j.on
      <3>1. CASE j \in told
        BY <3>1, <2>3 DEF IInv, ToldStored
      <3>2. CASE j = job[h]
        BY <3>2, <2>1, <2>5, SwitchAssumption
      <3>3. QED
        BY <3>1, <3>2, <2>4
    <2>7. QED
      BY <2>5, <2>6 DEF ToldStored
  <1>10. OnlyItsEntry'
    BY SwitchAssumption DEF IInv, OnlyItsEntry, On, SetFreeOnly, Confirms, Ends, NoJob
  <1>11. ToldAtRest'
    BY DEF IInv, TypeOK, OneAtATime, ToldAtRest, On, SetFreeOnly, Confirms, Ends
  <1>12. QED
    BY <1>1, <1>2, <1>3, <1>4, <1>5, <1>6, <1>7, <1>8, <1>9, <1>10, <1>11 DEF IInv

\* Restart keeps the invariant.
LEMMA RestartStep ==
    ASSUME IInv, NEW lost \in SUBSET Settings, Restart(lost)
    PROVE  IInv'
  <1>1. TypeOK'
    <2>1. memory' \in [Lists -> SUBSET Entries]
      BY DEF IInv, TypeOK, Restart
    <2>2. flag' \in BOOLEAN
      <3>1. Override \in BOOLEAN
        BY DEF Override
      <3>2. QED
        BY <3>1, DefaultAssumption DEF Restart
    <2>3. pc' \in [Handlers -> Stages]
      BY DEF Restart, Forgets, Stages
    <2>4. job' \in [Handlers -> Jobs]
      BY DEF Restart, Forgets, Jobs, NoJob
    <2>5. read' \in [Handlers -> SUBSET Entries]
      BY DEF Restart, Forgets
    <2>6. calm' \in SUBSET Settings
      BY DEF Restart, Forgets
    <2>7. told' \in SUBSET Jobs
      BY DEF IInv, TypeOK, Restart, Forgets
    <2>8. past' \in [Lists -> SUBSET SUBSET Entries]
      BY DEF IInv, TypeOK, Restart, Forgets
    <2>9. QED
      BY <2>1, <2>5, <2>6, <2>7, <2>2, <2>3, <2>4, <2>8 DEF IInv, TypeOK, Restart,
         Forgets
  <1>2. StagesFit'
    BY DEF StagesFit, Restart, Forgets
  <1>3. OneAtATime'
    BY DEF OneAtATime, On, Restart, Forgets
  <1>4. HoldsPast'
    BY DEF HoldsPast, Restart, Forgets
  <1>5. HoldsStored'
    BY DEF HoldsStored, Restart, Forgets
  <1>6. AgreeAtRest'
    BY DEF AgreeAtRest, Override, Restart, Forgets
  <1>7. NeverAMixture'
    BY DEF NeverAMixture, Restart, Forgets
  <1>8. Wrote'
    BY DEF Wrote, Restart, Forgets
  <1>9. ToldStored'
    <2>1. ASSUME NEW j \in told'
          PROVE  j \in told /\ j.setting \notin lost /\ (j.setting = Switch => Switch \in calm)
      BY SwitchAssumption DEF Restart, Forgets
    <2>2. ASSUME NEW j \in told', j.setting = Switch
          PROVE  stored = {j.on} /\ flag' = j.on
      <3>1. j \in Jobs /\ stored = {j.on} /\ Switch \notin lost
        BY <2>1, <2>2 DEF IInv, TypeOK, ToldStored
      <3>2. Override = j.on
        BY <3>1, <2>2, SwitchEntry, OverrideIsStored
      <3>3. QED
        BY <3>1, <3>2 DEF Restart
    <2>3. ASSUME NEW j \in told', j.setting \in Lists
          PROVE  j.entry \in table[j.setting] <=> j.on
      BY <2>1, <2>3 DEF IInv, ToldStored
    <2>4. QED
      BY <2>2, <2>3 DEF ToldStored, Restart
  <1>10. OnlyItsEntry'
    BY DEF OnlyItsEntry, Restart, Forgets
  <1>11. ToldAtRest'
    BY DEF ToldAtRest, On, Restart, Forgets
  <1>12. QED
    BY <1>1, <1>2, <1>3, <1>4, <1>5, <1>6, <1>7, <1>8, <1>9, <1>10, <1>11 DEF IInv

LEMMA InitOK == Init => IInv
  <1>1. Init => TypeOK
    <2> SUFFICES ASSUME Init PROVE TypeOK
      OBVIOUS
    <2>1. NoJob \in Jobs
      BY DEF NoJob, Jobs
    <2>2. job \in [Handlers -> Jobs]
      BY <2>1 DEF Init
    <2>3. pc \in [Handlers -> Stages] /\ read \in [Handlers -> SUBSET Entries]
      BY DEF Init, Stages
    <2>4. flag \in BOOLEAN /\ free \in BOOLEAN /\ stored \in {{}, {TRUE}, {FALSE}}
      BY DefaultAssumption DEF Init
    <2>5. /\ table \in [Lists -> SUBSET Entries] /\ memory \in [Lists -> SUBSET Entries]
          /\ past \in [Lists -> SUBSET SUBSET Entries]
      BY DEF Init
    <2>6. QED
      BY <2>5, <2>2, <2>3, <2>4 DEF Init, TypeOK
  <1>2. Init => flag = Override
    BY DefaultAssumption DEF Init, Override
  <1>3. QED
    BY <1>1, <1>2 DEF Init, IInv, StagesFit, OneAtATime, HoldsPast, HoldsStored,
       AgreeAtRest, NeverAMixture, Wrote, ToldStored, OnlyItsEntry, ToldAtRest, On

\* Nothing the invariant speaks of changes when discovery runs, or in a stutter.
LEMMA OtherStep ==
    ASSUME IInv, Discover \/ UNCHANGED vars
    PROVE  IInv'
  <1>1. UNCHANGED <<shared, pc, job, read, history>> /\ free' \in BOOLEAN
    BY DEF IInv, TypeOK, Discover, vars
  <1>2. TypeOK'
    BY <1>1 DEF IInv, TypeOK, shared, history
  <1>3. StagesFit' /\ OneAtATime' /\ HoldsPast' /\ HoldsStored'
    BY <1>1 DEF IInv, StagesFit, OneAtATime, HoldsPast, HoldsStored, On, shared, history
  <1>4. AgreeAtRest' /\ NeverAMixture'
    BY <1>1 DEF IInv, AgreeAtRest, NeverAMixture, On, Override, shared, history
  <1>5. Wrote' /\ ToldStored' /\ OnlyItsEntry' /\ ToldAtRest'
    BY <1>1 DEF IInv, Wrote, ToldStored, OnlyItsEntry, ToldAtRest, On, shared, history
  <1>6. QED
    BY <1>2, <1>3, <1>4, <1>5 DEF IInv

LEMMA NextOK == IInv /\ [Next]_vars => IInv'
  <1> SUFFICES ASSUME IInv, [Next]_vars PROVE IInv'
    OBVIOUS
  <1>1. ASSUME NEW h \in Handlers, NEW l \in Lists, NEW e \in Entries, NEW on \in BOOLEAN,
               Write(h, l, e, on)
        PROVE  IInv'
    BY <1>1, WriteStep
  <1>2. ASSUME NEW h \in Handlers,
               ReadBack(h) \/ ReadFails(h) \/ Apply(h) \/ StoreSwitch(h) \/ StoreFails(h)
                 \/ SetFreeOnly(h)
        PROVE  IInv'
    BY <1>2, ReadBackStep, ReadFailsStep, ApplyStep, StoreSwitchStep, StoreFailsStep,
       SetFreeOnlyStep
  <1>3. ASSUME NEW h \in Handlers, NEW on \in BOOLEAN, CheckFree(h, on) PROVE IInv'
    BY <1>3, CheckFreeStep
  <1>4. ASSUME NEW lost \in SUBSET Settings, Restart(lost) PROVE IInv'
    BY <1>4, RestartStep
  <1>5. CASE Discover \/ UNCHANGED vars
    BY <1>5, OtherStep
  <1>6. QED
    BY <1>1, <1>2, <1>3, <1>4, <1>5 DEF Next

\* The strengthened invariant holds in every reachable state.
THEOREM Settled == Spec => []IInv
  <1>1. QED
    BY InitOK, NextOK, PTL DEF Spec

\* Type correctness of the settings, their handlers and the histories.
THEOREM SettingsTyped == Spec => []TypeOK
  <1>1. IInv => TypeOK
    BY DEF IInv
  <1>2. QED
    BY <1>1, Settled, PTL

\* AgreeWhenCalm: where the handlers of a table or of the switch ran one at a
\* time and none failed, memory is what a restart would load.
THEOREM NoDrift == Spec => []AgreeWhenCalm
  <1>1. IInv => AgreeWhenCalm
    BY DEF IInv, AgreeWhenCalm, AgreeAtRest, On, Busy
  <1>2. QED
    BY <1>1, Settled, PTL

\* NeverAMixture: for any number of overlapping handlers, LoadModelTags and
\* LoadBlacklist put in force only lists that were stored at one moment.
THEOREM NoMixture == Spec => []NeverAMixture
  <1>1. IInv => NeverAMixture
    BY DEF IInv
  <1>2. QED
    BY <1>1, Settled, PTL

\* ConfirmedSurvives: a confirmed change that nobody touched is in force, after
\* any number of restarts, while its setting is calm.
THEOREM ConfirmedStays == Spec => []ConfirmedSurvives
  <1>1. ASSUME IInv, NEW j \in told, j.setting \in calm, j.setting = Switch
        PROVE  flag = j.on
    BY <1>1 DEF IInv, ToldStored
  <1>2. ASSUME IInv, NEW j \in told, j.setting \in calm, j.setting # Switch
        PROVE  j.entry \in memory[j.setting] <=> j.on
    <2>1. j.setting \in Lists /\ j.entry \in Entries
      BY <1>2 DEF IInv, TypeOK, Jobs
    <2>2. j.entry \in table[j.setting] <=> j.on
      BY <1>2, <2>1 DEF IInv, ToldStored
    <2>3. CASE \A h \in Handlers : ~On(h, j.setting)
      BY <1>2, <2>1, <2>2, <2>3 DEF IInv, AgreeAtRest
    <2>4. ASSUME NEW h \in Handlers, On(h, j.setting)
          PROVE  j.entry \in memory[j.setting] <=> j.on
      <3>1. job[h].entry # j.entry
        BY <1>2, <2>4 DEF IInv, ToldAtRest
      <3>2. QED
        BY <1>2, <2>1, <2>2, <2>4, <3>1 DEF IInv, OnlyItsEntry
    <2>5. QED
      BY <2>3, <2>4
  <1>3. IInv => ConfirmedSurvives
    BY <1>1, <1>2 DEF ConfirmedSurvives
  <1>4. QED
    BY <1>3, Settled, PTL

(***************************************************************************)
(* IotBridge.  EachItsOwn is not inductive: an answer or a reading is only *)
(* as good as the task it is made from, and a task as the message it took  *)
(* from the inbox.                                                         *)
(***************************************************************************)
Messages == [id : Nat, kind : Kinds, device : Ids, claims : Ids,
             payload : {"garbled", "sound", "blank"}]

Tasks == [pc : {"ingest", "infer", "edge", "cloud", "answer"}, id : Nat,
         origin : Ids, device : Ids, key : Callers \cup {IotKey, NoKey},
         prompt : BOOLEAN, source : {"none", "edge", "cloud"}]

Types ==
    /\ apiKey \in {IotKey, NoKey}
    /\ sent \in Nat
    /\ inbox \in Seq(Messages)
    /\ task \in [Workers -> {Idle} \cup Tasks]

\* The key a worker's requests are made with.
KeyOf(w) == IF w = Callback THEN apiKey ELSE w

\* A task of a named device is taken for that device, and carries its worker's key.
OwnTasks ==
    \A w \in Workers : task[w] # Idle =>
        Owned(task[w].origin, task[w].device) /\ task[w].key = KeyOf(w)

BridgeInv == Types /\ OwnTasks /\ EachItsOwn

\* The bridge starts with nothing received, stored, published or billed.
LEMMA BridgeInitOK == BridgeInit => BridgeInv
BY BridgeAssumption DEF BridgeInit, BridgeInv, Types, OwnTasks, EachItsOwn, Workers, Idle

\* A message devices publish is one of Messages.
LEMMA MessageType ==
    ASSUME NEW kind \in Kinds, sent \in Nat, NEW m \in Message(kind)
    PROVE  m \in Messages /\ m.kind = kind
BY DEF Message, Messages

\* The task a message is made into is the given device's and carries the given
\* key, and says what the topic named.
LEMMA WorkType ==
    ASSUME NEW m \in Messages, NEW device \in Ids, NEW key \in Callers \cup {IotKey, NoKey}
    PROVE  /\ Work(m, device, key) \in Tasks
           /\ Work(m, device, key).origin = m.device
           /\ Work(m, device, key).device = device
           /\ Work(m, device, key).key = key
BY DEF Work, Messages, Tasks, Kinds

\* A worker that is at some step has a task.
LEMMA AtWork ==
    ASSUME Types, NEW w \in Workers, task[w].pc # "idle"
    PROVE  task[w] \in Tasks
BY DEF Types, Idle

\* One worker's task is replaced by one that is its own, or by none.
LEMMA Replaced ==
    ASSUME BridgeInv, NEW w \in Workers, NEW j \in {Idle} \cup Tasks,
           j # Idle => Owned(j.origin, j.device) /\ j.key = KeyOf(w),
           task' = [task EXCEPT ![w] = j], apiKey' = apiKey
    PROVE  task' \in [Workers -> {Idle} \cup Tasks] /\ OwnTasks'
<1>1. task \in [Workers -> {Idle} \cup Tasks]
  BY DEF BridgeInv, Types
<1>2. task' \in [Workers -> {Idle} \cup Tasks]
  BY <1>1
<1>3. \A v \in Workers : task'[v] = IF v = w THEN j ELSE task[v]
  BY <1>1
<1>4. \A v \in Workers : KeyOf(v)' = KeyOf(v)
  BY DEF KeyOf
<1>5. OwnTasks'
  BY <1>3, <1>4 DEF OwnTasks, BridgeInv
<1>6. QED
  BY <1>2, <1>5

\* A task that moves on stays whose it is.
LEMMA MovesOn ==
    ASSUME BridgeInv, NEW w \in Workers, task[w].pc # "idle", apiKey' = apiKey,
           NEW place \in {"ingest", "infer", "edge", "cloud", "answer"},
           NEW source \in {"none", "edge", "cloud"},
           \/ task' = [task EXCEPT ![w].pc = place]
           \/ task' = [task EXCEPT ![w].pc = place, ![w].source = source]
    PROVE  task' \in [Workers -> {Idle} \cup Tasks] /\ OwnTasks'
<1>1. task[w] \in Tasks /\ task[w] # Idle
  BY AtWork DEF BridgeInv, Idle
<1>2. Owned(task[w].origin, task[w].device) /\ task[w].key = KeyOf(w)
  BY <1>1 DEF BridgeInv, OwnTasks
<1>3. PICK j : /\ j = [task[w] EXCEPT !.pc = place] \/ j = [task[w] EXCEPT !.pc = place, !.source = source]
               /\ task' = [task EXCEPT ![w] = j]
  <2>1. task \in [Workers -> {Idle} \cup Tasks]
    BY DEF BridgeInv, Types
  <2>2. CASE task' = [task EXCEPT ![w].pc = place]
    BY <2>1, <2>2
  <2>3. CASE task' = [task EXCEPT ![w].pc = place, ![w].source = source]
    BY <2>1, <2>3
  <2>4. QED
    BY <2>2, <2>3
<1>4. j \in Tasks /\ j.device = task[w].device /\ j.origin = task[w].origin /\ j.key = task[w].key
  BY <1>1, <1>3 DEF Tasks
<1>5. QED
  BY <1>2, <1>3, <1>4, Replaced

\* What was stored, published and billed stays right while it is left alone.
LEMMA Kept ==
    ASSUME EachItsOwn, apiKey' = apiKey, readings' = readings, answers' = answers,
           bills' = bills, devices \subseteq devices', Nameless \notin devices' \ devices
    PROVE  EachItsOwn'
BY DEF EachItsOwn

\* Messages arrive and are lost.
LEMMA InboxSteps ==
    ASSUME BridgeInv, SessionLost \/ Publish \/ PublishAgain
    PROVE  BridgeInv'
<1> USE DEF BridgeInv
<1>1. UNCHANGED <<apiKey, task, devices, readings, answers, bills>>
  BY DEF SessionLost, Publish, PublishAgain, session, tables, results
<1>2. OwnTasks' /\ EachItsOwn'
  BY <1>1 DEF OwnTasks, KeyOf, EachItsOwn
<1>3. inbox' \in Seq(Messages) /\ sent' \in Nat
  <2>1. CASE SessionLost
    BY <2>1 DEF SessionLost, Types
  <2>2. CASE Publish
    <3>0. PICK kind \in Kinds : \E m \in Message(kind) :
            inbox' = IF kind \in subs THEN Append(inbox, m) ELSE inbox
      BY <2>2 DEF Publish
    <3>1. PICK m \in Message(kind) :
            inbox' = IF kind \in subs THEN Append(inbox, m) ELSE inbox
      BY <3>0
    <3>2. m \in Messages
      BY <3>1, MessageType DEF Types
    <3>3. QED
      BY <2>2, <3>1, <3>2 DEF Publish, Types
  <2>3. CASE PublishAgain
    BY <2>3 DEF PublishAgain, Types
  <2>4. QED
    BY <2>1, <2>2, <2>3
<1>4. QED
  BY <1>1, <1>2, <1>3 DEF Types

\* The callback takes a message: its device is the topic's, if that names one.
LEMMA DeliverStep ==
    ASSUME BridgeInv, Deliver
    PROVE  BridgeInv'
<1>1. UNCHANGED <<apiKey, sent, devices, readings, answers, bills>>
  BY DEF Deliver, tables, results, bounds
<1>2. Head(inbox) \in Messages /\ inbox' \in Seq(Messages)
  BY DEF Deliver, BridgeInv, Types
<1>3. PICK j : /\ j = Idle \/ j = Work(Head(inbox), DeviceOf(Head(inbox)), apiKey)
               /\ task' = [task EXCEPT ![Callback] = j]
  BY DEF Deliver
<1>4. apiKey \in Callers \cup {IotKey, NoKey} /\ apiKey = KeyOf(Callback)
  BY DEF BridgeInv, Types, KeyOf
<1>10. /\ DeviceOf(Head(inbox)) \in Ids
       /\ Owned(Head(inbox).device, DeviceOf(Head(inbox)))
  BY <1>2 DEF DeviceOf, Owned, Messages
<1>5. /\ j \in {Idle} \cup Tasks
      /\ j # Idle => Owned(j.origin, j.device) /\ j.key = KeyOf(Callback)
  BY <1>2, <1>3, <1>4, <1>10, WorkType
<1>6. Callback \in Workers
  BY DEF Workers
<1>7. task' \in [Workers -> {Idle} \cup Tasks] /\ OwnTasks'
  BY <1>1, <1>3, <1>5, <1>6, Replaced
<1>8. EachItsOwn'
  BY <1>1, Kept DEF BridgeInv
<1>9. QED
  BY <1>1, <1>2, <1>7, <1>8 DEF BridgeInv, Types

\* An HTTP request names its own device and carries its caller's key.
LEMMA HandleHTTPStep ==
    ASSUME BridgeInv, NEW w \in Workers, HandleHTTP(w)
    PROVE  BridgeInv'
<1>1. UNCHANGED <<apiKey, inbox, devices, readings, answers, bills>>
  BY DEF HandleHTTP, tables, results
<1>0. PICK kind \in Kinds : \E m \in Message(kind) :
        m.claims = m.device /\ task' = [task EXCEPT ![w] = Work(m, m.claims, w)]
  BY DEF HandleHTTP
<1>2. PICK m \in Message(kind) :
        m.claims = m.device /\ task' = [task EXCEPT ![w] = Work(m, m.claims, w)]
  BY <1>0
<1>3. m \in Messages /\ sent' \in Nat
  BY <1>2, MessageType DEF BridgeInv, Types, HandleHTTP
<1>4. w \in Callers /\ w = KeyOf(w)
  BY BridgeAssumption DEF HandleHTTP, KeyOf, Callback
<1> DEFINE j == Work(m, m.device, w)
<1>6. j \in Tasks /\ Owned(j.origin, j.device) /\ j.key = KeyOf(w)
  BY <1>3, <1>4, WorkType DEF Messages, Owned
<1>7. task' = [task EXCEPT ![w] = j]
  BY <1>2
<1>8. task' \in [Workers -> {Idle} \cup Tasks] /\ OwnTasks'
  <2> HIDE DEF j
  <2> QED BY <1>1, <1>6, <1>7, Replaced
<1>9. EachItsOwn'
  BY <1>1, Kept DEF BridgeInv
<1>10. QED
  BY <1>1, <1>3, <1>8, <1>9 DEF BridgeInv, Types

\* A worker is done: it has no task.
LEMMA Returns ==
    ASSUME BridgeInv, NEW w \in Workers, Return(w), apiKey' = apiKey
    PROVE  task' \in [Workers -> {Idle} \cup Tasks] /\ OwnTasks'
BY Replaced DEF Return

\* A reading and the device it is stored under are written together.
LEMMA IngestStep ==
    ASSUME BridgeInv, NEW w \in Workers, IngestTelemetry(w)
    PROVE  BridgeInv'
<1>1. UNCHANGED <<apiKey, sent, inbox, answers, bills>>
  BY DEF IngestTelemetry, results, bounds
<1>2. task' \in [Workers -> {Idle} \cup Tasks] /\ OwnTasks'
  BY <1>1, Returns DEF IngestTelemetry
<1>3. task[w] # Idle
  BY DEF IngestTelemetry, Idle
<1>4. Owned(task[w].origin, task[w].device)
  BY <1>3 DEF BridgeInv, OwnTasks
<1>5. EachItsOwn'
  <2>1. CASE UNCHANGED tables
    BY <1>1, <2>1, Kept DEF BridgeInv, tables
  <2>2. CASE /\ task[w].device # Nameless
             /\ devices' = devices \cup {task[w].device}
             /\ readings' = readings \cup {[id |-> task[w].id, of |-> task[w].device,
                                            origin |-> task[w].origin]}
    BY <1>1, <1>4, <2>2 DEF BridgeInv, EachItsOwn
  <2>3. QED
    BY <2>1, <2>2 DEF IngestTelemetry
<1>6. QED
  BY <1>1, <1>2, <1>5 DEF BridgeInv, Types

\* Inference begins, and is tried on the edge.
LEMMA InferSteps ==
    ASSUME BridgeInv, NEW w \in Workers, Infer(w) \/ EdgeInference(w)
    PROVE  BridgeInv'
<1>1. /\ UNCHANGED <<apiKey, sent, inbox, readings, answers, bills>>
      /\ devices \subseteq devices' /\ Nameless \notin devices' \ devices
  BY DEF Infer, EdgeInference, tables, results, bounds
<1>2. task[w].pc # "idle"
  BY DEF Infer, EdgeInference
<1>3. \E place \in {"edge", "cloud", "answer"} :
        \/ task' = [task EXCEPT ![w].pc = place]
        \/ task' = [task EXCEPT ![w].pc = place, ![w].source = "edge"]
  BY DEF Infer, EdgeInference, Goto
<1>4. task' \in [Workers -> {Idle} \cup Tasks] /\ OwnTasks'
  BY <1>1, <1>2, <1>3, MovesOn
<1>5. EachItsOwn'
  BY <1>1, Kept DEF BridgeInv
<1>6. QED
  BY <1>1, <1>4, <1>5 DEF BridgeInv, Types

\* The gateway bills the key of the task.
LEMMA CompleteStep ==
    ASSUME BridgeInv, NEW w \in Workers, Complete(w)
    PROVE  BridgeInv'
<1>1. UNCHANGED <<apiKey, sent, inbox, devices, readings, answers>>
  BY DEF Complete, tables, bounds
<1>2. task[w].pc # "idle" /\ task[w] # Idle
  BY DEF Complete, Idle
<1>3. task' = [task EXCEPT ![w].pc = "answer"]
        \/ task' = [task EXCEPT ![w].pc = "answer", ![w].source = "cloud"]
  BY DEF Complete, Goto
<1>4. task' \in [Workers -> {Idle} \cup Tasks] /\ OwnTasks'
  BY <1>1, <1>2, <1>3, MovesOn
<1>5. BilledTo(w) = KeyOf(w)
  BY <1>2, BridgeAssumption DEF BilledTo, KeyOf, BridgeInv, OwnTasks, Types, Workers
<1>6. bills' = bills \cup {[to |-> KeyOf(w), by |-> w]}
  BY <1>5 DEF Complete
<1>7. EachItsOwn'
  BY <1>1, <1>6 DEF BridgeInv, EachItsOwn, KeyOf
<1>8. QED
  BY <1>1, <1>4, <1>7 DEF BridgeInv, Types

\* The answer goes to the device the task is taken for.
LEMMA PublishResponseStep ==
    ASSUME BridgeInv, PublishResponse
    PROVE  BridgeInv'
<1>1. UNCHANGED <<apiKey, sent, inbox, devices, readings, bills>>
  BY DEF PublishResponse, tables, bounds
<1>2. Callback \in Workers /\ task[Callback] # Idle
  BY DEF PublishResponse, Idle, Workers
<1>3. task' \in [Workers -> {Idle} \cup Tasks] /\ OwnTasks'
  BY <1>1, <1>2, Returns DEF PublishResponse
<1>4. Owned(task[Callback].origin, task[Callback].device)
  BY <1>2 DEF BridgeInv, OwnTasks
<1>5. answers' = answers
        \/ answers' = answers \cup {[id |-> task[Callback].id, to |-> task[Callback].device,
                                     origin |-> task[Callback].origin]}
  BY DEF PublishResponse
<1>6. EachItsOwn'
  BY <1>1, <1>4, <1>5 DEF BridgeInv, EachItsOwn
<1>7. QED
  BY <1>1, <1>3, <1>6 DEF BridgeInv, Types

\* The session comes and goes, and an HTTP request is answered.
LEMMA OtherSteps ==
    ASSUME BridgeInv,
           \/ Subscribe \/ Reconnect \/ UNCHANGED bridgeVars
           \/ \E w \in Workers : RespondHTTP(w)
    PROVE  BridgeInv'
<1>1. UNCHANGED <<apiKey, sent, inbox, devices, readings, answers, bills>>
  BY DEF Subscribe, Reconnect, RespondHTTP, bridgeVars, tables, results, bounds
<1>2. EachItsOwn'
  BY <1>1, Kept DEF BridgeInv
<1>3. CASE task' = task
  <2>1. OwnTasks'
    BY <1>1, <1>3 DEF BridgeInv, OwnTasks, KeyOf
  <2>2. QED
    BY <1>1, <1>2, <1>3, <2>1 DEF BridgeInv, Types
<1>4. CASE \E w \in Workers : RespondHTTP(w)
  <2>1. PICK w \in Workers : Return(w)
    BY <1>4 DEF RespondHTTP
  <2>2. task' \in [Workers -> {Idle} \cup Tasks] /\ OwnTasks'
    BY <1>1, <2>1, Returns
  <2>3. QED
    BY <1>1, <1>2, <2>2 DEF BridgeInv, Types
<1>5. QED
  BY <1>3, <1>4 DEF Subscribe, Reconnect, bridgeVars

\* Every step keeps the invariant.
LEMMA BridgeStepOK == BridgeInv /\ [BridgeNext]_bridgeVars => BridgeInv'
<1> SUFFICES ASSUME BridgeInv, [BridgeNext]_bridgeVars PROVE BridgeInv'
  OBVIOUS
<1>1. CASE SessionLost \/ Publish \/ PublishAgain
  BY <1>1, InboxSteps
<1>2. CASE Deliver
  BY <1>2, DeliverStep
<1>3. CASE PublishResponse
  BY <1>3, PublishResponseStep
<1>4. ASSUME NEW w \in Workers,
             \/ HandleHTTP(w) \/ IngestTelemetry(w) \/ Infer(w)
             \/ EdgeInference(w) \/ Complete(w)
      PROVE  BridgeInv'
  BY <1>4, HandleHTTPStep, IngestStep, InferSteps, CompleteStep
<1>5. CASE Subscribe \/ Reconnect \/ UNCHANGED bridgeVars \/ \E w \in Workers : RespondHTTP(w)
  BY <1>5, OtherSteps
<1>6. QED
  BY <1>1, <1>2, <1>3, <1>4, <1>5 DEF BridgeNext

\* Whatever payloads claim, every answer to a device that its topic names goes to
\* that device, every reading of one is stored under it, no device is known by an
\* empty id, and every bill goes to the key of whoever made the request
\* (HandleMQTTMessage, SaveTelemetry, InferAs), for any number of devices, callers
\* and messages.
THEOREM TrafficStaysOwn == BridgeSpec => []EachItsOwn
<1>1. BridgeInit => BridgeInv
  BY BridgeInitOK
<1>2. BridgeInv /\ [BridgeNext]_bridgeVars => BridgeInv'
  BY BridgeStepOK
<1>3. BridgeInv => EachItsOwn
  BY DEF BridgeInv
<1>4. QED
  BY <1>1, <1>2, <1>3, PTL DEF BridgeSpec
==============================================================================
