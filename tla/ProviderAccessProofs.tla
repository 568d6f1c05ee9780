------------------------ MODULE ProviderAccessProofs ------------------------
(***************************************************************************)
(* Proofs about ProviderAccess, for every set of models and goroutines and *)
(* every bound on keys and operations.                                     *)
(***************************************************************************)
EXTENDS ProviderAccess, TLAPS

-----------------------------------------------------------------------------
\* Types.

LocalsOK ==
    /\ pc \in [Procs -> Stages] /\ op \in [Procs -> Ops]
    /\ mine \in [Procs -> Keys] /\ list \in [Procs -> SUBSET Models]
    /\ found \in [Procs -> SUBSET (Models \X BOOLEAN)]

\* A goroutine that ends, or moves to another stage, leaves its locals typed.
LEMMA EndsTyped ==
    ASSUME TypeOK, NEW p \in Procs, Ends(p)
    PROVE  LocalsOK'
  <1>1. 0 \in Keys
    BY BoundsAssumption DEF Keys
  <1> QED BY <1>1 DEF Ends, TypeOK, LocalsOK, Stages, Ops

LEMMA GoesTyped ==
    ASSUME TypeOK, NEW p \in Procs, NEW stage \in Stages, Goes(p, stage)
    PROVE  LocalsOK'
  BY DEF Goes, TypeOK, LocalsOK

LEMMA SettlesTyped ==
    ASSUME TypeOK, NEW p \in Procs, Settles(p)
    PROVE  LocalsOK'
  <1>1. CASE op[p] = "set"
    <2>1. Goes(p, "clear") /\ "clear" \in Stages
      BY <1>1 DEF Settles, Stages
    <2> QED BY <2>1, GoesTyped
  <1>2. CASE op[p] # "set"
    <2>1. Ends(p)
      BY <1>2 DEF Settles
    <2> QED BY <2>1, EndsTyped
  <1> QED BY <1>1, <1>2

\* What is kept of the history has its type.
LEMMA RememberedTyped ==
    ASSUME TypeOK
    PROVE  Remembered \in [{"probe", "bench"} -> [Models -> Keys]]
  <1>1. 0 \in Keys
    BY BoundsAssumption DEF Keys
  <1> QED BY <1>1 DEF Remembered, Nobody, TypeOK

LEMMA BeginsTyped ==
    ASSUME TypeOK, NEW p \in Procs, NEW o \in Ops, NEW k \in Keys,
           NEW l \in SUBSET Models, NEW stage \in Stages, Begins(p, o, k, l, stage)
    PROVE  /\ LocalsOK' /\ calm' \in BOOLEAN /\ answered' = answered
           /\ under' \in [{"probe", "bench"} -> [Models -> Keys]] /\ overtaken' = overtaken
  BY RememberedTyped DEF Begins, TypeOK, LocalsOK

LEMMA RecordedTyped ==
    ASSUME TypeOK, NEW p \in Procs, Recorded(p)
    PROVE  LocalsOK'
  <1>1. CASE op[p] = "cut"
    <2>1. Ends(p)
      BY <1>1 DEF Recorded
    <2> QED BY <2>1, EndsTyped
  <1>2. CASE op[p] # "cut"
    BY <1>2 DEF Recorded, TypeOK, LocalsOK, Stages
  <1> QED BY <1>1, <1>2

LEMMA SpendsTyped == TypeOK /\ Spends => left' \in 0..Starts
  BY BoundsAssumption DEF TypeOK, Spends

LEMMA DueTyped ==
    ASSUME TypeOK, NEW p \in Procs, NEW what \in {"probe", "bench"}, NEW models
    PROVE  Due(p, what, models) \in [{"probe", "bench"} -> [Models -> Keys]]
  <1>1. [m \in Models |-> IF m \in models THEN mine[p] ELSE under[what][m]]
            \in [Models -> Keys]
    BY DEF TypeOK
  <1> QED BY <1>1 DEF Due, TypeOK

\* What is sidelined for a model are models.
LEMMA SidelinedTyped ==
    ASSUME TypeOK, NEW m \in Models, NEW out \in Sidelined(m)
    PROVE  out \subseteq Models
  BY DEF Sidelined, TypeOK

LEMMA InitTypeOK == Init => TypeOK
  <1> SUFFICES ASSUME Init PROVE TypeOK
    OBVIOUS
  <1>1. 0 \in Keys /\ Starts \in 0..Starts
    BY BoundsAssumption DEF Keys
  <1>2. PICK kept \in {{}, Kept} :
          /\ key = IF kept = {} THEN 0 ELSE 1
          /\ presented = key /\ listed = kept /\ rows = kept /\ answered = kept
    BY DEF Init
  <1>3. key \in Keys /\ kept \subseteq Models
    BY <1>2, BoundsAssumption DEF Keys
  <1> QED BY <1>1, <1>2, <1>3 DEF Init, TypeOK, Nobody, Stages, Ops

\* Every step of an operation under way keeps the types.
LEMMA MovesTyped == ASSUME TypeOK, NEW p \in Procs, Moves(p) PROVE TypeOK'
  <1> USE DEF outside
  <1>1. CASE Store(p)
    <2>1. LocalsOK'
      <3>1. Goes(p, "set") \/ Goes(p, "reread")
        BY <1>1 DEF Store
      <3>2. "set" \in Stages /\ "reread" \in Stages
        BY DEF Stages
      <3> QED BY <3>1, <3>2, GoesTyped
    <2>2. key' \in Keys
      BY <1>1 DEF Store, TypeOK
    <2>3. overtaken' \subseteq Procs
      BY <1>1 DEF Store, TypeOK
    <2> QED BY <1>1, <2>1, <2>2, <2>3 DEF Store, TypeOK, LocalsOK, memory, bounds
  <1>2. CASE Reread(p)
    <2>1. LocalsOK'
      BY <1>2 DEF Reread, TypeOK, LocalsOK, Stages
    <2> QED BY <1>2, <2>1 DEF Reread, TypeOK, LocalsOK, memory, tables, bounds, history
  <1>15. CASE ForgetDiscovered(p)
    <2>1. LocalsOK'
      <3>1. Goes(p, "forget rows") /\ "forget rows" \in Stages
        BY <1>15 DEF ForgetDiscovered, Stages
      <3> QED BY <3>1, GoesTyped
    <2> QED BY <1>15, <2>1 DEF ForgetDiscovered, TypeOK, LocalsOK, tables, bounds, history
  <1>3. CASE ForgetRows(p)
    <2>1. LocalsOK'
      <3>1. Goes(p, "drop probes") /\ "drop probes" \in Stages
        BY <1>3 DEF ForgetRows, Stages
      <3> QED BY <3>1, GoesTyped
    <2> QED BY <1>3, <2>1 DEF ForgetRows, TypeOK, LocalsOK, memory, bounds, history
  <1>4. CASE DropProbes(p)
    <2>1. LocalsOK'
      BY <1>4, SettlesTyped DEF DropProbes
    <2> QED BY <1>4, <2>1 DEF DropProbes, TypeOK, LocalsOK, memory, bounds
  <1>5. CASE ClearBench(p)
    <2>1. LocalsOK'
      <3>1. Goes(p, "forget probes") /\ "forget probes" \in Stages
        BY <1>5 DEF ClearBench, Stages
      <3> QED BY <3>1, GoesTyped
    <2> QED BY <1>5, <2>1 DEF ClearBench, TypeOK, LocalsOK, tables, bounds, history
  <1>6. CASE ForgetProbes(p)
    <2>1. LocalsOK'
      BY <1>6, EndsTyped DEF ForgetProbes
    <2> QED BY <1>6, <2>1 DEF ForgetProbes, TypeOK, LocalsOK, memory, bounds, history
  <1>7. ASSUME NEW models \in SUBSET Models, Ask(p, models) PROVE TypeOK'
    <2>1. LocalsOK'
      <3>1. CASE models = {}
        BY <1>7, <3>1, SettlesTyped DEF Ask
      <3>2. CASE models # {}
        BY <1>7, <3>2 DEF Ask, TypeOK, LocalsOK, Stages
      <3> QED BY <3>1, <3>2
    <2> QED BY <1>7, <2>1 DEF Ask, TypeOK, LocalsOK, memory, tables, bounds, history
  <1>8. CASE SetDiscovered(p)
    <2>1. LocalsOK'
      <3>1. Goes(p, "save") /\ "save" \in Stages
        BY <1>8 DEF SetDiscovered, Stages
      <3> QED BY <3>1, GoesTyped
    <2>2. listed' \subseteq Models
      BY <1>8 DEF SetDiscovered, TypeOK
    <2> QED BY <1>8, <2>1, <2>2 DEF SetDiscovered, TypeOK, LocalsOK, tables, bounds, history
  <1>9. CASE Save(p)
    <2>1. LocalsOK'
      BY <1>9, SettlesTyped DEF Save
    <2>2. rows' \subseteq Models
      BY <1>9 DEF Save, TypeOK
    <2> QED BY <1>9, <2>1, <2>2 DEF Save, TypeOK, LocalsOK, memory, bounds, history
  <1>16. ASSUME NEW targets \in SUBSET Models, Aim(p, targets) PROVE TypeOK'
    <2>1. LocalsOK'
      <3>1. CASE Ends(p)
        BY <3>1, EndsTyped
      <3>2. CASE Goes(p, "read")
        BY <3>2, GoesTyped DEF Stages
      <3>3. CASE /\ pc'   = [pc EXCEPT ![p] = "probe"]
                 /\ list' = [list EXCEPT ![p] = targets]
                 /\ UNCHANGED <<op, mine, found>>
        BY <3>3 DEF TypeOK, LocalsOK, Stages
      <3> QED BY <1>16, <3>1, <3>2, <3>3 DEF Aim
    <2> QED BY <1>16, <2>1 DEF Aim, TypeOK, LocalsOK, memory, tables, bounds, history
  <1>10. ASSUME NEW m \in Models, NEW out \in Sidelined(m), Probe(p, m, out) PROVE TypeOK'
    <2>1. LocalsOK'
      <3>1. <<m, m \in up>> \in Models \X BOOLEAN
        <4>1. <<m, TRUE>> \in Models \X BOOLEAN /\ <<m, FALSE>> \in Models \X BOOLEAN
          OBVIOUS
        <4>2. (m \in up) = TRUE \/ (m \in up) = FALSE
          OBVIOUS
        <4> QED BY ONLY <4>1, <4>2, Zenon
      <3>2. found' \in [Procs -> SUBSET (Models \X BOOLEAN)]
        BY <1>10, <3>1 DEF Probe, TypeOK
      <3> QED BY <1>10, <3>2 DEF Probe, TypeOK, LocalsOK, Stages
    <2>2. out \subseteq Models
      BY SidelinedTyped
    <2>3. bench' \subseteq Models /\ answered' \subseteq Models
      BY <1>10, <2>2 DEF Probe, TypeOK
    <2>4. under' \in [{"probe", "bench"} -> [Models -> Keys]]
      BY <1>10, DueTyped DEF Probe, TypeOK
    <2> QED BY <1>10, <2>1, <2>3, <2>4 DEF Probe, TypeOK, LocalsOK, tables, bounds
  <1>11. CASE Record(p)
    <2>1. LocalsOK'
      BY <1>11, RecordedTyped DEF Record
    <2>2. PICK f \in found[p] :
            /\ probes' = [probes EXCEPT ![f[1]] = IF f[2] THEN "ok" ELSE "refused"]
            /\ under'  = Due(p, "probe", {f[1]})
      BY <1>11 DEF Record
    <2>3. f[1] \in Models
      BY <2>2 DEF TypeOK
    <2>4. probes' \in [Models -> {"none", "ok", "refused", "old"}]
      BY <2>2, <2>3 DEF TypeOK
    <2>5. under' \in [{"probe", "bench"} -> [Models -> Keys]]
      BY <2>2, DueTyped
    <2> QED BY <1>11, <2>1, <2>4, <2>5 DEF Record, TypeOK, LocalsOK, memory, bounds
  <1>12. CASE ReadProbes(p)
    <2>1. LocalsOK'
      BY <1>12 DEF ReadProbes, TypeOK, LocalsOK, Stages
    <2> QED BY <1>12, <2>1 DEF ReadProbes, TypeOK, LocalsOK, memory, tables, bounds, history
  <1>13. CASE SetConfirmed(p)
    <2>1. LocalsOK'
      BY <1>13, EndsTyped DEF SetConfirmed
    <2>2. confirmed' \subseteq Models
      BY <1>13 DEF SetConfirmed, TypeOK
    <2> QED BY <1>13, <2>1, <2>2 DEF SetConfirmed, TypeOK, LocalsOK, tables, bounds, history
  <1>14. ASSUME NEW m \in Models, NEW out \in Sidelined(m), CallEnds(p, m, out) PROVE TypeOK'
    <2>1. LocalsOK'
      BY <1>14, EndsTyped DEF CallEnds
    <2>2. out \subseteq Models
      BY SidelinedTyped
    <2>3. bench' \subseteq Models
      BY <1>14, <2>2 DEF CallEnds, TypeOK
    <2>4. under' \in [{"probe", "bench"} -> [Models -> Keys]]
      BY <1>14, DueTyped DEF CallEnds, TypeOK
    <2> QED BY <1>14, <2>1, <2>3, <2>4 DEF CallEnds, TypeOK, LocalsOK, tables, bounds
  <1> QED BY <1>1, <1>2, <1>3, <1>4, <1>5, <1>6, <1>7, <1>8, <1>9, <1>10, <1>11,
             <1>12, <1>13, <1>14, <1>15, <1>16 DEF Moves

\* So does every beginning of one.
LEMMA StartTyped ==
    ASSUME TypeOK, NEW p \in Procs, Starting(p) \/ StartSweep(p)
    PROVE  TypeOK'
  <1> USE DEF outside
  <1>0. /\ {"set", "delete", "refresh", "call", "sweep"} \subseteq Ops
        /\ {"store", "reread", "ask", "call", "aim"} \subseteq Stages
        /\ 0 \in Keys /\ key \in Keys /\ {} \in SUBSET Models
    <2>1. 0 \in Keys
      BY BoundsAssumption DEF Keys
    <2>2. key \in Keys
      BY DEF TypeOK
    <2> QED BY <2>1, <2>2 DEF Ops, Stages
  <1>1. ASSUME NEW models \in SUBSET Models, SetKey(p, models) PROVE TypeOK'
    <2>1. presented + 1 \in Keys /\ presented' \in Keys /\ left' \in 0..Starts
      BY <1>1, SpendsTyped, BoundsAssumption DEF SetKey, TypeOK, Keys
    <2>2. /\ LocalsOK' /\ calm' \in BOOLEAN /\ answered' = answered
          /\ under' \in [{"probe", "bench"} -> [Models -> Keys]] /\ overtaken' = overtaken
      BY <1>0, <1>1, <2>1, BeginsTyped DEF SetKey
    <2> QED BY <1>1, <2>1, <2>2 DEF SetKey, TypeOK, LocalsOK, memory, tables
  <1>2. CASE DeleteKey(p)
    <2>1. left' \in 0..Starts
      BY <1>2, SpendsTyped DEF DeleteKey
    <2>2. /\ LocalsOK' /\ calm' \in BOOLEAN /\ answered' = answered
          /\ under' \in [{"probe", "bench"} -> [Models -> Keys]] /\ overtaken' = overtaken
      BY <1>0, <1>2, BeginsTyped DEF DeleteKey
    <2> QED BY <1>0, <1>2, <2>1, <2>2 DEF DeleteKey, TypeOK, LocalsOK, memory
  <1>3. CASE Refresh(p)
    <2>1. left' \in 0..Starts
      BY <1>3, SpendsTyped DEF Refresh
    <2>2. /\ LocalsOK' /\ calm' \in BOOLEAN /\ answered' = answered
          /\ under' \in [{"probe", "bench"} -> [Models -> Keys]] /\ overtaken' = overtaken
      BY <1>0, <1>3, BeginsTyped DEF Refresh
    <2> QED BY <1>3, <2>1, <2>2 DEF Refresh, TypeOK, LocalsOK, memory, tables
  <1>4. CASE Call(p)
    <2>1. left' \in 0..Starts
      BY <1>4, SpendsTyped DEF Call
    <2>2. /\ LocalsOK' /\ calm' \in BOOLEAN /\ answered' = answered
          /\ under' \in [{"probe", "bench"} -> [Models -> Keys]] /\ overtaken' = overtaken
      BY <1>0, <1>4, BeginsTyped DEF Call
    <2> QED BY <1>4, <2>1, <2>2 DEF Call, TypeOK, LocalsOK, memory, tables
  <1>5. CASE StartSweep(p)
    <2>1. left' \in 0..Starts
      BY <1>5, SpendsTyped DEF StartSweep, TypeOK
    <2>2. /\ LocalsOK' /\ calm' \in BOOLEAN /\ answered' = answered
          /\ under' \in [{"probe", "bench"} -> [Models -> Keys]] /\ overtaken' = overtaken
      BY <1>0, <1>5, BeginsTyped DEF StartSweep
    <2> QED BY <1>5, <2>1, <2>2 DEF StartSweep, TypeOK, LocalsOK, memory, tables
  <1> QED BY <1>1, <1>2, <1>3, <1>4, <1>5 DEF Starting

\* And so do failures, an operator leaving, time and restarts.
LEMMA SurroundingsTyped ==
    ASSUME TypeOK,
           \/ \E p \in Procs : Fails(p) \/ CutShort(p)
           \/ \E m \in Models : Change(m) \/ Lapses(m) \/ Ages(m)
           \/ Switch
           \/ \E lost \in SUBSET {"lists", "probes"} : Restart(lost)
    PROVE  TypeOK'
  <1> USE DEF outside
  <1>1. ASSUME NEW p \in Procs, Fails(p) PROVE TypeOK'
    <2>1. LocalsOK'
      <3>1. Ends(p) \/ Goes(p, "drop probes") \/ Settles(p) \/ Recorded(p)
        BY <1>1 DEF Fails
      <3>2. "drop probes" \in Stages
        BY DEF Stages
      <3> QED BY <3>1, <3>2, EndsTyped, GoesTyped, SettlesTyped, RecordedTyped
    <2>2. left' \in 0..Starts
      BY <1>1, SpendsTyped DEF Fails
    <2>3. overtaken' \subseteq Procs
      BY <1>1 DEF Fails, TypeOK
    <2> QED BY <1>1, <2>1, <2>2, <2>3, RememberedTyped DEF Fails, TypeOK, LocalsOK, memory, tables
  <1>2. ASSUME NEW p \in Procs, CutShort(p) PROVE TypeOK'
    <2>1. LocalsOK'
      <3>1. CASE Ends(p)
        BY <3>1, EndsTyped
      <3>2. ASSUME NEW m \in list[p],
                   found' = [found EXCEPT ![p] = {<<m, FALSE>>}],
                   list'  = [list EXCEPT ![p] = {}],
                   op'    = [op EXCEPT ![p] = "cut"],
                   pc'    = [pc EXCEPT ![p] = "record"],
                   mine' = mine
            PROVE  LocalsOK'
        <4>1. m \in Models
          BY DEF TypeOK
        <4>3. {<<m, FALSE>>} \in SUBSET (Models \X BOOLEAN)
          <5>1. <<m, FALSE>> \in Models \X BOOLEAN
            BY <4>1
          <5> QED BY <5>1, Zenon
        <4>2. found' \in [Procs -> SUBSET (Models \X BOOLEAN)]
          BY <3>2, <4>3 DEF TypeOK
        <4> QED BY <3>2, <4>2 DEF TypeOK, LocalsOK, Stages, Ops
      <3> QED BY <1>2, <3>1, <3>2 DEF CutShort
    <2>2. left' \in 0..Starts
      BY <1>2, SpendsTyped DEF CutShort
    <2> QED BY <1>2, <2>1, <2>2, RememberedTyped DEF CutShort, TypeOK, LocalsOK, memory, tables
  <1>3. ASSUME NEW m \in Models, Change(m) \/ Lapses(m) PROVE TypeOK'
    BY <1>3 DEF Change, Lapses, TypeOK, memory, tables, locals, bounds, history
  <1>6. CASE Switch
    BY <1>6 DEF Switch, TypeOK, memory, tables, locals, bounds, history
  <1>4. ASSUME NEW m \in Models, Ages(m) PROVE TypeOK'
    BY <1>4 DEF Ages, TypeOK, memory, locals, bounds, history
  <1>5. ASSUME NEW lost \in SUBSET {"lists", "probes"}, Restart(lost) PROVE TypeOK'
    <2>1. LocalsOK'
      <3>1. 0 \in Keys
        BY BoundsAssumption DEF Keys
      <3> QED BY <1>5, <3>1 DEF Restart, LocalsOK, Stages, Ops
    <2>2. left' \in 0..Starts
      BY <1>5, SpendsTyped DEF Restart
    <2>3. listed' \subseteq Models /\ confirmed' \subseteq Models /\ bench' \subseteq Models
      BY <1>5 DEF Restart, TypeOK
    <2>4. calm' \in BOOLEAN
      BY <1>5 DEF Restart, TypeOK
    <2> QED BY <1>5, <2>1, <2>2, <2>3, <2>4, RememberedTyped DEF Restart, TypeOK, LocalsOK, tables
  <1> QED BY <1>1, <1>2, <1>3, <1>4, <1>5, <1>6

\* Every variable keeps its type, however the operations overlap.
THEOREM TypeCorrect == Spec => []TypeOK
  <1>1. TypeOK /\ [Next]_vars => TypeOK'
    <2> SUFFICES ASSUME TypeOK, [Next]_vars PROVE TypeOK'
      OBVIOUS
    <2>1. CASE UNCHANGED vars
      BY <2>1 DEF vars, memory, tables, outside, locals, bounds, history, TypeOK
    <2> QED BY <2>1, MovesTyped, StartTyped, SurroundingsTyped DEF Next
  <1> QED BY InitTypeOK, <1>1, PTL DEF Spec

-----------------------------------------------------------------------------
\* Evidence.

(***************************************************************************)
(* Where a confirmation comes from: a success in the table, in a result    *)
(* yet to be recorded or in a list read back is one of a model that has    *)
(* answered.                                                               *)
(***************************************************************************)
Evidence ==
    /\ \A m \in Models : probes[m] = "ok" => m \in answered
    /\ \A p \in Procs : \A f \in found[p] : f[2] => f[1] \in answered
    /\ \A p \in Procs : pc[p] = "apply" => list[p] \subseteq answered
    /\ confirmed \subseteq answered

\* A step by which one goroutine moves without coming to hold a result or a
\* list read back, and the tables gain no success, keeps the evidence.
LEMMA EvidenceKept ==
    ASSUME TypeOK, Evidence, NEW p \in Procs,
           answered \subseteq answered',
           \A m \in Models : probes'[m] = "ok" => probes[m] = "ok",
           confirmed' = confirmed,
           \A q \in Procs : found'[q] \subseteq found[q],
           pc'[p] # "apply",
           \A q \in Procs \ {p} : pc'[q] = pc[q] /\ list'[q] = list[q]
    PROVE  Evidence'
  <1>1. \A m \in Models : probes'[m] = "ok" => m \in answered'
    BY DEF Evidence
  <1>2. \A q \in Procs : \A f \in found'[q] : f[2] => f[1] \in answered'
    BY DEF Evidence
  <1>3. \A q \in Procs : pc'[q] = "apply" => list'[q] \subseteq answered'
    BY DEF Evidence
  <1>4. confirmed' \subseteq answered'
    BY DEF Evidence
  <1> QED BY <1>1, <1>2, <1>3, <1>4 DEF Evidence

\* How the common moves of a goroutine look to the others.
LEMMA LocalMoves ==
    ASSUME TypeOK, NEW p \in Procs,
           \/ Ends(p) \/ Settles(p) \/ Recorded(p)
           \/ \E stage \in Stages \ {"apply"} : Goes(p, stage)
           \/ \E o, k, l : \E stage \in Stages \ {"apply"} : Begins(p, o, k, l, stage)
    PROVE  /\ \A q \in Procs : found'[q] \subseteq found[q]
           /\ pc'[p] # "apply"
           /\ \A q \in Procs \ {p} : pc'[q] = pc[q] /\ list'[q] = list[q]
  <1>1. CASE Ends(p)
    BY <1>1 DEF Ends, TypeOK
  <1>2. ASSUME NEW stage \in Stages \ {"apply"}, Goes(p, stage)
        PROVE  /\ \A q \in Procs : found'[q] \subseteq found[q]
               /\ pc'[p] # "apply"
               /\ \A q \in Procs \ {p} : pc'[q] = pc[q] /\ list'[q] = list[q]
    BY <1>2 DEF Goes, TypeOK
  <1>3. CASE Settles(p)
    BY <1>1, <1>2, <1>3 DEF Settles, Stages
  <1>4. CASE Recorded(p)
    BY <1>1, <1>4 DEF Recorded, TypeOK
  <1>5. ASSUME NEW o, NEW k, NEW l, NEW stage \in Stages \ {"apply"}, Begins(p, o, k, l, stage)
        PROVE  /\ \A q \in Procs : found'[q] \subseteq found[q]
               /\ pc'[p] # "apply"
               /\ \A q \in Procs \ {p} : pc'[q] = pc[q] /\ list'[q] = list[q]
    BY <1>5 DEF Begins, TypeOK
  <1> QED BY <1>1, <1>2, <1>3, <1>4, <1>5

\* Every step keeps the evidence.
LEMMA NextEvidence == TypeOK /\ Evidence /\ [Next]_vars => Evidence'
  <1> SUFFICES ASSUME TypeOK, Evidence, [Next]_vars PROVE Evidence'
    OBVIOUS
  <1>0. {"set", "reread", "ask", "drop probes", "clear", "forget probes", "save",
         "store", "forget rows", "aim", "probe", "read", "call"} \subseteq Stages \ {"apply"}
    BY DEF Stages
  <1>1. ASSUME NEW p \in Procs,
               \/ Store(p) \/ ForgetDiscovered(p) \/ ForgetRows(p) \/ DropProbes(p)
               \/ ClearBench(p) \/ ForgetProbes(p) \/ SetDiscovered(p) \/ Save(p) \/ Fails(p)
               \/ Starting(p) \/ StartSweep(p)
               \/ \E m \in Models : \E out \in Sidelined(m) : CallEnds(p, m, out)
        PROVE  Evidence'
    <2>1. \/ Ends(p) \/ Settles(p) \/ Recorded(p)
          \/ \E stage \in Stages \ {"apply"} : Goes(p, stage)
          \/ \E o, k, l : \E stage \in Stages \ {"apply"} : Begins(p, o, k, l, stage)
      <3>1. CASE Starting(p) \/ StartSweep(p)
        BY <1>0, <3>1 DEF Starting, SetKey, DeleteKey, Refresh, Call, StartSweep
      <3>2. CASE ~(Starting(p) \/ StartSweep(p))
        BY <1>0, <1>1, <3>2 DEF Store, ForgetDiscovered, ForgetRows, DropProbes, ClearBench, ForgetProbes,
           SetDiscovered, Save, Fails, CallEnds
      <3> QED BY <3>1, <3>2
    <2>2. answered' = answered /\ confirmed' = confirmed
      BY <1>1 DEF Store, ForgetDiscovered, ForgetRows, DropProbes, ClearBench, ForgetProbes,
         SetDiscovered, Save, Fails, CallEnds, Starting, SetKey, DeleteKey, Refresh, Call, StartSweep,
         Begins, memory, history
    <2>3. probes' = probes \/ probes' = [m \in Models |-> "none"]
      BY <1>1 DEF Store, ForgetDiscovered, ForgetRows, DropProbes, ClearBench, ForgetProbes,
         SetDiscovered, Save, Fails, CallEnds, Starting, SetKey, DeleteKey, Refresh, Call, StartSweep,
         Begins, tables
    <2>4. \A m \in Models : probes'[m] = "ok" => probes[m] = "ok"
      BY <2>3
    <2> QED BY <2>1, <2>2, <2>4, LocalMoves, EvidenceKept
  <1>2. ASSUME NEW p \in Procs, Reread(p) PROVE Evidence'
    BY <1>2, EvidenceKept DEF Reread, TypeOK, memory, history, tables
  <1>13. ASSUME NEW p \in Procs, NEW targets \in SUBSET Models, Aim(p, targets) PROVE Evidence'
    <2>1. answered' = answered /\ confirmed' = confirmed /\ probes' = probes
      BY <1>13 DEF Aim, memory, history, tables
    <2>2. CASE Ends(p) \/ Goes(p, "read")
      BY <1>0, <2>1, <2>2, LocalMoves, EvidenceKept
    <2>3. CASE ~(Ends(p) \/ Goes(p, "read"))
      BY <1>13, <2>1, <2>3, EvidenceKept DEF Aim, TypeOK
    <2> QED BY <2>2, <2>3
  <1>3. ASSUME NEW p \in Procs, NEW models \in SUBSET Models, Ask(p, models) PROVE Evidence'
    <2>1. CASE models = {}
      <3>1. Settles(p) /\ answered' = answered /\ confirmed' = confirmed /\ probes' = probes
        BY <1>3, <2>1 DEF Ask, memory, history, tables
      <3> QED BY <3>1, LocalMoves, EvidenceKept
    <2>2. CASE models # {}
      BY <1>3, <2>2, EvidenceKept DEF Ask, TypeOK, memory, history, tables
    <2> QED BY <2>1, <2>2
  <1>4. ASSUME NEW p \in Procs, NEW m \in Models, NEW out, Probe(p, m, out) PROVE Evidence'
    <2>1. /\ answered \subseteq answered' /\ (m \in up => m \in answered')
          /\ probes' = probes /\ confirmed' = confirmed
          /\ pc'[p] = "record" /\ found'[p] = {<<m, m \in up>>}
          /\ \A q \in Procs \ {p} : pc'[q] = pc[q] /\ list'[q] = list[q] /\ found'[q] = found[q]
      BY <1>4 DEF Probe, TypeOK, tables
    <2>2. \A f \in found'[p] : f[2] => f[1] \in answered'
      <3> SUFFICES ASSUME NEW f \in found'[p], f[2] PROVE f[1] \in answered'
        OBVIOUS
      <3>1. f = <<m, m \in up>>
        BY <2>1
      <3>2. f[1] = m
        BY <3>1
      <3>3. m \in up
        BY <3>1, Zenon
      <3> QED BY <2>1, <3>2, <3>3
    <2>3. \A q \in Procs : \A f \in found'[q] : f[2] => f[1] \in answered'
      BY <2>1, <2>2 DEF Evidence
    <2>4. \A q \in Procs : pc'[q] = "apply" => list'[q] \subseteq answered'
      BY <2>1 DEF Evidence
    <2> QED BY <2>1, <2>3, <2>4 DEF Evidence
  <1>5. ASSUME NEW p \in Procs, Record(p) PROVE Evidence'
    <2>1. PICK f \in found[p] :
            probes' = [probes EXCEPT ![f[1]] = IF f[2] THEN "ok" ELSE "refused"]
      BY <1>5 DEF Record
    <2>2. answered' = answered /\ confirmed' = confirmed /\ Recorded(p)
      BY <1>5 DEF Record, memory
    <2>3. /\ \A q \in Procs : found'[q] \subseteq found[q]
          /\ pc'[p] # "apply"
          /\ \A q \in Procs \ {p} : pc'[q] = pc[q] /\ list'[q] = list[q]
      BY <2>2, LocalMoves
    <2>4. f[2] => f[1] \in answered
      BY <2>1 DEF Evidence
    <2>5. \A m \in Models : probes'[m] = "ok" => m \in answered
      BY <2>1, <2>4 DEF Evidence, TypeOK
    <2> QED BY <2>2, <2>3, <2>5 DEF Evidence
  <1>6. ASSUME NEW p \in Procs, ReadProbes(p) PROVE Evidence'
    <2>1. /\ answered' = answered /\ confirmed' = confirmed /\ probes' = probes /\ found' = found
          /\ list'[p] = {m \in Models : probes[m] = "ok"}
          /\ \A q \in Procs \ {p} : pc'[q] = pc[q] /\ list'[q] = list[q]
      BY <1>6 DEF ReadProbes, TypeOK, memory, history, tables
    <2>2. list'[p] \subseteq answered
      BY <2>1 DEF Evidence
    <2> QED BY <2>1, <2>2 DEF Evidence
  <1>7. ASSUME NEW p \in Procs, SetConfirmed(p) PROVE Evidence'
    <2>1. answered' = answered /\ probes' = probes /\ Ends(p) /\ confirmed' = list[p] /\ pc[p] = "apply"
      BY <1>7 DEF SetConfirmed, history, tables
    <2>2. /\ \A q \in Procs : found'[q] \subseteq found[q]
          /\ pc'[p] # "apply"
          /\ \A q \in Procs \ {p} : pc'[q] = pc[q] /\ list'[q] = list[q]
      BY <2>1, LocalMoves
    <2> QED BY <2>1, <2>2 DEF Evidence
  <1>8. ASSUME NEW p \in Procs, CutShort(p) PROVE Evidence'
    <2>1. answered' = answered /\ probes' = probes /\ confirmed' = confirmed
      BY <1>8 DEF CutShort, memory, tables
    <2>2. CASE Ends(p)
      BY <2>1, <2>2, LocalMoves, EvidenceKept
    <2>3. ASSUME NEW m \in list[p],
                 found' = [found EXCEPT ![p] = {<<m, FALSE>>}],
                 list'  = [list EXCEPT ![p] = {}],
                 pc'    = [pc EXCEPT ![p] = "record"]
          PROVE  Evidence'
      <3>1. /\ found'[p] = {<<m, FALSE>>} /\ pc'[p] = "record"
            /\ \A q \in Procs \ {p} : pc'[q] = pc[q] /\ list'[q] = list[q] /\ found'[q] = found[q]
        BY <2>3 DEF TypeOK
      <3>2. \A f \in found'[p] : ~f[2]
        <4> SUFFICES ASSUME NEW f \in found'[p], f[2] PROVE FALSE
          OBVIOUS
        <4>1. f = <<m, FALSE>>
          BY <3>1
        <4> QED BY <4>1, Zenon
      <3> QED BY <2>1, <3>1, <3>2 DEF Evidence
    <2> QED BY <1>8, <2>2, <2>3 DEF CutShort
  <1>9. ASSUME NEW m \in Models, Change(m) \/ Lapses(m) PROVE Evidence'
    BY <1>9 DEF Change, Lapses, Evidence, memory, tables, locals, history
  <1>10. ASSUME NEW m \in Models, Ages(m) PROVE Evidence'
    BY <1>10 DEF Ages, Evidence, TypeOK, memory, locals, history
  <1>11. ASSUME NEW lost, Restart(lost) PROVE Evidence'
    BY <1>11 DEF Restart, Evidence, tables
  <1>12. CASE Switch \/ UNCHANGED vars
    BY <1>12 DEF Switch, vars, Evidence, memory, tables, locals, history
  <1> QED BY <1>1, <1>2, <1>3, <1>4, <1>5, <1>6, <1>7, <1>8, <1>9, <1>10, <1>11, <1>12, <1>13
             DEF Next, Moves

\* Only a model that once answered a probe is ever confirmed, whatever sweeps,
\* key changes, failures and restarts overlap (LoadConfirmedModels reads what
\* RecordProbe wrote, and SetConfirmed replaces wholesale).
THEOREM ConfirmationIsEvidence == Spec => []ConfirmedHasAnswered
  <1>1. Init => Evidence
    BY DEF Init, Evidence
  <1>2. Evidence => ConfirmedHasAnswered
    BY DEF Evidence, ConfirmedHasAnswered
  <1> QED BY TypeCorrect, NextEvidence, <1>1, <1>2, PTL DEF Spec

-----------------------------------------------------------------------------
\* Outages.

(***************************************************************************)
(* A list about to replace the catalogue's or the table's is never empty;  *)
(* and who forgets the models found no key stored, and there is none still *)
(* unless it was overtaken.                                                *)
(***************************************************************************)
Offered  == \A p \in Procs : pc[p] \in {"set", "save"} => list[p] # {}
Warrants == \A p \in Procs : pc[p] \in Forgetting => key = 0 \/ p \in overtaken

\* Every step keeps the first: Store and Ask look before they go there.
LEMMA NextOffered == TypeOK /\ Offered /\ [Next]_vars => Offered'
  <1> SUFFICES ASSUME TypeOK, Offered, [Next]_vars PROVE Offered'
    OBVIOUS
  <1>1. ASSUME NEW p \in Procs, pc'[p] \in {"set", "save"} => list'[p] # {},
               \A q \in Procs \ {p} : pc'[q] = pc[q] /\ list'[q] = list[q]
        PROVE  Offered'
    BY <1>1 DEF Offered
  <1>2. ASSUME NEW p \in Procs, Store(p) PROVE Offered'
    BY <1>1, <1>2 DEF Store, Goes, TypeOK
  <1>3. ASSUME NEW p \in Procs, NEW models, Ask(p, models) PROVE Offered'
    BY <1>1, <1>3 DEF Ask, Settles, Goes, Ends, TypeOK
  <1>4. ASSUME NEW p \in Procs,
               \/ Reread(p) \/ ForgetDiscovered(p) \/ ForgetRows(p) \/ DropProbes(p)
               \/ ClearBench(p) \/ ForgetProbes(p) \/ Save(p)
               \/ Record(p) \/ ReadProbes(p) \/ SetConfirmed(p)
               \/ Fails(p) \/ CutShort(p)
               \/ \E targets \in SUBSET Models : Aim(p, targets)
               \/ \E m \in Models : \E out \in Sidelined(m) :
                     Probe(p, m, out) \/ CallEnds(p, m, out)
        PROVE  Offered'
    <2>1. pc'[p] \notin {"set", "save"}
      BY <1>4 DEF Reread, ForgetDiscovered, ForgetRows, DropProbes, ClearBench, ForgetProbes,
         Save, Record, ReadProbes, SetConfirmed, Fails, CutShort, Aim, Probe, CallEnds, Settles,
         Recorded, Goes, Ends, TypeOK
    <2>2. \A q \in Procs \ {p} : pc'[q] = pc[q] /\ list'[q] = list[q]
      BY <1>4 DEF Reread, ForgetDiscovered, ForgetRows, DropProbes, ClearBench, ForgetProbes,
         Save, Record, ReadProbes, SetConfirmed, Fails, CutShort, Aim, Probe, CallEnds, Settles,
         Recorded, Goes, Ends, TypeOK
    <2> QED BY <1>1, <2>1, <2>2
  <1>8. ASSUME NEW p \in Procs, SetDiscovered(p) PROVE Offered'
    <2>1. list[p] # {} /\ pc'[p] = "save" /\ list' = list
      BY <1>8 DEF SetDiscovered, Goes, Offered, TypeOK
    <2> QED BY <1>1, <1>8, <2>1 DEF SetDiscovered, Goes, TypeOK
  <1>5. ASSUME NEW p \in Procs, Starting(p) \/ StartSweep(p) PROVE Offered'
    BY <1>1, <1>5 DEF Starting, SetKey, DeleteKey, Refresh, Call, StartSweep, Begins, TypeOK
  <1>6. ASSUME \/ \E m \in Models : Change(m) \/ Lapses(m) \/ Ages(m)
               \/ Switch \/ UNCHANGED vars
        PROVE  Offered'
    BY <1>6 DEF Change, Lapses, Ages, Switch, vars, locals, Offered
  <1>7. ASSUME NEW lost, Restart(lost) PROVE Offered'
    BY <1>7 DEF Restart, Offered
  <1> QED BY <1>2, <1>3, <1>4, <1>5, <1>6, <1>7, <1>8 DEF Next, Moves

\* And the second: Reread looks before it goes there, Store marks whom it
\* overtakes, and the mark goes only with the goroutine that bears it.
LEMMA NextWarrants == TypeOK /\ Warrants /\ [Next]_vars => Warrants'
  <1> SUFFICES ASSUME TypeOK, Warrants, [Next]_vars PROVE Warrants'
    OBVIOUS
  <1> USE DEF Forgetting
  <1>1. ASSUME NEW p \in Procs, key = 0 => key' = 0, overtaken \ {p} \subseteq overtaken',
               pc'[p] \in Forgetting => key' = 0 \/ p \in overtaken',
               \A q \in Procs \ {p} : pc'[q] = pc[q]
        PROVE  Warrants'
    BY <1>1 DEF Warrants
  <1>2. ASSUME NEW p \in Procs, Store(p) PROVE Warrants'
    <2>1. \A q \in Procs : pc'[q] \in Forgetting => pc[q] \in Forgetting
      BY <1>2 DEF Store, Goes, TypeOK
    <2>2. \A q \in Procs : pc[q] \in Forgetting => q \in overtaken'
      BY <1>2 DEF Store
    <2> QED BY <2>1, <2>2 DEF Warrants
  <1>3. ASSUME NEW p \in Procs, Reread(p) PROVE Warrants'
    <2>1. pc'[p] \in Forgetting => key' = 0
      BY <1>3 DEF Reread, TypeOK, tables
    <2>2. key' = key /\ overtaken' = overtaken /\ \A q \in Procs \ {p} : pc'[q] = pc[q]
      BY <1>3 DEF Reread, TypeOK, tables, history
    <2> QED BY <1>1, <2>1, <2>2
  <1>4. ASSUME NEW p \in Procs, ForgetDiscovered(p) \/ ForgetRows(p) PROVE Warrants'
    <2>1. pc[p] \in Forgetting /\ key' = key /\ overtaken' = overtaken
      BY <1>4 DEF ForgetDiscovered, ForgetRows, tables, history
    <2>2. \A q \in Procs \ {p} : pc'[q] = pc[q]
      BY <1>4 DEF ForgetDiscovered, ForgetRows, Goes, TypeOK
    <2> QED BY <1>1, <2>1, <2>2 DEF Warrants
  <1>5. ASSUME NEW p \in Procs,
               \/ DropProbes(p) \/ ClearBench(p) \/ ForgetProbes(p)
               \/ SetDiscovered(p) \/ Save(p)
               \/ Record(p) \/ ReadProbes(p) \/ SetConfirmed(p) \/ CutShort(p)
               \/ \E models \in SUBSET Models : Ask(p, models)
               \/ \E targets \in SUBSET Models : Aim(p, targets)
               \/ \E m \in Models : \E out \in Sidelined(m) :
                     Probe(p, m, out) \/ CallEnds(p, m, out)
        PROVE  Warrants'
    <2>1. pc'[p] \notin Forgetting /\ \A q \in Procs \ {p} : pc'[q] = pc[q]
      BY <1>5 DEF DropProbes, ClearBench, ForgetProbes, SetDiscovered, Save, Record, ReadProbes,
         SetConfirmed, CutShort, Ask, Aim, Probe, CallEnds, Settles, Recorded, Goes, Ends, TypeOK
    <2>2. key' = key /\ overtaken \ {p} \subseteq overtaken'
      BY <1>5 DEF DropProbes, ClearBench, ForgetProbes, SetDiscovered, Save, Record, ReadProbes,
         SetConfirmed, CutShort, Ask, Aim, Probe, CallEnds, tables, history
    <2> QED BY <1>1, <2>1, <2>2
  <1>6. ASSUME NEW p \in Procs, Fails(p) PROVE Warrants'
    <2>1. key' = key /\ overtaken \ {p} \subseteq overtaken'
      BY <1>6 DEF Fails, tables
    <2>3. \A q \in Procs \ {p} : pc'[q] = pc[q]
      <3>1. \E stage : pc' = [pc EXCEPT ![p] = stage]
        BY <1>6 DEF Fails, Settles, Recorded, Goes, Ends
      <3> QED BY <3>1 DEF TypeOK
    <2>4. pc'[p] \in Forgetting => pc[p] \in Forgetting
      <3>1. CASE pc[p] \in Forgetting
        BY <3>1
      <3>2. CASE pc[p] \notin Forgetting
        <4>1. pc[p] # "forget rows"
          BY <3>2
        <4> QED BY <1>6, <4>1 DEF Fails, Settles, Recorded, Goes, Ends, TypeOK
      <3> QED BY <3>1, <3>2
    <2>2. pc'[p] \in Forgetting => pc[p] \in Forgetting /\ overtaken' = overtaken
      BY <1>6, <2>4 DEF Fails
    <2> QED BY <1>1, <2>1, <2>2, <2>3 DEF Warrants
  <1>7. ASSUME NEW p \in Procs, Starting(p) \/ StartSweep(p) PROVE Warrants'
    <2>1. key' = key \/ key' = 0
      BY <1>7 DEF Starting, SetKey, DeleteKey, Refresh, Call, StartSweep, tables
    <2>2. \E stage \in {"store", "reread", "ask", "call", "aim"} : pc' = [pc EXCEPT ![p] = stage]
      BY <1>7 DEF Starting, SetKey, DeleteKey, Refresh, Call, StartSweep, Begins
    <2>3. overtaken' = overtaken
      BY <1>7 DEF Starting, SetKey, DeleteKey, Refresh, Call, StartSweep, Begins
    <2>4. pc'[p] \notin Forgetting /\ \A q \in Procs \ {p} : pc'[q] = pc[q]
      BY <2>2 DEF TypeOK
    <2> QED BY <1>1, <2>1, <2>3, <2>4
  <1>8. ASSUME \/ \E m \in Models : Change(m) \/ Lapses(m) \/ Ages(m)
               \/ Switch \/ UNCHANGED vars
        PROVE  Warrants'
    BY <1>8 DEF Change, Lapses, Ages, Switch, vars, locals, tables, history, Warrants
  <1>9. ASSUME NEW lost, Restart(lost) PROVE Warrants'
    BY <1>9 DEF Restart, Warrants
  <1> QED BY <1>2, <1>3, <1>4, <1>5, <1>6, <1>7, <1>8, <1>9 DEF Next, Moves

\* A provider's lists are emptied only with its key, by a goroutine that found
\* none stored and was overtaken by a new one, or by a restart: an outage, an
\* empty answer or a failed statement leaves them (RefreshModels, AdoptModels,
\* RefreshProvider).
THEOREM OutagesKeepModels == Spec => OutageKeepsModels
  <1> DEFINE Gone == \/ \E p \in Procs : pc[p] = "forget" /\ (key = 0 \/ p \in overtaken)
                     \/ Busy' = {} /\ \E lost \in SUBSET {"lists", "probes"} : Restart(lost)
             Dropped == \E p \in Procs : pc[p] = "forget rows" /\ (key = 0 \/ p \in overtaken)
  <1>1. Init => Offered /\ Warrants
    BY DEF Init, Offered, Warrants, Forgetting
  <1>2. TypeOK /\ Offered /\ Warrants /\ [Next]_vars =>
          [(listed # {} /\ listed' = {} => Gone) /\ (rows # {} /\ rows' = {} => Dropped)]_vars
    <2> SUFFICES ASSUME TypeOK, Offered, Warrants, Next
                 PROVE  (listed # {} /\ listed' = {} => Gone) /\ (rows # {} /\ rows' = {} => Dropped)
      OBVIOUS
    <2>1. ASSUME NEW p \in Procs, SetDiscovered(p) PROVE listed' # {} /\ rows' = rows
      BY <2>1 DEF SetDiscovered, Offered, tables
    <2>2. ASSUME NEW p \in Procs, Save(p) PROVE rows' # {} /\ listed' = listed
      BY <2>2 DEF Save, Offered, memory
    <2>3. ASSUME NEW p \in Procs, ForgetDiscovered(p) PROVE Gone /\ rows' = rows
      BY <2>3 DEF ForgetDiscovered, Warrants, Forgetting, tables
    <2>4. ASSUME NEW p \in Procs, ForgetRows(p) PROVE Dropped /\ listed' = listed
      BY <2>4 DEF ForgetRows, Warrants, Forgetting, memory
    <2>5. ASSUME NEW lost \in SUBSET {"lists", "probes"}, Restart(lost) PROVE Gone /\ rows' = rows
      BY <2>5 DEF Restart, Busy, tables
    <2>6. ASSUME NEW p \in Procs,
                 \/ Store(p) \/ Reread(p) \/ DropProbes(p) \/ ClearBench(p)
                 \/ ForgetProbes(p) \/ Record(p) \/ ReadProbes(p) \/ SetConfirmed(p)
                 \/ Fails(p) \/ CutShort(p) \/ Starting(p) \/ StartSweep(p)
                 \/ \E models \in SUBSET Models : Ask(p, models)
                 \/ \E targets \in SUBSET Models : Aim(p, targets)
                 \/ \E m \in Models : \E out \in Sidelined(m) :
                       Probe(p, m, out) \/ CallEnds(p, m, out)
          PROVE  listed' = listed /\ rows' = rows
      BY <2>6 DEF Store, Reread, DropProbes, ClearBench, ForgetProbes, Record, ReadProbes,
         SetConfirmed, Fails, CutShort, Starting, SetKey, DeleteKey, Refresh, Call,
         StartSweep, Ask, Aim, Probe, CallEnds, memory, tables
    <2>7. ASSUME \/ \E m \in Models : Change(m) \/ Lapses(m) \/ Ages(m)
                 \/ Switch
          PROVE  listed' = listed /\ rows' = rows
      BY <2>7 DEF Change, Lapses, Ages, Switch, memory, tables
    <2> QED BY <2>1, <2>2, <2>3, <2>4, <2>5, <2>6, <2>7 DEF Next, Moves
  <1> QED BY TypeCorrect, NextOffered, NextWarrants, <1>1, <1>2, PTL DEF Spec, OutageKeepsModels

-----------------------------------------------------------------------------
\* One operation at a time.

\* The catalogue agrees with the tables, and nothing outlives a deleted key.
Agreed ==
    /\ listed = rows
    /\ key = 0 => listed = {} /\ \A m \in Models : probes[m] = "none"

\* No bench entry and no probe row is due to another key than the stored one.
Fresh ==
    key # 0 =>
        /\ \A m \in bench : under["bench"][m] = key
        /\ \A m \in Models : probes[m] # "none" => under["probe"][m] = key

(***************************************************************************)
(* What holds while one operation is under way and nothing else is: which  *)
(* stages it goes through, which key it works with, and how much of Agreed *)
(* and Fresh it has broken for now.                                        *)
(***************************************************************************)
Keeps(p) ==
    op[p] \in {"refresh", "sweep", "call"} \/ pc[p] = "store" =>
        Fresh /\ (pc[p] # "save" => Agreed)

Sets(p) ==
    op[p] = "set" =>
        /\ pc[p] \in {"store", "reread", "ask", "set", "save", "clear", "forget probes"}
        /\ mine[p] # 0
        /\ pc[p] # "store" => key # 0
        /\ pc[p] # "save" => listed = rows
        /\ pc[p] = "forget probes" => bench = {}

Deletes(p) ==
    op[p] = "delete" =>
        /\ pc[p] \in {"reread", "forget", "forget rows", "drop probes"}
        /\ key = 0
        /\ pc[p] \in {"reread", "forget"} => listed = rows
        /\ pc[p] \in {"forget rows", "drop probes"} => listed = {}
        /\ pc[p] = "drop probes" => rows = {}

Uses(p) ==
    /\ op[p] = "refresh" => pc[p] \in {"ask", "set", "save"}
    /\ op[p] = "sweep" => pc[p] \in {"aim", "probe", "record", "read", "apply"}
    /\ op[p] = "call" => pc[p] = "call"
    /\ op[p] \in {"refresh", "call"} \/ pc[p] \in {"probe", "record"} =>
          mine[p] = key /\ key # 0
    /\ pc[p] = "aim" => mine[p] = key
    /\ pc[p] = "save" => listed = list[p] /\ key # 0

Working(p) ==
    /\ op[p] \in {"set", "delete", "refresh", "sweep", "call"}
    /\ Keeps(p) /\ Sets(p) /\ Deletes(p) /\ Uses(p)

Calm ==
    calm =>
        /\ \A p, q \in Procs : pc[p] # "idle" /\ pc[q] # "idle" => p = q
        /\ \A p \in Procs : pc[p] # "idle" => Working(p)
        /\ (\A p \in Procs : pc[p] = "idle") => Agreed /\ Fresh

\* Where goroutine p stands after its step, when it is the only one.
Stands(p) == IF pc[p] = "idle" THEN Agreed /\ Fresh ELSE Working(p)

\* Then the others are idle, and that is all there is to the invariant.
LEMMA OnlyOne ==
    ASSUME NEW p \in Procs,
           calm' => /\ \A q \in Procs \ {p} : pc[q] = "idle" /\ pc'[q] = pc[q]
                    /\ Stands(p)'
    PROVE  Calm'
  <1> SUFFICES ASSUME calm' PROVE Calm'
    BY DEF Calm
  <1>1. \A q \in Procs \ {p} : pc'[q] = "idle"
    OBVIOUS
  <1>2. CASE pc'[p] = "idle"
    BY <1>1, <1>2 DEF Calm, Stands
  <1>3. CASE pc'[p] # "idle"
    BY <1>1, <1>3 DEF Calm, Stands
  <1> QED BY <1>2, <1>3

\* An operation without company goes from stage to stage as it should.
LEMMA MovesStand ==
    ASSUME TypeOK, calm, NEW p \in Procs, Working(p), pc[p] # "idle", Moves(p)
    PROVE  Stands(p)'
  <1> USE DEF Stands, Working
  <1>1. CASE Store(p)
    <2>1. /\ pc[p] = "store" /\ key' = mine[p] /\ op' = op /\ mine' = mine /\ list' = list
          /\ pc'[p] \in {"set", "reread"} /\ listed' = listed /\ rows' = rows /\ bench' = bench
      BY <1>1 DEF Store, Goes, TypeOK, memory
    <2>2. op[p] = "set" /\ mine[p] # 0 /\ listed = rows
      BY <2>1 DEF Sets, Deletes, Uses
    <2> QED BY <2>1, <2>2 DEF Keeps, Sets, Deletes, Uses
  <1>2. CASE Reread(p)
    <2>1. /\ pc[p] = "reread" /\ key' = key /\ op' = op /\ mine'[p] = key /\ list' = list
          /\ rows' = rows /\ listed' = listed /\ bench' = bench /\ probes' = probes
          /\ pc'[p] = IF key = 0 THEN "forget" ELSE "ask"
      BY <1>2 DEF Reread, TypeOK, memory, tables
    <2>2. op[p] \in {"set", "delete"} /\ (op[p] = "set" <=> key # 0)
      <3>1. pc[p] = "reread"
        BY <2>1
      <3>2. op[p] \in {"set", "delete"}
        BY <3>1 DEF Uses
      <3> QED BY <3>1, <3>2 DEF Sets, Deletes
    <2> QED BY <2>1, <2>2 DEF Keeps, Sets, Deletes, Uses
  <1>15. CASE ForgetDiscovered(p)
    <2>1. /\ pc[p] = "forget" /\ key' = key /\ op' = op /\ mine' = mine
          /\ rows' = rows /\ listed' = {} /\ pc'[p] = "forget rows"
      BY <1>15 DEF ForgetDiscovered, Goes, TypeOK, tables
    <2>2. op[p] = "delete"
      BY <2>1 DEF Sets, Deletes, Uses
    <2> QED BY <2>1, <2>2 DEF Keeps, Sets, Deletes, Uses
  <1>3. CASE ForgetRows(p)
    <2>1. /\ pc[p] = "forget rows" /\ key' = key /\ op' = op /\ mine' = mine
          /\ rows' = {} /\ listed' = listed /\ pc'[p] = "drop probes"
      BY <1>3 DEF ForgetRows, Goes, TypeOK, memory
    <2>2. op[p] = "delete"
      BY <2>1 DEF Sets, Deletes, Uses
    <2> QED BY <2>1, <2>2 DEF Keeps, Sets, Deletes, Uses
  <1>4. CASE DropProbes(p)
    <2>1. /\ pc[p] = "drop probes" /\ key' = key
          /\ rows' = rows /\ listed' = listed /\ probes' = [m \in Models |-> "none"]
      BY <1>4 DEF DropProbes, memory
    <2>2. op[p] = "delete"
      BY <2>1 DEF Sets, Deletes, Uses
    <2>3. pc'[p] = "idle"
      BY <1>4, <2>2 DEF DropProbes, Settles, Ends, TypeOK
    <2> QED BY <2>1, <2>2, <2>3 DEF Deletes, Agreed, Fresh
  <1>5. CASE ClearBench(p)
    <2>1. /\ pc[p] = "clear" /\ key' = key /\ op' = op /\ mine' = mine /\ bench' = {}
          /\ rows' = rows /\ listed' = listed /\ pc'[p] = "forget probes"
      BY <1>5 DEF ClearBench, Goes, TypeOK, tables
    <2>2. op[p] = "set"
      BY <2>1 DEF Sets, Deletes, Uses
    <2> QED BY <2>1, <2>2 DEF Keeps, Sets, Deletes, Uses
  <1>6. CASE ForgetProbes(p)
    <2>1. /\ pc[p] = "forget probes" /\ key' = key /\ bench' = bench
          /\ rows' = rows /\ listed' = listed /\ probes' = [m \in Models |-> "none"]
          /\ pc'[p] = "idle"
      BY <1>6 DEF ForgetProbes, Ends, TypeOK, memory
    <2>2. op[p] = "set"
      BY <2>1 DEF Sets, Deletes, Uses
    <2> QED BY <2>1, <2>2 DEF Sets, Agreed, Fresh
  <1>7. ASSUME NEW models \in SUBSET Models, Ask(p, models) PROVE Stands(p)'
    <2>1. /\ pc[p] = "ask" /\ key' = key /\ bench' = bench /\ under' = under
          /\ rows' = rows /\ listed' = listed /\ probes' = probes
      BY <1>7 DEF Ask, memory, tables, history
    <2>2. op[p] \in {"set", "refresh"} /\ key # 0
      BY <2>1 DEF Sets, Deletes, Uses
    <2>3. CASE models = {} /\ op[p] = "set"
      <3>1. pc'[p] = "clear" /\ op' = op /\ mine' = mine
        BY <1>7, <2>3 DEF Ask, Settles, Goes, TypeOK
      <3> QED BY <2>1, <2>2, <2>3, <3>1 DEF Keeps, Sets, Deletes, Uses
    <2>4. CASE models = {} /\ op[p] = "refresh"
      <3>1. pc'[p] = "idle"
        BY <1>7, <2>4 DEF Ask, Settles, Ends, TypeOK
      <3> QED BY <2>1, <2>4, <3>1 DEF Keeps, Agreed, Fresh
    <2>5. CASE models # {}
      <3>1. pc'[p] = "set" /\ op' = op /\ mine' = mine
        BY <1>7, <2>5 DEF Ask, TypeOK
      <3> QED BY <2>1, <2>2, <3>1 DEF Keeps, Sets, Deletes, Uses, Agreed, Fresh
    <2> QED BY <2>2, <2>3, <2>4, <2>5
  <1>8. CASE SetDiscovered(p)
    <2>1. /\ pc[p] = "set" /\ key' = key /\ bench' = bench /\ under' = under /\ probes' = probes
          /\ rows' = rows /\ listed' = list[p] /\ list' = list /\ op' = op /\ mine' = mine
          /\ pc'[p] = "save"
      BY <1>8 DEF SetDiscovered, Goes, TypeOK, tables, history
    <2>2. op[p] \in {"set", "refresh"} /\ key # 0
      BY <2>1 DEF Sets, Deletes, Uses
    <2> QED BY <2>1, <2>2 DEF Keeps, Sets, Deletes, Uses, Fresh
  <1>9. CASE Save(p)
    <2>1. /\ pc[p] = "save" /\ key' = key /\ bench' = bench /\ under' = under /\ probes' = probes
          /\ rows' = list[p] /\ listed' = listed
      BY <1>9 DEF Save, memory, history
    <2>2. op[p] \in {"set", "refresh"} /\ key # 0 /\ listed = list[p]
      BY <2>1 DEF Sets, Deletes, Uses
    <2>3. CASE op[p] = "set"
      <3>1. pc'[p] = "clear" /\ op' = op /\ mine' = mine
        BY <1>9, <2>3 DEF Save, Settles, Goes, TypeOK
      <3> QED BY <2>1, <2>2, <2>3, <3>1 DEF Keeps, Sets, Deletes, Uses
    <2>4. CASE op[p] = "refresh"
      <3>1. pc'[p] = "idle"
        BY <1>9, <2>4 DEF Save, Settles, Ends, TypeOK
      <3> QED BY <2>1, <2>2, <2>4, <3>1 DEF Keeps, Agreed, Fresh
    <2> QED BY <2>2, <2>3, <2>4
  <1>16. ASSUME NEW targets \in SUBSET Models, Aim(p, targets) PROVE Stands(p)'
    <2>1. /\ pc[p] = "aim" /\ key' = key /\ probes' = probes /\ bench' = bench /\ under' = under
          /\ rows' = rows /\ listed' = listed
      BY <1>16 DEF Aim, memory, tables, history
    <2>2. op[p] = "sweep" /\ mine[p] = key /\ Fresh /\ Agreed
      BY <2>1 DEF Keeps, Sets, Deletes, Uses
    <2>3. CASE targets = {}
      <3>1. \/ pc'[p] = "idle"
            \/ pc'[p] = "read" /\ op' = op /\ mine' = mine
        BY <1>16, <2>3 DEF Aim, Ends, Goes, TypeOK
      <3> QED BY <2>1, <2>2, <3>1 DEF Keeps, Sets, Deletes, Uses, Agreed, Fresh
    <2>4. CASE targets # {}
      <3>1. mine[p] # 0
        BY <1>16, <2>4 DEF Aim
      <3>2. pc'[p] = "probe" /\ op' = op /\ mine' = mine
        BY <1>16, <2>4 DEF Aim, TypeOK
      <3> QED BY <2>1, <2>2, <3>1, <3>2 DEF Keeps, Sets, Deletes, Uses, Agreed, Fresh
    <2> QED BY <2>3, <2>4
  <1>10. ASSUME NEW m \in Models, NEW out \in Sidelined(m), Probe(p, m, out) PROVE Stands(p)'
    <2>1. /\ pc[p] = "probe" /\ key' = key /\ probes' = probes /\ op' = op /\ mine' = mine
          /\ rows' = rows /\ listed' = listed /\ pc'[p] = "record"
      BY <1>10 DEF Probe, TypeOK, tables
    <2>2. op[p] = "sweep" /\ key # 0 /\ mine[p] = key /\ Fresh /\ Agreed
      BY <2>1 DEF Keeps, Sets, Deletes, Uses
    <2>3. Fresh'
      <3>1. under'["probe"] = under["probe"]
        BY <1>10 DEF Probe, Due, TypeOK
      <3>2. ASSUME NEW b \in bench' PROVE under'["bench"][b] = key
        <4>1. CASE m \in up
          BY <1>10, <2>2, <3>2, <4>1 DEF Probe, Fresh
        <4>2. CASE m \notin up
          <5>1. bench' = bench \cup out /\ under' = Due(p, "bench", out)
            BY <1>10, <4>2 DEF Probe
          <5>2. b \in Models
            BY <5>1, <3>2, SidelinedTyped DEF TypeOK
          <5>3. under'["bench"][b] = IF b \in out THEN mine[p] ELSE under["bench"][b]
            BY <5>1, <5>2 DEF Due, TypeOK
          <5> QED BY <2>2, <3>2, <5>1, <5>3 DEF Fresh
        <4> QED BY <4>1, <4>2
      <3> QED BY <2>1, <2>2, <3>1, <3>2 DEF Fresh
    <2> QED BY <2>1, <2>2, <2>3 DEF Keeps, Sets, Deletes, Uses, Agreed
  <1>11. CASE Record(p)
    <2>1. PICK f \in found[p] :
            /\ probes' = [probes EXCEPT ![f[1]] = IF f[2] THEN "ok" ELSE "refused"]
            /\ under'  = Due(p, "probe", {f[1]})
      BY <1>11 DEF Record
    <2>2. /\ pc[p] = "record" /\ key' = key /\ bench' = bench
          /\ rows' = rows /\ listed' = listed
      BY <1>11 DEF Record, memory
    <2>3. op[p] = "sweep" /\ key # 0 /\ mine[p] = key /\ Fresh /\ Agreed
      BY <2>2 DEF Keeps, Sets, Deletes, Uses
    <2>4. op' = op /\ mine' = mine /\ pc'[p] \in {"read", "probe"}
      BY <1>11, <2>3 DEF Record, Recorded, TypeOK
    <2>5. f[1] \in Models
      BY <2>1 DEF TypeOK
    <2>6. Fresh'
      <3>1. under'["bench"] = under["bench"]
        BY <2>1 DEF Due, TypeOK
      <3>2. ASSUME NEW n \in Models, probes'[n] # "none" PROVE under'["probe"][n] = key
        <4>1. CASE n = f[1]
          BY <2>1, <2>3, <2>5, <4>1 DEF Due, TypeOK
        <4>2. CASE n # f[1]
          <5>1. probes'[n] = probes[n] /\ under'["probe"][n] = under["probe"][n]
            BY <2>1, <2>5, <4>2 DEF Due, TypeOK
          <5> QED BY <2>3, <3>2, <5>1 DEF Fresh
        <4> QED BY <4>1, <4>2
      <3> QED BY <2>2, <2>3, <3>1, <3>2 DEF Fresh
    <2> QED BY <2>2, <2>3, <2>4, <2>6 DEF Keeps, Sets, Deletes, Uses, Agreed
  <1>12. CASE ReadProbes(p)
    <2>1. /\ pc[p] = "read" /\ key' = key /\ probes' = probes /\ op' = op /\ mine' = mine
          /\ rows' = rows /\ listed' = listed /\ pc'[p] = "apply"
          /\ bench' = bench /\ under' = under
      BY <1>12 DEF ReadProbes, TypeOK, tables, memory, history
    <2>2. op[p] = "sweep" /\ Fresh /\ Agreed
      BY <2>1 DEF Keeps, Sets, Deletes, Uses
    <2> QED BY <2>1, <2>2 DEF Keeps, Sets, Deletes, Uses, Agreed, Fresh
  <1>13. CASE SetConfirmed(p)
    <2>1. /\ pc[p] = "apply" /\ key' = key /\ probes' = probes
          /\ rows' = rows /\ listed' = listed /\ pc'[p] = "idle"
          /\ bench' = bench /\ under' = under
      BY <1>13 DEF SetConfirmed, Ends, TypeOK, tables, history
    <2>2. op[p] = "sweep" /\ Fresh /\ Agreed
      BY <2>1 DEF Keeps, Sets, Deletes, Uses
    <2> QED BY <2>1, <2>2 DEF Agreed, Fresh
  <1>14. ASSUME NEW m \in Models, NEW out \in Sidelined(m), CallEnds(p, m, out) PROVE Stands(p)'
    <2>1. /\ pc[p] = "call" /\ key' = key /\ probes' = probes
          /\ rows' = rows /\ listed' = listed /\ pc'[p] = "idle"
      BY <1>14 DEF CallEnds, Ends, TypeOK, tables
    <2>2. op[p] = "call" /\ key # 0 /\ mine[p] = key /\ Fresh /\ Agreed
      BY <2>1 DEF Keeps, Sets, Deletes, Uses
    <2>3. Fresh'
      <3>1. under'["probe"] = under["probe"]
        BY <1>14 DEF CallEnds, Due, TypeOK
      <3>2. ASSUME NEW b \in bench' PROVE under'["bench"][b] = key
        <4>1. CASE m \in up
          BY <1>14, <2>2, <3>2, <4>1 DEF CallEnds, Fresh
        <4>2. CASE m \notin up
          <5>1. bench' = bench \cup out /\ under' = Due(p, "bench", out)
            BY <1>14, <4>2 DEF CallEnds
          <5>2. b \in Models
            BY <5>1, <3>2, SidelinedTyped DEF TypeOK
          <5>3. under'["bench"][b] = IF b \in out THEN mine[p] ELSE under["bench"][b]
            BY <5>1, <5>2 DEF Due, TypeOK
          <5> QED BY <2>2, <3>2, <5>1, <5>3 DEF Fresh
        <4> QED BY <4>1, <4>2
      <3> QED BY <2>1, <2>2, <3>1, <3>2 DEF Fresh
    <2> QED BY <2>1, <2>2, <2>3 DEF Agreed
  <1> QED BY <1>1, <1>2, <1>3, <1>4, <1>5, <1>6, <1>7, <1>8, <1>9, <1>10, <1>11,
             <1>12, <1>13, <1>14, <1>15, <1>16 DEF Moves

\* An operation begun while nothing else is under way begins as it should.
LEMMA StartStands ==
    ASSUME TypeOK, calm', NEW p \in Procs, Agreed, Fresh, Starting(p) \/ StartSweep(p)
    PROVE  Stands(p)'
  <1> USE DEF Stands, Working, Remembered
  <1>1. ASSUME NEW models \in SUBSET Models, SetKey(p, models) PROVE Stands(p)'
    <2>1. /\ pc'[p] = "store" /\ op'[p] = "set" /\ mine'[p] = presented + 1
          /\ UNCHANGED <<key, probes, rows, listed, bench, under>>
      BY <1>1 DEF SetKey, Begins, TypeOK, memory, tables
    <2>2. presented + 1 # 0
      BY BoundsAssumption DEF TypeOK, Keys
    <2> QED BY <2>1, <2>2 DEF Keeps, Sets, Deletes, Uses, Agreed, Fresh
  <1>2. CASE DeleteKey(p)
    <2>1. /\ pc'[p] = "reread" /\ op'[p] = "delete" /\ key' = 0
          /\ UNCHANGED <<rows, listed>>
      BY <1>2 DEF DeleteKey, Begins, TypeOK, memory
    <2> QED BY <2>1 DEF Keeps, Sets, Deletes, Uses, Agreed
  <1>3. CASE Refresh(p)
    <2>1. /\ pc'[p] = "ask" /\ op'[p] = "refresh" /\ mine'[p] = key /\ key # 0
          /\ UNCHANGED <<key, probes, rows, listed, bench, under>>
      BY <1>3 DEF Refresh, Begins, TypeOK, memory, tables
    <2> QED BY <2>1 DEF Keeps, Sets, Deletes, Uses, Agreed, Fresh
  <1>4. CASE Call(p)
    <2>1. /\ pc'[p] = "call" /\ op'[p] = "call" /\ mine'[p] = key /\ key # 0
          /\ UNCHANGED <<key, probes, rows, listed, bench, under>>
      BY <1>4 DEF Call, Begins, TypeOK, memory, tables
    <2> QED BY <2>1 DEF Keeps, Sets, Deletes, Uses, Agreed, Fresh
  <1>5. CASE StartSweep(p)
    <2>1. /\ pc'[p] = "aim" /\ op'[p] = "sweep" /\ mine'[p] = key
          /\ UNCHANGED <<key, probes, rows, listed, bench, under>>
      BY <1>5 DEF StartSweep, Begins, TypeOK, memory, tables
    <2> QED BY <2>1 DEF Keeps, Sets, Deletes, Uses, Agreed, Fresh
  <1> QED BY <1>1, <1>2, <1>3, <1>4, <1>5 DEF Starting

\* Time alone breaks nothing: an entry that lapses or a row that grows old.
LEMMA TimeCalm ==
    ASSUME TypeOK, Calm,
           \/ \E m \in Models : Change(m) \/ Lapses(m) \/ Ages(m)
           \/ Switch \/ UNCHANGED vars
    PROVE  Calm'
  <1>1. /\ UNCHANGED <<key, listed, rows, under, pc, op, mine, list, calm>>
        /\ bench' \subseteq bench
        /\ \A n \in Models : probes'[n] = "none" <=> probes[n] = "none"
    BY DEF Switch, Change, Lapses, Ages, vars, TypeOK, memory, tables, locals, history
  <1>2. Agreed => Agreed'
    BY <1>1 DEF Agreed
  <1>3. Fresh => Fresh'
    BY <1>1 DEF Fresh
  <1>4. \A p \in Procs : Working(p) => Working(p)'
    <2> SUFFICES ASSUME NEW p \in Procs, Working(p) PROVE Working(p)'
      OBVIOUS
    <2>1. Keeps(p)'
      BY <1>1, <1>2, <1>3 DEF Working, Keeps
    <2>2. Sets(p)' /\ Deletes(p)'
      BY <1>1 DEF Working, Sets, Deletes
    <2>3. Uses(p)'
      BY <1>1 DEF Working, Uses
    <2> QED BY <1>1, <2>1, <2>2, <2>3 DEF Working
  <1> QED BY <1>1, <1>2, <1>3, <1>4 DEF Calm

\* Every step keeps the invariant.
LEMMA NextCalm == TypeOK /\ Calm /\ [Next]_vars => Calm'
  <1> SUFFICES ASSUME TypeOK, Calm, [Next]_vars PROVE Calm'
    OBVIOUS
  <1>1. ASSUME NEW p \in Procs, Moves(p) PROVE Calm'
    <2>1. (calm' => calm) /\ pc[p] # "idle" /\ \A q \in Procs \ {p} : pc'[q] = pc[q]
      <3>1. calm' => calm
        BY <1>1 DEF Moves, Store, Reread, ForgetDiscovered, ForgetRows, DropProbes, ClearBench,
           ForgetProbes, Ask, Aim, SetDiscovered, Save, Probe, Record, ReadProbes, SetConfirmed, CallEnds, history
      <3>2. pc[p] # "idle"
        BY <1>1 DEF Moves, Store, Reread, ForgetDiscovered, ForgetRows, DropProbes, ClearBench,
           ForgetProbes, Ask, Aim, SetDiscovered, Save, Probe, Record, ReadProbes, SetConfirmed, CallEnds
      <3>3. \E stage : pc' = [pc EXCEPT ![p] = stage]
        BY <1>1 DEF Moves, Store, Reread, ForgetDiscovered, ForgetRows, DropProbes, ClearBench,
           ForgetProbes, Ask, Aim, SetDiscovered, Save, Probe, Record, ReadProbes, SetConfirmed, CallEnds,
           Settles, Recorded, Goes, Ends
      <3> QED BY <3>1, <3>2, <3>3 DEF TypeOK
    <2>2. calm' => calm /\ Working(p) /\ \A q \in Procs \ {p} : pc[q] = "idle"
      BY <2>1 DEF Calm
    <2> QED BY <1>1, <2>1, <2>2, MovesStand, OnlyOne
  <1>2. ASSUME NEW p \in Procs, Starting(p) \/ StartSweep(p) PROVE Calm'
    <2>1. PICK o, k, l, stage : Begins(p, o, k, l, stage)
      BY <1>2 DEF Starting, SetKey, DeleteKey, Refresh, Call, StartSweep
    <2>2. (calm' => calm /\ Busy = {}) /\ \A q \in Procs \ {p} : pc'[q] = pc[q]
      BY <2>1 DEF Begins, TypeOK
    <2>3. calm' => Agreed /\ Fresh /\ \A q \in Procs : pc[q] = "idle"
      BY <2>2 DEF Calm, Busy
    <2> QED BY <1>2, <2>2, <2>3, StartStands, OnlyOne
  <1>3. ASSUME NEW p \in Procs, Fails(p) \/ CutShort(p) PROVE Calm'
    BY <1>3 DEF Fails, CutShort, Calm
  <1>4. ASSUME NEW lost, Restart(lost) PROVE Calm'
    <2> SUFFICES ASSUME calm' PROVE Calm'
      BY DEF Calm
    <2>1. calm /\ Busy = {} /\ lost = {}
      BY <1>4 DEF Restart
    <2>2. Agreed /\ Fresh
      BY <2>1 DEF Calm, Busy
    <2>3. listed' = rows /\ bench' = {} /\ UNCHANGED <<key, rows, probes, under>>
          /\ \A p \in Procs : pc'[p] = "idle"
      BY <1>4, <2>1 DEF Restart, Remembered, tables
    <2>4. Agreed' /\ Fresh'
      BY <2>2, <2>3 DEF Agreed, Fresh
    <2> QED BY <2>3, <2>4 DEF Calm
  <1> QED BY <1>1, <1>2, <1>3, <1>4, TimeCalm DEF Next

\* The invariant holds throughout.
LEMMA CalmInv == Spec => []Calm
  <1>1. Init => Calm
    BY DEF Init, Calm, Agreed, Fresh
  <1> QED BY TypeCorrect, NextCalm, <1>1, PTL DEF Spec

\* Operations that neither overlap nor fail leave the catalogue and the database
\* in agreement, and nothing of a deleted key's models in either
\* (RefreshProvider, AdoptModels, DeleteProviderKey).
THEOREM NothingDriftsApart == Spec => []NothingDrifts
  <1>1. Calm => NothingDrifts
    BY DEF Calm, Busy, Agreed, NothingDrifts
  <1> QED BY CalmInv, <1>1, PTL

\* A new key, once in place, has none of the old key's refusals or probe results
\* against it (adminSetProviderKey: ClearBench and ForgetProbes).
THEOREM NewKeysStartClean == Spec => []NewKeyStartsClean
  <1>1. Calm => NewKeyStartsClean
    BY DEF Calm, Busy, Fresh, NewKeyStartsClean
  <1> QED BY CalmInv, <1>1, PTL
=============================================================================
