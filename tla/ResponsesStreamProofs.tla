----------------------- MODULE ResponsesStreamProofs -----------------------
(***************************************************************************)
(* What is proved of the streams of the Responses API, for any dialects,   *)
(* any number of candidates, fragments, calls and blocks, for every single *)
(* stream (Spec) and for every client that asks again and again            *)
(* (AgentSpec):                                                            *)
(*                                                                         *)
(*   Framed                the events of a response are framed             *)
(*   DeltasAreWhatWasSaid  the deltas are what the provider said           *)
(*   StreamedAsWhole       response.completed is what not streaming gives  *)
(*                                                                         *)
(* Framed speaks of the log of events.  LogOK is the part of it that can   *)
(* be kept one event at a time; the steps send up to three, so each is     *)
(* taken as that many pushes.  StreamOK ties the log to responsesStream's  *)
(* own bookkeeping: which item is whose, which are closed, and where       *)
(* finish is.  LogSays, SaidOK, DecoderOK and FinishOK add what the log,   *)
(* the chunks still to be consumed, the decoder and the output say.        *)
(***************************************************************************)
EXTENDS AgentTurns, FiniteSetTheorems, WellFoundedInduction, NaturalsInduction, TLAPS

\* A sequence, of whatever.
IsSeq(s) == Len(s) \in Nat /\ s = [i \in 1..Len(s) |-> s[i]]

\* What belongs to one item.
Inner == {"text_delta", "args_delta", "text_done", "args_done", "item_done"}

\* Where items are added, of them those before a place, and the items done.
AddsOf(L) == {i \in 1..Len(L) : L[i].kind \in Adds}
Before(L, i) == {j \in AddsOf(L) : j < i}
DoneOf(L) == {L[i].at : i \in {k \in 1..Len(L) : L[k].kind = "item_done"}}

\* The parts of Framed that speak of the log alone: its numbers,
Numbered(L) == IsSeq(L) /\ \A i \in 1..Len(L) : L[i].n = i - 1

\* its opening pair,
OpenedOnce(L) ==
    /\ Len(L) # 1
    /\ \A i \in 1..Len(L) : /\ L[i].kind = "created" <=> i = 1
                            /\ L[i].kind = "in_progress" <=> i = 2

\* its m items,
InOrder(L, m) ==
    /\ m \in Nat /\ Cardinality(AddsOf(L)) = m
    /\ \A i \in AddsOf(L) : /\ L[i].at = Cardinality(Before(L, i))
                            /\ L[i].at \in 0..(m - 1)
    /\ \A x \in 0..(m - 1) : \E i \in AddsOf(L) : L[i].at = x

\* what belongs to them,
Inside(L) ==
    \A i \in 1..Len(L) : L[i].kind \in Inner =>
        /\ \E j \in AddsOf(L) : j < i /\ L[j].at = L[i].at
        /\ \A j \in 1..Len(L) : L[j].kind = "item_done" /\ L[j].at = L[i].at => j >= i

\* and its end.
EndsLast(L) == \A i \in 1..Len(L) : L[i].kind \in Terminal => i = Len(L)

\* A log that has not ended.
Live(L) == \A i \in 1..Len(L) : L[i].kind \notin Terminal

LogOK(L, m) == Numbered(L) /\ OpenedOnce(L) /\ InOrder(L, m) /\ Inside(L) /\ EndsLast(L)

\* M is L with one event more.
Pushed(L, M, kind, at) ==
    /\ IsSeq(L) /\ IsSeq(M) /\ Len(M) = Len(L) + 1
    /\ \A i \in 1..Len(L) : M[i] = L[i]
    /\ M[Len(M)].kind = kind /\ M[Len(M)].at = at /\ M[Len(M)].n = Len(L)

\* One event more is numbered on.
LEMMA PushedNumbered ==
    ASSUME NEW L, NEW M, NEW kind, NEW at, Pushed(L, M, kind, at), Numbered(L)
    PROVE  Numbered(M)
BY DEF Numbered, Pushed, IsSeq

\* It does not open the response again.
LEMMA PushedOpened ==
    ASSUME NEW L, NEW M, NEW kind, NEW at, Pushed(L, M, kind, at), OpenedOnce(L),
           Len(L) > 0, kind \notin {"created", "in_progress"}
    PROVE  OpenedOnce(M)
<1>1. Len(L) \in Nat /\ Len(L) > 1 /\ Len(M) = Len(L) + 1
  BY DEF Pushed, IsSeq, OpenedOnce
<1>2. ASSUME NEW i \in 1..Len(M)
      PROVE  (M[i].kind = "created" <=> i = 1) /\ (M[i].kind = "in_progress" <=> i = 2)
  <2>1. CASE i \in 1..Len(L)
    <3>1. M[i] = L[i]
      BY <2>1 DEF Pushed
    <3> QED BY <2>1, <3>1 DEF OpenedOnce
  <2>2. CASE i = Len(M)
    BY <2>2, <1>1 DEF Pushed
  <2> QED BY <1>1, <2>1, <2>2
<1> QED BY <1>1, <1>2 DEF OpenedOnce

\* It may end the response.
LEMMA PushedEnds ==
    ASSUME NEW L, NEW M, NEW kind, NEW at, Pushed(L, M, kind, at), Live(L)
    PROVE  EndsLast(M) /\ (kind \notin Terminal => Live(M))
<1>1. Len(L) \in Nat /\ Len(M) = Len(L) + 1
  BY DEF Pushed, IsSeq
<1>2. \A i \in 1..Len(M) : i # Len(M) => M[i].kind \notin Terminal
  <2> TAKE i \in 1..Len(M)
  <2> HAVE i # Len(M)
  <2>1. i \in 1..Len(L)
    BY <1>1
  <2>2. M[i] = L[i]
    BY <2>1 DEF Pushed
  <2> QED BY <2>1, <2>2 DEF Live
<1>3. M[Len(M)].kind = kind
  BY DEF Pushed
<1> QED BY <1>1, <1>2, <1>3 DEF EndsLast, Live

\* The items can be counted.
LEMMA AddsFinite ==
    ASSUME NEW L, Len(L) \in Nat
    PROVE  IsFiniteSet(AddsOf(L)) /\ Cardinality(AddsOf(L)) \in Nat
<1>1. IsFiniteSet(1..Len(L))
  BY FS_Interval
<1>2. AddsOf(L) \in SUBSET (1..Len(L))
  BY DEF AddsOf
<1> QED BY <1>1, <1>2, FS_Subset, FS_CardinalityType

\* One event adds at most one.
LEMMA PushedAdds ==
    ASSUME NEW L, NEW M, NEW kind, NEW at, Pushed(L, M, kind, at)
    PROVE  AddsOf(M) = IF kind \in Adds THEN AddsOf(L) \cup {Len(M)} ELSE AddsOf(L)
<1>1. Len(L) \in Nat /\ Len(M) = Len(L) + 1 /\ M[Len(M)].kind = kind
  BY DEF Pushed, IsSeq
<1>2. \A i \in 1..Len(L) : M[i] = L[i]
  BY DEF Pushed
<1> QED BY <1>1, <1>2 DEF AddsOf

\* An item is added.
LEMMA PushedItem ==
    ASSUME NEW L, NEW M, NEW kind \in Adds, NEW m, Pushed(L, M, kind, m), InOrder(L, m)
    PROVE  InOrder(M, m + 1)
<1>1. /\ Len(L) \in Nat /\ Len(M) = Len(L) + 1 /\ M[Len(M)].at = m
      /\ \A i \in 1..Len(L) : M[i] = L[i]
  BY DEF Pushed, IsSeq
<1>2. AddsOf(M) = AddsOf(L) \cup {Len(M)}
  BY PushedAdds
<1>3. AddsOf(L) \subseteq 1..Len(L) /\ Len(M) \notin AddsOf(L)
  BY <1>1 DEF AddsOf
<1>4. m \in Nat /\ Cardinality(AddsOf(L)) = m
  BY DEF InOrder
<1>5. Cardinality(AddsOf(M)) = m + 1
  <2>1. IsFiniteSet(AddsOf(L))
    BY <1>1, AddsFinite
  <2>2. Cardinality(AddsOf(L) \cup {Len(M)}) = Cardinality(AddsOf(L)) + 1
    BY <1>3, <2>1, FS_AddElement
  <2> QED BY <1>2, <1>4, <2>2
<1>6. ASSUME NEW i \in AddsOf(L)
      PROVE  /\ M[i].at = Cardinality(Before(M, i))
             /\ M[i].at \in 0..m
  <2>1. Before(M, i) = Before(L, i)
    BY <1>1, <1>2, <1>3 DEF Before
  <2>2. M[i] = L[i]
    BY <1>1, <1>3
  <2>3. L[i].at = Cardinality(Before(L, i)) /\ L[i].at \in 0..(m - 1)
    BY DEF InOrder
  <2> QED BY <1>4, <2>1, <2>2, <2>3
<1>7. Before(M, Len(M)) = AddsOf(L)
  BY <1>1, <1>2, <1>3 DEF Before
<1>8. \A x \in 0..m : \E i \in AddsOf(M) : M[i].at = x
  <2> TAKE x \in 0..m
  <2>1. CASE x = m
    BY <2>1, <1>1, <1>2
  <2>2. CASE x # m
    <3>1. x \in 0..(m - 1)
      BY <2>2, <1>4
    <3>2. PICK i \in AddsOf(L) : L[i].at = x
      BY <3>1 DEF InOrder
    <3>3. M[i] = L[i]
      BY <1>1, <1>3
    <3> QED BY <1>2, <3>2, <3>3
  <2> QED BY <2>1, <2>2
<1>9. \A i \in AddsOf(M) : /\ M[i].at = Cardinality(Before(M, i))
                           /\ M[i].at \in 0..m
  <2> TAKE i \in AddsOf(M)
  <2>1. CASE i = Len(M)
    BY <1>1, <1>4, <1>7, <2>1
  <2>2. CASE i # Len(M)
    BY <1>2, <1>6, <2>2
  <2> QED BY <2>1, <2>2
<1>10. m + 1 \in Nat /\ m + 1 - 1 = m
  BY <1>4
<1> QED BY <1>5, <1>8, <1>9, <1>10 DEF InOrder

\* Any other event leaves the items as they are.
LEMMA PushedOther ==
    ASSUME NEW L, NEW M, NEW kind, NEW at, NEW m, kind \notin Adds,
           Pushed(L, M, kind, at), InOrder(L, m)
    PROVE  InOrder(M, m)
<1>1. AddsOf(M) = AddsOf(L)
  BY PushedAdds
<1>2. \A i \in AddsOf(L) : M[i] = L[i]
  BY DEF AddsOf, Pushed
<1>3. \A i : Before(M, i) = Before(L, i)
  BY <1>1 DEF Before
<1> QED BY <1>1, <1>2, <1>3 DEF InOrder

\* One event closes at most one.
LEMMA PushedDone ==
    ASSUME NEW L, NEW M, NEW kind, NEW at, Pushed(L, M, kind, at)
    PROVE  DoneOf(M) = IF kind = "item_done" THEN DoneOf(L) \cup {at} ELSE DoneOf(L)
<1>1. Len(L) \in Nat /\ Len(M) = Len(L) + 1 /\ M[Len(M)].kind = kind /\ M[Len(M)].at = at
  BY DEF Pushed, IsSeq
<1>2. \A i \in 1..Len(L) : M[i] = L[i]
  BY DEF Pushed
<1>3. ASSUME NEW x PROVE x \in DoneOf(L) <=> \E i \in 1..Len(L) : L[i].kind = "item_done" /\ x = L[i].at
  BY DEF DoneOf
<1>4. ASSUME NEW x PROVE x \in DoneOf(M) <=> \E i \in 1..Len(M) : M[i].kind = "item_done" /\ x = M[i].at
  BY DEF DoneOf
<1>5. ASSUME NEW x PROVE x \in DoneOf(M) <=> x \in DoneOf(L) \/ (kind = "item_done" /\ x = at)
  BY <1>1, <1>2, <1>3, <1>4
<1> QED BY <1>5

\* What belongs to an item comes after the item was added and before it is done.
LEMMA PushedInside ==
    ASSUME NEW L, NEW M, NEW kind, NEW at, NEW m, Pushed(L, M, kind, at),
           InOrder(L, m), Inside(L), kind \in Inner => at \in 0..(m - 1) /\ at \notin DoneOf(L)
    PROVE  Inside(M)
<1>1. /\ Len(L) \in Nat /\ Len(M) = Len(L) + 1
      /\ M[Len(M)].kind = kind /\ M[Len(M)].at = at
      /\ \A i \in 1..Len(L) : M[i] = L[i]
  BY DEF Pushed, IsSeq
<1>2. AddsOf(L) \subseteq AddsOf(M) /\ AddsOf(L) \subseteq 1..Len(L)
  BY PushedAdds DEF AddsOf
<1>3. ASSUME NEW i \in 1..Len(M), M[i].kind \in Inner
      PROVE  /\ \E j \in AddsOf(M) : j < i /\ M[j].at = M[i].at
             /\ \A j \in 1..Len(M) : M[j].kind = "item_done" /\ M[j].at = M[i].at => j >= i
  <2>1. CASE i \in 1..Len(L)
    <3>1. M[i] = L[i]
      BY <1>1, <2>1
    <3>2. PICK j \in AddsOf(L) : j < i /\ L[j].at = L[i].at
      BY <1>3, <2>1, <3>1 DEF Inside
    <3>3. M[j] = L[j]
      BY <1>1, <1>2
    <3>4. \A k \in 1..Len(L) : M[k].kind = "item_done" /\ M[k].at = M[i].at => k >= i
      BY <1>1, <1>3, <2>1, <3>1 DEF Inside
    <3>5. \A k \in 1..Len(M) : M[k].kind = "item_done" /\ M[k].at = M[i].at => k >= i
      BY <1>1, <2>1, <3>4
    <3> QED BY <1>2, <3>1, <3>2, <3>3, <3>5
  <2>2. CASE i = Len(M)
    <3>1. kind \in Inner /\ M[i].at = at
      BY <1>1, <1>3, <2>2
    <3>2. PICK j \in AddsOf(L) : L[j].at = at
      BY <3>1 DEF InOrder
    <3>3. M[j] = L[j] /\ j < i
      BY <1>1, <1>2, <2>2
    <3>4. \A k \in 1..Len(L) : ~(L[k].kind = "item_done" /\ L[k].at = at)
      BY <3>1 DEF DoneOf
    <3>5. \A k \in 1..Len(M) : M[k].kind = "item_done" /\ M[k].at = M[i].at => k >= i
      BY <1>1, <2>2, <3>1, <3>4
    <3> QED BY <1>2, <3>1, <3>2, <3>3, <3>5
  <2> QED BY <1>1, <2>1, <2>2
<1> QED BY <1>3 DEF Inside

\* One more event of a log that is open and not over.
LEMMA PushedOK ==
    ASSUME NEW L, NEW M, NEW kind, NEW at, NEW m, Pushed(L, M, kind, at),
           LogOK(L, m), Live(L), Len(L) > 0, kind \notin {"created", "in_progress"},
           kind \in Adds => at = m,
           kind \in Inner => at \in 0..(m - 1) /\ at \notin DoneOf(L)
    PROVE  /\ LogOK(M, IF kind \in Adds THEN m + 1 ELSE m)
           /\ Len(M) > 0 /\ (kind \notin Terminal => Live(M))
           /\ DoneOf(M) = IF kind = "item_done" THEN DoneOf(L) \cup {at} ELSE DoneOf(L)
<1>1. Numbered(M) /\ OpenedOnce(M) /\ EndsLast(M) /\ (kind \notin Terminal => Live(M))
  BY PushedNumbered, PushedOpened, PushedEnds DEF LogOK
<1>2. Inside(M)
  BY PushedInside DEF LogOK
<1>3. InOrder(M, IF kind \in Adds THEN m + 1 ELSE m)
  <2>1. InOrder(L, m)
    BY DEF LogOK
  <2>2. CASE kind \in Adds
    BY <2>1, <2>2, PushedItem
  <2>3. CASE kind \notin Adds
    BY <2>1, <2>3, PushedOther
  <2> QED BY <2>2, <2>3
<1>4. Len(M) > 0
  BY DEF Pushed, IsSeq
<1> QED BY <1>1, <1>2, <1>3, <1>4, PushedDone DEF LogOK

\* The opening pair.
LEMMA OpenedOK ==
    ASSUME NEW M, IsSeq(M), Len(M) = 2, M[1].kind = "created", M[2].kind = "in_progress",
           M[1].n = 0, M[2].n = 1
    PROVE  LogOK(M, 0) /\ Live(M) /\ DoneOf(M) = {}
<1>1. AddsOf(M) = {}
  BY DEF AddsOf, Adds
<1>2. InOrder(M, 0)
  BY <1>1, FS_EmptySet DEF InOrder
<1>3. Numbered(M) /\ OpenedOnce(M)
  BY DEF Numbered, OpenedOnce
<1>4. Inside(M) /\ EndsLast(M) /\ Live(M)
  BY DEF Inside, EndsLast, Live, Inner, Terminal
<1>5. DoneOf(M) = {}
  BY DEF DoneOf
<1> QED BY <1>2, <1>3, <1>4, <1>5 DEF LogOK

\* The client has received nothing.
LEMMA EmptyOK == LogOK(<<>>, 0) /\ Live(<<>>) /\ DoneOf(<<>>) = {} /\ IsSeq(<<>>) /\ Len(<<>>) = 0
<1>1. IsSeq(<<>>) /\ Len(<<>>) = 0
  BY DEF IsSeq
<1>2. AddsOf(<<>>) = {} /\ DoneOf(<<>>) = {}
  BY DEF AddsOf, DoneOf
<1>3. InOrder(<<>>, 0)
  BY <1>2, FS_EmptySet DEF InOrder
<1> QED BY <1>1, <1>2, <1>3 DEF LogOK, Numbered, OpenedOnce, Inside, EndsLast, Live

\* Where streamResponses can be.
Phases == {"dialling", "reading", "opening", "closing_text", "closing_calls", "completed",
           "failing", "failed", "refused"}

\* Every item but the text's belongs to one call, and every call has one.
ItemsOK ==
    /\ textIdx = NoItem \/ textIdx \in 0..(nextIdx - 1)
    /\ \A k \in DOMAIN tools : /\ tools[k] = [s \in {"idx", "head", "args"} |-> tools[k][s]]
                               /\ tools[k].idx \in 0..(nextIdx - 1)
                               /\ tools[k].idx # textIdx
    /\ \A k, l \in DOMAIN tools : tools[k].idx = tools[l].idx => k = l
    /\ \A x \in 0..(nextIdx - 1) : x = textIdx \/ \E k \in DOMAIN tools : tools[k].idx = x

\* toolOrder lists the calls, each once.
OrderOK ==
    /\ IsSeq(toolOrder) /\ IsSeq(output)
    /\ \A i \in 1..Len(toolOrder) : toolOrder[i] \in DOMAIN tools
    /\ \A i, j \in 1..Len(toolOrder) : toolOrder[i] = toolOrder[j] => i = j
    /\ \A k \in DOMAIN tools : \E i \in 1..Len(toolOrder) : toolOrder[i] = k

\* The items finish has closed so far.
ClosedItems ==
    {x \in {textIdx} : x # NoItem} \cup {tools[toolOrder[k]].idx : k \in 1..Closed}

\* The items done are the ones finish has closed.
DoneOK ==
    /\ phase \notin {"closing_calls", "completed"} => Len(output) = 0 /\ DoneOf(events) = {}
    /\ phase = "closing_text" => textIdx # NoItem
    /\ phase = "closing_calls" => Closed \in 0..Len(toolOrder) /\ DoneOf(events) = ClosedItems
    /\ phase = "completed" => DoneOf(events) = 0..(nextIdx - 1)

\* What the phase says of the log.
PhaseOK ==
    /\ phase \in Phases
    /\ started => Len(events) > 0
    /\ ~started => Len(events) = 0
    /\ phase \in {"closing_text", "closing_calls", "failing", "completed", "failed"} => started
    /\ phase = "refused" => ~started
    /\ ~started /\ pending # <<>> => Head(pending).kind = "begin"
    /\ phase \notin Terminal => Live(events)
    /\ phase \in Terminal => events[Len(events)].kind = phase

\* The inductive invariant.
StreamOK ==
    /\ LogOK(events, nextIdx) /\ seq = Len(events)
    /\ ItemsOK /\ OrderOK /\ DoneOK /\ PhaseOK

\* What Seq holds is a sequence.
LEMMA SeqIsSeq == ASSUME NEW S, NEW s \in Seq(S) PROVE IsSeq(s)
BY DEF IsSeq

\* One sequence after another.
LEMMA Joined ==
    ASSUME NEW a, NEW b, IsSeq(a), IsSeq(b)
    PROVE  /\ IsSeq(a \o b) /\ Len(a \o b) = Len(a) + Len(b)
           /\ \A i \in 1..Len(a) : (a \o b)[i] = a[i]
           /\ \A i \in 1..Len(b) : (a \o b)[Len(a) + i] = b[i]
<1> DEFINE S == {a[i] : i \in 1..Len(a)} \cup {b[i] : i \in 1..Len(b)}
<1>1. a \in [1..Len(a) -> S] /\ b \in [1..Len(b) -> S] /\ Len(a) \in Nat /\ Len(b) \in Nat
  BY DEF IsSeq
<1> HIDE DEF S
<1>2. a \in Seq(S) /\ b \in Seq(S)
  BY <1>1
<1>3. a \o b \in Seq(S) /\ Len(a \o b) = Len(a) + Len(b)
  BY <1>2
<1>4. \A i \in 1..Len(a) : (a \o b)[i] = a[i]
  BY <1>2
<1>5. \A i \in 1..Len(b) : (a \o b)[Len(a) + i] = b[i]
  BY <1>2
<1>6. IsSeq(a \o b)
  BY <1>3, SeqIsSeq
<1> QED BY <1>3, <1>4, <1>5, <1>6

\* send appends its events and numbers them on.
LEMMA Sent ==
    ASSUME IsSeq(events), NEW es, IsSeq(es), Send(es), seq = Len(events)
    PROVE  /\ IsSeq(events') /\ Len(events') = Len(events) + Len(es)
           /\ seq' = Len(events')
           /\ \A i \in 1..Len(events) : events'[i] = events[i]
           /\ \A i \in 1..Len(es) :
                 /\ events'[Len(events) + i].kind = es[i].kind
                 /\ events'[Len(events) + i].at = es[i].at
                 /\ events'[Len(events) + i].n = Len(events) + i - 1
<1> DEFINE new == [i \in DOMAIN es |-> [kind |-> es[i].kind, at |-> es[i].at,
                               data |-> es[i].data, n |-> seq + i - 1]]
<1> DEFINE S == {events[i] : i \in 1..Len(events)} \cup {new[i] : i \in 1..Len(es)}
<1>1. DOMAIN es = 1..Len(es) /\ Len(es) \in Nat /\ Len(events) \in Nat
  BY DEF IsSeq
<1>2. events \in Seq(S)
  <2>1. events \in [1..Len(events) -> S]
    BY DEF IsSeq
  <2> QED BY <2>1, <1>1
<1>3. new \in Seq(S) /\ Len(new) = Len(es)
  <2>1. new \in [1..Len(es) -> S]
    BY <1>1
  <2> HIDE DEF S, new
  <2> QED BY <2>1, <1>1
<1>4. events' = events \o new /\ seq' = seq + Len(es)
  BY DEF Send
<1>5. \A i \in 1..Len(es) : new[i] = [kind |-> es[i].kind, at |-> es[i].at,
                               data |-> es[i].data, n |-> seq + i - 1]
  BY <1>1
<1> HIDE DEF S, new
<1>6. events' \in Seq(S) /\ Len(events') = Len(events) + Len(es)
  <2>1. events \o new \in Seq(S) /\ Len(events \o new) = Len(events) + Len(new)
    BY <1>2, <1>3
  <2> QED BY <1>3, <1>4, <2>1
<1>7. \A i \in 1..Len(events) : events'[i] = events[i]
  <2>1. \A i \in 1..Len(events) : (events \o new)[i] = events[i]
    BY <1>1, <1>2, <1>3
  <2> QED BY <1>4, <2>1
<1>8. \A i \in 1..Len(es) : events'[Len(events) + i] = new[i]
  BY <1>1, <1>2, <1>3, <1>4
<1>9. IsSeq(events')
  BY <1>6 DEF IsSeq
<1>10. ASSUME NEW i \in 1..Len(es)
      PROVE  /\ events'[Len(events) + i].kind = es[i].kind
             /\ events'[Len(events) + i].at = es[i].at
             /\ events'[Len(events) + i].n = Len(events) + i - 1
  <2>1. events'[Len(events) + i] = [kind |-> es[i].kind, at |-> es[i].at,
                               data |-> es[i].data, n |-> seq + i - 1]
    BY <1>5, <1>8
  <2> QED BY <2>1
<1> QED BY <1>4, <1>6, <1>7, <1>9, <1>10


\* Short tuples are sequences.
LEMMA Tuples ==
    /\ IsSeq(<<>>) /\ Len(<<>>) = 0
    /\ \A a : IsSeq(<<a>>) /\ Len(<<a>>) = 1 /\ <<a>>[1] = a
    /\ \A a, b : IsSeq(<<a, b>>) /\ Len(<<a, b>>) = 2 /\ <<a, b>>[1] = a /\ <<a, b>>[2] = b
    /\ \A a, b, c : /\ IsSeq(<<a, b, c>>) /\ Len(<<a, b, c>>) = 3
                    /\ <<a, b, c>>[1] = a /\ <<a, b, c>>[2] = b /\ <<a, b, c>>[3] = c
BY DEF IsSeq

\* The first part of a log.
UpTo(L, n) == [i \in 1..n |-> L[i]]

LEMMA FirstPart ==
    ASSUME NEW L, IsSeq(L), NEW n \in 0..Len(L)
    PROVE  IsSeq(UpTo(L, n)) /\ Len(UpTo(L, n)) = n /\ \A i \in 1..n : UpTo(L, n)[i] = L[i]
<1> DEFINE M == UpTo(L, n)
<1> DEFINE S == {L[i] : i \in 1..n}
<1>1. n \in Nat /\ M \in [1..n -> S] /\ \A i \in 1..n : M[i] = L[i]
  BY DEF IsSeq, UpTo
<1>2. DOMAIN M = 1..n
  BY <1>1
<1>3. Len(M) = n
  <2> HIDE DEF M, S
  <2> QED BY <1>1
<1> QED BY <1>1, <1>2, <1>3 DEF IsSeq

\* Sending nothing,
LEMMA SentNone ==
    ASSUME IsSeq(events), seq = Len(events), Send(<<>>)
    PROVE  events' = events /\ seq' = seq
<1> DEFINE es == <<>>
<1>0. IsSeq(es) /\ Len(es) = 0 /\ Send(es)
  BY Tuples
<1> HIDE DEF es
<1>1. /\ IsSeq(events') /\ Len(events') = Len(events) /\ seq' = Len(events')
      /\ \A i \in 1..Len(events) : events'[i] = events[i]
  <2>1. /\ IsSeq(events') /\ Len(events') = Len(events) + Len(es) /\ seq' = Len(events')
        /\ \A i \in 1..Len(events) : events'[i] = events[i]
    BY <1>0, Sent
  <2> QED BY <1>0, <2>1 DEF IsSeq
<1>2. events' = events
  BY <1>1 DEF IsSeq
<1> QED BY <1>1, <1>2

\* one event,
LEMMA SentOne ==
    ASSUME NEW a, IsSeq(events), seq = Len(events), Send(<<a>>)
    PROVE  Pushed(events, events', a.kind, a.at) /\ seq' = Len(events')
<1>1. IsSeq(<<a>>) /\ Len(<<a>>) = 1 /\ <<a>>[1] = a
  BY Tuples
<1> DEFINE es == <<a>>
<1> HIDE DEF es
<1>2. IsSeq(es) /\ Len(es) = 1 /\ es[1] = a /\ Send(es)
  BY <1>1 DEF es
<1>3. /\ IsSeq(events') /\ Len(events') = Len(events) + 1 /\ seq' = Len(events')
      /\ \A i \in 1..Len(events) : events'[i] = events[i]
      /\ events'[Len(events) + 1].kind = a.kind
      /\ events'[Len(events) + 1].at = a.at
      /\ events'[Len(events) + 1].n = Len(events) + 1 - 1
  <2>1. /\ IsSeq(events') /\ Len(events') = Len(events) + 1 /\ seq' = Len(events')
        /\ \A i \in 1..Len(events) : events'[i] = events[i]
    BY <1>2, Sent
  <2>2. \A i \in 1..Len(es) :
           /\ events'[Len(events) + i].kind = es[i].kind
           /\ events'[Len(events) + i].at = es[i].at
           /\ events'[Len(events) + i].n = Len(events) + i - 1
    BY <1>2, Sent
  <2>3. 1 \in 1..Len(es)
    BY <1>2
  <2> QED BY <1>2, <2>1, <2>2, <2>3
<1> QED BY <1>3 DEF Pushed, IsSeq

\* two,
LEMMA SentTwo ==
    ASSUME NEW a, NEW b, IsSeq(events), seq = Len(events), Send(<<a, b>>)
    PROVE  /\ \E M : Pushed(events, M, a.kind, a.at) /\ Pushed(M, events', b.kind, b.at)
           /\ seq' = Len(events')
<1> DEFINE es == <<a, b>>
<1>1. IsSeq(es) /\ Len(es) = 2 /\ es[1] = a /\ es[2] = b /\ Send(es)
  BY Tuples
<1> HIDE DEF es
<1>2. /\ IsSeq(events') /\ Len(events') = Len(events) + 2 /\ seq' = Len(events')
      /\ \A i \in 1..Len(events) : events'[i] = events[i]
  BY <1>1, Sent
<1>3. /\ events'[Len(events) + 1].kind = a.kind
      /\ events'[Len(events) + 1].at = a.at
      /\ events'[Len(events) + 1].n = Len(events) + 1 - 1
      /\ events'[Len(events) + 2].kind = b.kind
      /\ events'[Len(events) + 2].at = b.at
      /\ events'[Len(events) + 2].n = Len(events) + 2 - 1
  <2>1. \A i \in 1..Len(es) :
           /\ events'[Len(events) + i].kind = es[i].kind
           /\ events'[Len(events) + i].at = es[i].at
           /\ events'[Len(events) + i].n = Len(events) + i - 1
    BY <1>1, Sent
  <2>2. 1 \in 1..Len(es) /\ 2 \in 1..Len(es) /\ Len(es) \in {2, 3}
    BY <1>1
  <2>3. Len(es) = 3 => 3 \in 1..Len(es)
    OBVIOUS
  <2> QED BY <1>1, <2>1, <2>2, <2>3
<1> DEFINE M == UpTo(events', Len(events) + 1)
<1>4. Len(events) \in Nat
  BY DEF IsSeq
<1>5. /\ IsSeq(M) /\ Len(M) = Len(events) + 1
      /\ \A i \in 1..(Len(events) + 1) : M[i] = events'[i]
  BY <1>2, <1>4, FirstPart
<1> HIDE DEF M
<1>6. Pushed(events, M, a.kind, a.at)
  BY <1>2, <1>3, <1>4, <1>5 DEF Pushed
<1>7. Pushed(M, events', b.kind, b.at)
  BY <1>2, <1>3, <1>4, <1>5 DEF Pushed
<1> QED BY <1>2, <1>6, <1>7

\* or three.
LEMMA SentThree ==
    ASSUME NEW a, NEW b, NEW c, IsSeq(events), seq = Len(events), Send(<<a, b, c>>)
    PROVE  /\ \E M, N : /\ Pushed(events, M, a.kind, a.at) /\ Pushed(M, N, b.kind, b.at)
                        /\ Pushed(N, events', c.kind, c.at)
           /\ seq' = Len(events')
<1> DEFINE es == <<a, b, c>>
<1>1. IsSeq(es) /\ Len(es) = 3 /\ es[1] = a /\ es[2] = b /\ es[3] = c /\ Send(es)
  BY Tuples
<1> HIDE DEF es
<1>2. /\ IsSeq(events') /\ Len(events') = Len(events) + 3 /\ seq' = Len(events')
      /\ \A i \in 1..Len(events) : events'[i] = events[i]
  BY <1>1, Sent
<1>3. /\ events'[Len(events) + 1].kind = a.kind
      /\ events'[Len(events) + 1].at = a.at
      /\ events'[Len(events) + 1].n = Len(events) + 1 - 1
      /\ events'[Len(events) + 2].kind = b.kind
      /\ events'[Len(events) + 2].at = b.at
      /\ events'[Len(events) + 2].n = Len(events) + 2 - 1
      /\ events'[Len(events) + 3].kind = c.kind
      /\ events'[Len(events) + 3].at = c.at
      /\ events'[Len(events) + 3].n = Len(events) + 3 - 1
  <2>1. \A i \in 1..Len(es) :
           /\ events'[Len(events) + i].kind = es[i].kind
           /\ events'[Len(events) + i].at = es[i].at
           /\ events'[Len(events) + i].n = Len(events) + i - 1
    BY <1>1, Sent
  <2>2. 1 \in 1..Len(es) /\ 2 \in 1..Len(es) /\ Len(es) \in {2, 3}
    BY <1>1
  <2>3. Len(es) = 3 => 3 \in 1..Len(es)
    OBVIOUS
  <2> QED BY <1>1, <2>1, <2>2, <2>3
<1> DEFINE M == UpTo(events', Len(events) + 1)
<1> DEFINE N == UpTo(events', Len(events) + 2)
<1>4. Len(events) \in Nat
  BY DEF IsSeq
<1>5. /\ IsSeq(M) /\ Len(M) = Len(events) + 1
      /\ \A i \in 1..(Len(events) + 1) : M[i] = events'[i]
  BY <1>2, <1>4, FirstPart
<1>6. /\ IsSeq(N) /\ Len(N) = Len(events) + 2
      /\ \A i \in 1..(Len(events) + 2) : N[i] = events'[i]
  BY <1>2, <1>4, FirstPart
<1> HIDE DEF M, N
<1>7. Pushed(events, M, a.kind, a.at)
  BY <1>2, <1>3, <1>4, <1>5 DEF Pushed
<1>8. Pushed(M, N, b.kind, b.at)
  BY <1>3, <1>4, <1>5, <1>6 DEF Pushed
<1>9. Pushed(N, events', c.kind, c.at)
  BY <1>2, <1>3, <1>4, <1>6 DEF Pushed
<1> QED BY <1>2, <1>7, <1>8, <1>9

\* A fragment sequence of a delta.
LEMMA PiecesAreSeqs == \A d \in Pieces : IsSeq(d) /\ DOMAIN d = 1..Len(d)
<1> SUFFICES ASSUME NEW d \in Pieces PROVE IsSeq(d)
  BY DEF IsSeq
<1>1. d = <<>> \/ (\E a \in Fragment : d = <<a>>) \/ (\E a, b \in Fragment : d = <<a, b>>)
  BY DEF Pieces
<1> QED BY <1>1, Tuples

\* A function on the places of a sequence is a sequence.
LEMMA MappedIsSeq ==
    ASSUME NEW n \in Nat, NEW f, f = [i \in 1..n |-> f[i]]
    PROVE  IsSeq(f) /\ Len(f) = n
<1> DEFINE S == {f[i] : i \in 1..n}
<1>1. f \in [1..n -> S]
  OBVIOUS
<1> HIDE DEF S
<1>2. Len(f) = n
  BY <1>1
<1> QED BY <1>2 DEF IsSeq

\* What begins with begin.
Begins(s) == s # <<>> => Head(s).kind = "begin"

\* A chunk begins with begin.
LEMMA BeginFirst ==
    ASSUME NEW s, IsSeq(s)
    PROVE  Begins(<<Begin>> \o s) /\ IsSeq(<<Begin>> \o s)
<1> DEFINE b == <<Begin>>
<1>1. IsSeq(b) /\ Len(b) = 1 /\ b[1] = Begin
  BY Tuples
<1> HIDE DEF b
<1>2. IsSeq(b \o s) /\ (b \o s)[1] = Begin
  <2>1. IsSeq(b \o s) /\ \A i \in 1..Len(b) : (b \o s)[i] = b[i]
    BY <1>1, Joined
  <2>2. 1 \in 1..Len(b)
    BY <1>1
  <2> QED BY <1>1, <2>1, <2>2
<1>3. Begins(b \o s)
  BY <1>2 DEF Begins, Begin
<1> QED BY <1>2, <1>3 DEF b

\* So does a chunk with text and fragments of calls,
LEMMA ChunkBegins ==
    ASSUME NEW t, NEW f, IsSeq(f)
    PROVE  Begins(<<Begin>> \o TextPieces(t) \o f)
<1> DEFINE b == <<Begin>> \o TextPieces(t)
<1>1. IsSeq(TextPieces(t))
  BY Tuples DEF TextPieces
<1>2. IsSeq(b) /\ b[1] = Begin /\ Len(b) = 1 + Len(TextPieces(t))
  <2> DEFINE c == <<Begin>>
  <2>1. IsSeq(c) /\ Len(c) = 1 /\ c[1] = Begin
    BY Tuples
  <2> HIDE DEF c
  <2>2. /\ IsSeq(c \o TextPieces(t)) /\ Len(c \o TextPieces(t)) = Len(c) + Len(TextPieces(t))
        /\ \A i \in 1..Len(c) : (c \o TextPieces(t))[i] = c[i]
    BY <1>1, <2>1, Joined
  <2>3. 1 \in 1..Len(c)
    BY <2>1
  <2>4. /\ IsSeq(c \o TextPieces(t)) /\ Len(c \o TextPieces(t)) = 1 + Len(TextPieces(t))
        /\ (c \o TextPieces(t))[1] = Begin
    BY <2>1, <2>2, <2>3
  <2> QED BY <2>4 DEF c
<1>3. 1 \in 1..Len(b)
  BY <1>1, <1>2 DEF IsSeq
<1> HIDE DEF b
<1>4. IsSeq(b \o f) /\ (b \o f)[1] = Begin
  BY <1>2, <1>3, Joined
<1>5. Begins(b \o f)
  BY <1>4 DEF Begins, Begin
<1> QED BY <1>5 DEF b

\* and what emitDelta relays.
LEMMA DeltaBegins ==
    ASSUME NEW p, EmitDelta(p)
    PROVE  Begins(pending')
<1>1. pending' = <<Begin>> \o <<Begin, p>> \/ pending' = <<>> \o <<Begin, p>>
  BY DEF EmitDelta
<1>2. Begins(<<Begin>> \o <<Begin, p>>)
  BY BeginFirst, Tuples
<1>3. <<>> \o <<Begin, p>> = <<Begin, p>>
  OBVIOUS
<1>4. Begins(<<Begin, p>>)
  BY DEF Begins, Begin
<1> QED BY <1>1, <1>2, <1>3, <1>4

\* Every chunk begins the response before it adds to it.
LEMMA SpeakBegins == ASSUME Speak PROVE Begins(pending')
<1>1. ASSUME NEW t \in {0, 1}, NEW d \in Pieces, OpenAIChunk(t, d) PROVE Begins(pending')
  <2> DEFINE f == [i \in DOMAIN d |->
            ToolPiece(IF adapter = "openai" THEN d[i].call - 1 ELSE NoIndex,
                      i - 1, Brings(d[i]), Number(t, d, i))]
  <2>1. DOMAIN d = 1..Len(d) /\ Len(d) \in Nat
    BY PiecesAreSeqs DEF IsSeq
  <2>2. IsSeq(f)
    BY <2>1, MappedIsSeq
  <2>3. pending' = <<Begin>> \o TextPieces(t) \o f
    BY <1>1 DEF OpenAIChunk
  <2> HIDE DEF f
  <2> QED BY <2>2, <2>3, ChunkBegins
<1>2. ASSUME NEW t \in {0, 1}, NEW d \in Pieces, GoogleChunk(t, d) PROVE Begins(pending')
  <2> DEFINE f == [i \in DOMAIN d |->
            ToolPiece(calls + i - 1, i - 1, Brings(d[i]), Number(t, d, i))]
  <2>1. DOMAIN d = 1..Len(d) /\ Len(d) \in Nat
    BY PiecesAreSeqs DEF IsSeq
  <2>2. IsSeq(f)
    BY <2>1, MappedIsSeq
  <2>3. pending' = <<Begin>> \o TextPieces(t) \o f
    BY <1>2 DEF GoogleChunk
  <2> HIDE DEF f
  <2> QED BY <2>2, <2>3, ChunkBegins
<1>3. CASE TextBlock
  BY <1>3 DEF Speak, Reading, TextBlock, Begins
<1>4. CASE ToolBlock
  BY <1>4, DeltaBegins DEF ToolBlock
<1>5. CASE BlockDelta
  <2>1. \E p : EmitDelta(p)
    BY <1>5 DEF BlockDelta
  <2> QED BY <2>1, DeltaBegins
<1>6. CASE MessageDelta
  BY <1>6 DEF MessageDelta, Begins, Begin
<1> QED BY <1>1, <1>2, <1>3, <1>4, <1>5, <1>6 DEF Speak

\* A step that sends nothing and touches no item.
LEMMA QuietOK ==
    ASSUME StreamOK, UNCHANGED <<itemVars, seq, events>>, PhaseOK',
           phase \in {"dialling", "reading"},
           phase' \in {"dialling", "reading", "opening", "failing", "refused"}
    PROVE  StreamOK'
<1>1. UNCHANGED <<textIdx, text, tools, toolOrder, nextIdx, output, seq, events>>
  BY DEF itemVars
<1>2. LogOK(events', nextIdx') /\ seq' = Len(events')
  BY <1>1 DEF StreamOK
<1>3. ItemsOK'
  BY <1>1 DEF StreamOK, ItemsOK
<1>4. OrderOK'
  BY <1>1 DEF StreamOK, OrderOK, IsSeq
<1>5. DoneOK'
  <2>1. Len(output) = 0 /\ DoneOf(events) = {}
    BY DEF StreamOK, DoneOK
  <2>2. Len(output') = 0 /\ DoneOf(events') = {}
    BY <1>1, <2>1
  <2> QED BY <2>2 DEF DoneOK, DoneOf
<1> QED BY <1>2, <1>3, <1>4, <1>5 DEF StreamOK, LogOK, Numbered, OpenedOnce, InOrder, Inside, EndsLast, IsSeq, AddsOf, Before, DoneOf

\* The provider, its adapter and the failover send nothing to the client.
LEMMA QuietSteps ==
    ASSUME StreamOK, Dial \/ Speak \/ UpstreamEnds \/ UpstreamFails
    PROVE  StreamOK'
<1>1. /\ UNCHANGED <<itemVars, seq, events, started>>
      /\ phase \in {"dialling", "reading"}
  BY DEF Dial, Speak, UpstreamEnds, UpstreamFails, Reading
<1>2. phase' \in {"dialling", "reading", "opening", "failing", "refused"}
  <2>1. CASE Dial
    BY <2>1 DEF Dial
  <2>2. CASE Speak
    BY <2>2 DEF Speak, Reading
  <2>3. CASE UpstreamEnds
    BY <2>3 DEF UpstreamEnds
  <2>4. CASE UpstreamFails
    BY <2>4 DEF UpstreamFails
  <2> QED BY <2>1, <2>2, <2>3, <2>4
<1>3. (phase' = "failing" => started) /\ (phase' = "refused" => ~started)
  <2>1. CASE Dial
    BY <2>1 DEF Dial
  <2>2. CASE Speak
    BY <2>2 DEF Speak, Reading
  <2>3. CASE UpstreamEnds
    BY <2>3 DEF UpstreamEnds
  <2>4. CASE UpstreamFails
    BY <2>4 DEF UpstreamFails
  <2> QED BY <2>1, <2>2, <2>3, <2>4
<1>4. ~started => Begins(pending')
  <2>1. CASE Speak
    BY <2>1, SpeakBegins
  <2>2. CASE Dial \/ UpstreamEnds \/ UpstreamFails
    <3>1. pending' = pending
      BY <2>2 DEF Dial, UpstreamEnds, UpstreamFails
    <3> QED BY <3>1 DEF StreamOK, PhaseOK, Begins
  <2> QED BY <2>1, <2>2
<1>5. PhaseOK'
  <2>1. (started => Len(events) > 0) /\ (~started => Len(events) = 0) /\ Live(events)
    BY <1>1 DEF StreamOK, PhaseOK, Terminal
  <2>2. (started' => Len(events') > 0) /\ (~started' => Len(events') = 0) /\ Live(events')
    BY <1>1, <2>1
  <2>3. phase' \in Phases /\ phase' \notin Terminal
    BY <1>2 DEF Phases, Terminal
  <2>4. phase' \in {"closing_text", "closing_calls", "failing", "completed", "failed"} => started'
    BY <1>1, <1>2, <1>3
  <2>5. phase' = "refused" => ~started'
    BY <1>1, <1>3
  <2>6. ~started' /\ pending' # <<>> => Head(pending').kind = "begin"
    BY <1>1, <1>4 DEF Begins
  <2> QED BY <2>2, <2>3, <2>4, <2>5, <2>6 DEF PhaseOK, Live, Terminal
<1> QED BY <1>1, <1>2, <1>5, QuietOK

\* begin sends the opening pair, once.
LEMMA OpeningSent ==
    ASSUME StreamOK, phase \notin Terminal, Send(Opening)
    PROVE  /\ LogOK(events', nextIdx) /\ seq' = Len(events') /\ Live(events')
           /\ Len(events') > 0 /\ DoneOf(events') = DoneOf(events)
<1>0. IsSeq(events) /\ seq = Len(events) /\ LogOK(events, nextIdx) /\ Live(events)
  BY DEF StreamOK, LogOK, Numbered, PhaseOK
<1>1. CASE started
  <2>1. Send(<<>>)
    BY <1>1 DEF Opening
  <2>2. events' = events /\ seq' = seq
    BY <1>0, <2>1, SentNone
  <2>3. Len(events) > 0
    BY <1>1 DEF StreamOK, PhaseOK
  <2> QED BY <1>0, <2>2, <2>3
<1>2. CASE ~started
  <2> DEFINE a == Event("created", NoItem, <<>>)
  <2> DEFINE b == Event("in_progress", NoItem, <<>>)
  <2>1. Send(<<a, b>>) /\ a.kind = "created" /\ b.kind = "in_progress"
    BY <1>2 DEF Opening, Event
  <2> HIDE DEF a, b
  <2>2. PICK M : Pushed(events, M, a.kind, a.at) /\ Pushed(M, events', b.kind, b.at)
    BY <1>0, <2>1, SentTwo
  <2>3. seq' = Len(events')
    BY <1>0, <2>1, SentTwo
  <2>4. Len(events) = 0
    BY <1>2 DEF StreamOK, PhaseOK
  <2>5. AddsOf(events) = {} /\ DoneOf(events) = {}
    BY <2>4 DEF AddsOf, DoneOf
  <2>6. nextIdx = 0
    BY <1>0, <2>5, FS_EmptySet DEF LogOK, InOrder
  <2>7. /\ Len(M) = 1 /\ M[1].kind = "created" /\ M[1].n = 0
    BY <2>1, <2>2, <2>4 DEF Pushed
  <2>8. /\ IsSeq(events') /\ Len(events') = 2 /\ events'[1] = M[1]
        /\ events'[2].kind = "in_progress" /\ events'[2].n = 1
    <3>1. /\ IsSeq(events') /\ Len(events') = Len(M) + 1
          /\ \A i \in 1..Len(M) : events'[i] = M[i]
          /\ events'[Len(events')].kind = b.kind /\ events'[Len(events')].n = Len(M)
      BY <2>2 DEF Pushed
    <3>2. 1 \in 1..Len(M) /\ Len(events') = 2
      BY <2>7, <3>1
    <3> QED BY <2>1, <2>7, <3>1, <3>2
  <2> QED BY <2>3, <2>5, <2>6, <2>7, <2>8, OpenedOK
<1> QED BY <1>1, <1>2 DEF StreamOK, PhaseOK

\* The parts make the whole after a step.
LEMMA Assembled ==
    ASSUME LogOK(events', nextIdx'), seq' = Len(events'), ItemsOK', OrderOK', DoneOK', PhaseOK'
    PROVE  StreamOK'
BY DEF StreamOK, LogOK, Numbered, OpenedOnce, InOrder, Inside, EndsLast, IsSeq, AddsOf,
       Before, DoneOf

\* Nothing is closed yet.
LEMMA StillOpen ==
    ASSUME phase' \notin {"closing_calls", "completed"}, Len(output') = 0, DoneOf(events') = {},
           phase' = "closing_text" => textIdx' # NoItem
    PROVE  DoneOK'
BY DEF DoneOK, DoneOf

\* The response is under way.
LEMMA UnderWay ==
    ASSUME started' = TRUE, Len(events') > 0, Live(events'), phase' \in Phases,
           phase' \notin Terminal, phase' # "refused"
    PROVE  PhaseOK'
BY DEF PhaseOK, Phases, Terminal, Live

\* begin.
LEMMA ConsumeBeginOK == ASSUME StreamOK, ConsumeBegin PROVE StreamOK'
<1>1. /\ phase = "reading" /\ phase' = phase /\ started' = TRUE /\ Send(Opening)
      /\ UNCHANGED <<textIdx, text, tools, toolOrder, nextIdx, output>>
  BY DEF ConsumeBegin, gateway, itemVars
<1>2. /\ LogOK(events', nextIdx) /\ seq' = Len(events') /\ Live(events')
      /\ Len(events') > 0 /\ DoneOf(events') = DoneOf(events)
  BY <1>1, OpeningSent DEF Terminal
<1>3. LogOK(events', nextIdx')
  BY <1>1, <1>2
<1>4. ItemsOK'
  BY <1>1 DEF StreamOK, ItemsOK
<1>5. OrderOK'
  BY <1>1 DEF StreamOK, OrderOK, IsSeq
<1>6. DoneOK'
  <2>1. Len(output) = 0 /\ DoneOf(events) = {}
    BY <1>1 DEF StreamOK, DoneOK
  <2>2. Len(output') = 0 /\ DoneOf(events') = {} /\ phase' = "reading"
    BY <1>1, <1>2, <2>1
  <2> QED BY <2>2, StillOpen
<1>7. PhaseOK'
  BY <1>1, <1>2, UnderWay DEF Phases, Terminal
<1> QED BY <1>2, <1>3, <1>4, <1>5, <1>6, <1>7, Assembled

\* An event of an item that is not done.
LEMMA PushedInner ==
    ASSUME NEW L, NEW M, NEW kind, NEW at, NEW m, Pushed(L, M, kind, at),
           LogOK(L, m), Live(L), Len(L) > 0,
           kind \in {"text_delta", "args_delta", "text_done", "args_done"},
           at \in 0..(m - 1), at \notin DoneOf(L)
    PROVE  LogOK(M, m) /\ Len(M) > 0 /\ Live(M) /\ DoneOf(M) = DoneOf(L)
<1>1. /\ kind \notin Adds /\ kind \notin Terminal /\ kind # "item_done"
      /\ kind \notin {"created", "in_progress"}
  BY DEF Adds, Terminal
<1> QED BY <1>1, PushedOK

\* An item is done.
LEMMA PushedItemDone ==
    ASSUME NEW L, NEW M, NEW at, NEW m, Pushed(L, M, "item_done", at),
           LogOK(L, m), Live(L), Len(L) > 0, at \in 0..(m - 1), at \notin DoneOf(L)
    PROVE  LogOK(M, m) /\ Len(M) > 0 /\ Live(M) /\ DoneOf(M) = DoneOf(L) \cup {at}
<1>1. "item_done" \notin Adds /\ "item_done" \notin Terminal
  BY DEF Adds, Terminal
<1> QED BY <1>1, PushedOK

\* An event that concerns no item's contents.
LEMMA PushedPart ==
    ASSUME NEW L, NEW M, NEW kind, NEW at, NEW m, Pushed(L, M, kind, at),
           LogOK(L, m), Live(L), Len(L) > 0, kind \in {"part_added", "part_done"}
    PROVE  LogOK(M, m) /\ Len(M) > 0 /\ Live(M) /\ DoneOf(M) = DoneOf(L)
<1>1. /\ kind \notin Adds /\ kind \notin Terminal /\ kind \notin Inner
      /\ kind \notin {"created", "in_progress", "item_done"}
  BY DEF Adds, Terminal, Inner
<1> QED BY <1>1, PushedOK

\* An item is added.
LEMMA PushedNew ==
    ASSUME NEW L, NEW M, NEW kind \in Adds, NEW m, Pushed(L, M, kind, m),
           LogOK(L, m), Live(L), Len(L) > 0
    PROVE  LogOK(M, m + 1) /\ Len(M) > 0 /\ Live(M) /\ DoneOf(M) = DoneOf(L)
<1>1. /\ kind \notin Terminal /\ kind \notin Inner
      /\ kind \notin {"created", "in_progress", "item_done"}
  BY DEF Adds, Terminal, Inner
<1> QED BY <1>1, PushedOK

\* Tuples joined.
LEMMA TwoAndOne == \A a, b, c : <<a, b>> \o <<c>> = <<a, b, c>>
<1> SUFFICES ASSUME NEW a, NEW b, NEW c PROVE <<a, b>> \o <<c>> = <<a, b, c>>
  OBVIOUS
<1> DEFINE S == {a, b, c}
<1>1. <<a, b>> \in Seq(S) /\ <<c>> \in Seq(S)
  OBVIOUS
<1>2. <<a, b, c>> \in Seq(S) /\ Len(<<a, b, c>>) = 3
  OBVIOUS
<1>3. <<a, b>> \o <<c>> \in Seq(S) /\ Len(<<a, b>> \o <<c>>) = 3
  BY <1>1
<1>4. /\ (<<a, b>> \o <<c>>)[1] = a /\ (<<a, b>> \o <<c>>)[2] = b
      /\ (<<a, b>> \o <<c>>)[3] = c
  BY <1>1
<1> DEFINE x == <<a, b>> \o <<c>>
<1> DEFINE y == <<a, b, c>>
<1>5. /\ x = [i \in 1..3 |-> x[i]] /\ y = [i \in 1..3 |-> y[i]]
  BY <1>2, <1>3, SeqIsSeq DEF IsSeq
<1>6. x[1] = y[1] /\ x[2] = y[2] /\ x[3] = y[3]
  BY <1>4
<1> HIDE DEF x, y
<1>7. x = y
  BY <1>5, <1>6
<1> QED BY <1>7 DEF x, y

\* What a stream that is under way and not over has sent.
LEMMA Streaming ==
    ASSUME StreamOK, phase \notin Terminal
    PROVE  /\ IsSeq(events) /\ seq = Len(events) /\ LogOK(events, nextIdx) /\ Live(events)
           /\ nextIdx \in Nat
           /\ started => Len(events) > 0
BY DEF StreamOK, LogOK, Numbered, PhaseOK, InOrder

\* A piece of text is consumed after the response began.
LEMMA BegunByNow ==
    ASSUME StreamOK, pending # <<>>, Head(pending).kind # "begin"
    PROVE  started
BY DEF StreamOK, PhaseOK

\* appendText.
LEMMA AppendTextOK == ASSUME StreamOK, AppendText PROVE StreamOK'
<1> DEFINE at == IF textIdx = NoItem THEN nextIdx ELSE textIdx
<1> DEFINE c == Event("text_delta", at, <<Head(pending).frag>>)
<1>1. /\ phase = "reading" /\ phase' = phase /\ started' = started
      /\ pending # <<>> /\ Head(pending).kind = "text"
      /\ textIdx' = at /\ nextIdx' = IF textIdx = NoItem THEN nextIdx + 1 ELSE nextIdx
      /\ UNCHANGED <<tools, toolOrder, output>>
  BY DEF AppendText, gateway
<1>2. Send((IF textIdx = NoItem
            THEN <<Event("added_message", at, <<>>), Event("part_added", at, <<>>)>>
            ELSE <<>>) \o <<c>>)
  BY DEF AppendText
<1>3. started
  BY <1>1, BegunByNow
<1>4. /\ IsSeq(events) /\ seq = Len(events) /\ LogOK(events, nextIdx) /\ Live(events)
      /\ nextIdx \in Nat /\ Len(events) > 0
  BY <1>1, <1>3, Streaming DEF Terminal
<1>5. DoneOf(events) = {} /\ Len(output) = 0
  BY <1>1 DEF StreamOK, DoneOK
<1>6. c.kind = "text_delta" /\ c.at = at
  BY DEF Event
<1> HIDE DEF c
<1>7. /\ LogOK(events', nextIdx') /\ seq' = Len(events') /\ Live(events')
      /\ Len(events') > 0 /\ DoneOf(events') = {}
  <2>1. CASE textIdx = NoItem
    <3> DEFINE a == Event("added_message", at, <<>>)
    <3> DEFINE b == Event("part_added", at, <<>>)
    <3>1. a.kind = "added_message" /\ a.at = nextIdx /\ b.kind = "part_added"
      BY <2>1 DEF Event
    <3> HIDE DEF a, b
    <3>2. Send(<<a, b>> \o <<c>>)
      BY <1>2, <2>1 DEF a, b
    <3>3. <<a, b>> \o <<c>> = <<a, b, c>>
      BY TwoAndOne
    <3>4. Send(<<a, b, c>>)
      BY <3>2, <3>3
    <3>5. PICK M, N : /\ Pushed(events, M, a.kind, a.at) /\ Pushed(M, N, b.kind, b.at)
                      /\ Pushed(N, events', c.kind, c.at)
      BY <1>4, <3>4, SentThree
    <3>6. seq' = Len(events')
      BY <1>4, <3>4, SentThree
    <3>7. a.kind \in Adds
      BY <3>1 DEF Adds
    <3>8. LogOK(M, nextIdx + 1) /\ Len(M) > 0 /\ Live(M) /\ DoneOf(M) = DoneOf(events)
      BY <1>4, <3>1, <3>5, <3>7, PushedNew
    <3>10. LogOK(N, nextIdx + 1) /\ Len(N) > 0 /\ Live(N) /\ DoneOf(N) = DoneOf(M)
      BY <3>1, <3>5, <3>8, PushedPart
    <3>12. c.at = nextIdx /\ DoneOf(N) = {}
      BY <1>5, <1>6, <2>1, <3>8, <3>10
    <3>13. /\ LogOK(events', nextIdx + 1) /\ Len(events') > 0 /\ Live(events')
           /\ DoneOf(events') = DoneOf(N)
      <4> DEFINE m == nextIdx + 1
      <4>0. c.at \in 0..(m - 1)
        BY <1>4, <3>12
      <4>1. LogOK(N, m)
        BY <3>10
      <4> HIDE DEF m
      <4>2. /\ LogOK(events', m) /\ Len(events') > 0 /\ Live(events')
            /\ DoneOf(events') = DoneOf(N)
        BY <1>6, <3>5, <3>10, <3>12, <4>0, <4>1, PushedInner
      <4> QED BY <4>2 DEF m
    <3> QED BY <1>1, <1>5, <2>1, <3>6, <3>8, <3>10, <3>13
  <2>2. CASE textIdx # NoItem
    <3>1. Send(<<>> \o <<c>>)
      BY <1>2, <2>2
    <3>2. <<>> \o <<c>> = <<c>>
      OBVIOUS
    <3>3. Send(<<c>>)
      BY <3>1, <3>2
    <3>4. Pushed(events, events', c.kind, c.at) /\ seq' = Len(events')
      BY <1>4, <3>3, SentOne
    <3>6. c.at \in 0..(nextIdx - 1) /\ c.at \notin DoneOf(events)
      BY <1>5, <1>6, <2>2 DEF StreamOK, ItemsOK
    <3>7. /\ LogOK(events', nextIdx) /\ Len(events') > 0 /\ Live(events')
          /\ DoneOf(events') = DoneOf(events)
      BY <1>4, <1>6, <3>4, <3>6, PushedInner
    <3> QED BY <1>1, <1>5, <2>2, <3>4, <3>7
  <2> QED BY <2>1, <2>2
<1>8. ItemsOK'
  <2>1. CASE textIdx = NoItem
    <3>1. textIdx' = nextIdx /\ nextIdx' = nextIdx + 1 /\ tools' = tools
      BY <1>1, <2>1
    <3>2. /\ \A k \in DOMAIN tools : /\ tools[k] = [s \in {"idx", "head", "args"} |-> tools[k][s]]
                                     /\ tools[k].idx \in 0..(nextIdx - 1)
          /\ \A k, l \in DOMAIN tools : tools[k].idx = tools[l].idx => k = l
          /\ \A x \in 0..(nextIdx - 1) : x = textIdx \/ \E k \in DOMAIN tools : tools[k].idx = x
      BY DEF StreamOK, ItemsOK
    <3>3. textIdx' \in 0..(nextIdx' - 1)
      BY <1>4, <3>1
    <3>4. \A k \in DOMAIN tools : tools[k].idx \in 0..(nextIdx' - 1) /\ tools[k].idx # textIdx'
      BY <1>4, <3>1, <3>2
    <3>5. \A x \in 0..(nextIdx' - 1) : x = textIdx' \/ \E k \in DOMAIN tools : tools[k].idx = x
      <4> TAKE x \in 0..(nextIdx' - 1)
      <4>1. x = nextIdx \/ x \in 0..(nextIdx - 1)
        BY <1>4, <3>1
      <4>2. \A y \in 0..(nextIdx - 1) : y # NoItem
        BY <1>4 DEF NoItem
      <4> QED BY <2>1, <3>1, <3>2, <4>1, <4>2
    <3> QED BY <3>1, <3>2, <3>3, <3>4, <3>5 DEF ItemsOK
  <2>2. CASE textIdx # NoItem
    <3>1. textIdx' = textIdx /\ nextIdx' = nextIdx /\ tools' = tools
      BY <1>1, <2>2
    <3> QED BY <3>1 DEF StreamOK, ItemsOK
  <2> QED BY <2>1, <2>2
<1>9. OrderOK'
  BY <1>1 DEF StreamOK, OrderOK, IsSeq
<1>10. DoneOK'
  BY <1>1, <1>5, <1>7, StillOpen
<1>11. PhaseOK'
  BY <1>1, <1>3, <1>7, UnderWay DEF Phases, Terminal
<1> QED BY <1>7, <1>8, <1>9, <1>10, <1>11, Assembled

\* A call as appendToolCall keeps it.
IsCall(c) == c = [s \in {"idx", "head", "args"} |-> c[s]]

\* A fragment leaves a call's item alone.
LEMMA ExtendedKeeps ==
    ASSUME NEW c, NEW p, IsCall(c)
    PROVE  IsCall(Extended(c, p)) /\ Extended(c, p).idx = c.idx
<1> DEFINE h == IF p.head # Nothing THEN p.head ELSE c.head
<1> DEFINE g == IF p.frag # Nothing THEN Append(c.args, p.frag) ELSE c.args
<1>1. Extended(c, p) = [c EXCEPT !.head = h, !.args = g]
  BY DEF Extended
<1> HIDE DEF h, g
<1>2. DOMAIN c = {"idx", "head", "args"}
  BY DEF IsCall
<1> QED BY <1>1, <1>2 DEF IsCall

\* Tuples joined.
LEMMA OneAndOne == /\ \A a, b : <<a>> \o <<b>> = <<a, b>>
                   /\ \A a : <<a>> \o <<>> = <<a>> /\ <<>> \o <<a>> = <<a>>
                   /\ <<>> \o <<>> = <<>>
<1>1. ASSUME NEW a, NEW b PROVE <<a>> \o <<b>> = <<a, b>>
  <2> DEFINE S == {a, b}
  <2> DEFINE x == <<a>> \o <<b>>
  <2> DEFINE y == <<a, b>>
  <2>1. <<a>> \in Seq(S) /\ <<b>> \in Seq(S) /\ y \in Seq(S) /\ Len(y) = 2
    OBVIOUS
  <2>2. x \in Seq(S) /\ Len(x) = 2 /\ x[1] = a /\ x[2] = b
    BY <2>1
  <2>3. x = [i \in 1..2 |-> x[i]] /\ y = [i \in 1..2 |-> y[i]]
    BY <2>1, <2>2, SeqIsSeq DEF IsSeq
  <2>4. x[1] = y[1] /\ x[2] = y[2]
    BY <2>2
  <2> HIDE DEF x, y
  <2>5. x = y
    BY <2>3, <2>4
  <2> QED BY <2>5 DEF x, y
<1>2. ASSUME NEW a PROVE <<a>> \o <<>> = <<a>> /\ <<>> \o <<a>> = <<a>>
  OBVIOUS
<1>3. <<>> \o <<>> = <<>>
  OBVIOUS
<1> QED BY <1>1, <1>2, <1>3

\* appendToolCall.
LEMMA AppendToolCallOK == ASSUME StreamOK, AppendToolCall PROVE StreamOK'
<1> DEFINE p == Head(pending)
<1> DEFINE key == CallOf(p)
<1> DEFINE new == key \notin DOMAIN tools
<1> DEFINE call == IF new THEN [idx |-> nextIdx, head |-> p.head, args |-> <<>>]
                   ELSE tools[key]
<1> DEFINE a == Event("added_call", call.idx, <<p.head>>)
<1> DEFINE b == Event("args_delta", call.idx, <<p.frag>>)
<1>1. /\ phase = "reading" /\ phase' = phase /\ started' = started
      /\ pending # <<>> /\ p.kind = "tool"
      /\ tools' = [k \in DOMAIN tools \cup {key} |->
                     IF k = key THEN Extended(call, p) ELSE tools[k]]
      /\ toolOrder' = IF new THEN Append(toolOrder, key) ELSE toolOrder
      /\ nextIdx' = IF new THEN nextIdx + 1 ELSE nextIdx
      /\ UNCHANGED <<textIdx, output>>
  BY DEF AppendToolCall, gateway
<1>2. Send((IF new THEN <<a>> ELSE <<>>) \o (IF p.frag # Nothing THEN <<b>> ELSE <<>>))
  BY DEF AppendToolCall
<1>3. started
  BY <1>1, BegunByNow
<1>4. /\ IsSeq(events) /\ seq = Len(events) /\ LogOK(events, nextIdx) /\ Live(events)
      /\ nextIdx \in Nat /\ Len(events) > 0
  BY <1>1, <1>3, Streaming DEF Terminal
<1>5. DoneOf(events) = {} /\ Len(output) = 0
  BY <1>1 DEF StreamOK, DoneOK
<1>6. /\ textIdx = NoItem \/ textIdx \in 0..(nextIdx - 1)
      /\ \A k \in DOMAIN tools : /\ IsCall(tools[k])
                                 /\ tools[k].idx \in 0..(nextIdx - 1)
                                 /\ tools[k].idx # textIdx
      /\ \A k, l \in DOMAIN tools : tools[k].idx = tools[l].idx => k = l
      /\ \A x \in 0..(nextIdx - 1) : x = textIdx \/ \E k \in DOMAIN tools : tools[k].idx = x
  BY DEF StreamOK, ItemsOK, IsCall
<1>7. /\ IsCall(call) /\ (new => call.idx = nextIdx)
      /\ ~new => call = tools[key] /\ call.idx \in 0..(nextIdx - 1)
  BY <1>6 DEF IsCall
<1>8. a.kind = "added_call" /\ a.at = call.idx /\ b.kind = "args_delta" /\ b.at = call.idx
  BY DEF Event
<1>9. IsCall(Extended(call, p)) /\ Extended(call, p).idx = call.idx
  BY <1>7, ExtendedKeeps
<1> HIDE DEF a, b, call
<1>10. /\ LogOK(events', nextIdx') /\ seq' = Len(events') /\ Live(events')
       /\ Len(events') > 0 /\ DoneOf(events') = {}
  <2>1. CASE new /\ p.frag # Nothing
    <3>1. Send(<<a, b>>)
      BY <1>2, <2>1, OneAndOne
    <3>2. PICK M : Pushed(events, M, a.kind, a.at) /\ Pushed(M, events', b.kind, b.at)
      BY <1>4, <3>1, SentTwo
    <3>3. seq' = Len(events')
      BY <1>4, <3>1, SentTwo
    <3> DEFINE m == nextIdx + 1
    <3>4. a.kind \in Adds /\ a.at = nextIdx /\ b.at = nextIdx
      BY <1>7, <1>8, <2>1 DEF Adds
    <3>5. LogOK(M, m) /\ Len(M) > 0 /\ Live(M) /\ DoneOf(M) = {}
      BY <1>4, <1>5, <3>2, <3>4, PushedNew, ZenonT(60)
    <3>6. b.at \in 0..(m - 1)
      BY <1>4, <3>4
    <3>7. nextIdx' = m
      BY <1>1, <2>1
    <3> HIDE DEF m
    <3>8. /\ LogOK(events', m) /\ Len(events') > 0 /\ Live(events') /\ DoneOf(events') = {}
      BY <1>8, <3>2, <3>5, <3>6, PushedInner
    <3> QED BY <3>3, <3>7, <3>8
  <2>2. CASE new /\ p.frag = Nothing
    <3>1. Send(<<a>>)
      BY <1>2, <2>2, OneAndOne
    <3>2. Pushed(events, events', a.kind, a.at) /\ seq' = Len(events')
      BY <1>4, <3>1, SentOne
    <3>3. a.kind \in Adds /\ a.at = nextIdx /\ nextIdx' = nextIdx + 1
      BY <1>1, <1>7, <1>8, <2>2 DEF Adds
    <3>4. LogOK(events', nextIdx + 1) /\ Len(events') > 0 /\ Live(events') /\ DoneOf(events') = {}
      BY <1>4, <1>5, <3>2, <3>3, PushedNew
    <3> QED BY <3>2, <3>3, <3>4
  <2>3. CASE ~new /\ p.frag # Nothing
    <3>1. Send(<<b>>)
      BY <1>2, <2>3, OneAndOne
    <3>2. Pushed(events, events', b.kind, b.at) /\ seq' = Len(events')
      BY <1>4, <3>1, SentOne
    <3>3. b.at \in 0..(nextIdx - 1) /\ nextIdx' = nextIdx
      BY <1>1, <1>7, <1>8, <2>3
    <3>4. LogOK(events', nextIdx) /\ Len(events') > 0 /\ Live(events') /\ DoneOf(events') = {}
      BY <1>4, <1>5, <1>8, <3>2, <3>3, PushedInner
    <3> QED BY <3>2, <3>3, <3>4
  <2>4. CASE ~new /\ p.frag = Nothing
    <3>1. Send(<<>>)
      BY <1>2, <2>4, OneAndOne
    <3>2. events' = events /\ seq' = seq
      BY <1>4, <3>1, SentNone
    <3> QED BY <1>1, <1>4, <1>5, <2>4, <3>2
  <2> QED BY <2>1, <2>2, <2>3, <2>4
<1>11. /\ DOMAIN tools' = DOMAIN tools \cup {key}
       /\ \A k \in DOMAIN tools' : /\ IsCall(tools'[k])
                                   /\ tools'[k].idx = IF k = key THEN call.idx ELSE tools[k].idx
  BY <1>1, <1>6, <1>9
<1>12. ItemsOK'
  <2>1. CASE new
    <3>1. nextIdx' = nextIdx + 1 /\ call.idx = nextIdx /\ textIdx' = textIdx
      BY <1>1, <1>7, <2>1
    <3>2. textIdx' = NoItem \/ textIdx' \in 0..(nextIdx' - 1)
      BY <1>4, <1>6, <3>1
    <3>3. \A k \in DOMAIN tools' : tools'[k].idx \in 0..(nextIdx' - 1) /\ tools'[k].idx # textIdx'
      BY <1>4, <1>6, <1>11, <3>1 DEF NoItem
    <3>4. \A k, l \in DOMAIN tools' : tools'[k].idx = tools'[l].idx => k = l
      BY <1>4, <1>6, <1>11, <3>1
    <3>5. \A x \in 0..(nextIdx' - 1) : x = textIdx' \/ \E k \in DOMAIN tools' : tools'[k].idx = x
      <4> TAKE x \in 0..(nextIdx' - 1)
      <4>1. x = nextIdx \/ x \in 0..(nextIdx - 1)
        BY <1>4, <3>1
      <4>2. CASE x = nextIdx
        BY <1>11, <3>1, <4>2
      <4>3. CASE x \in 0..(nextIdx - 1) /\ x # textIdx
        <5>1. PICK k \in DOMAIN tools : tools[k].idx = x
          BY <1>6, <4>3
        <5> QED BY <1>11, <2>1, <5>1
      <4> QED BY <3>1, <4>1, <4>2, <4>3
    <3> QED BY <1>11, <3>2, <3>3, <3>4, <3>5 DEF ItemsOK, IsCall
  <2>2. CASE ~new
    <3>1. nextIdx' = nextIdx /\ textIdx' = textIdx /\ DOMAIN tools' = DOMAIN tools
      BY <1>1, <1>11, <2>2
    <3>2. \A k \in DOMAIN tools' : IsCall(tools'[k]) /\ tools'[k].idx = tools[k].idx
      BY <1>7, <1>11, <2>2
    <3> QED BY <1>6, <3>1, <3>2 DEF ItemsOK, IsCall
  <2> QED BY <2>1, <2>2
<1>13. OrderOK'
  <2>0. /\ IsSeq(toolOrder) /\ IsSeq(output)
        /\ \A i \in 1..Len(toolOrder) : toolOrder[i] \in DOMAIN tools
        /\ \A i, j \in 1..Len(toolOrder) : toolOrder[i] = toolOrder[j] => i = j
        /\ \A k \in DOMAIN tools : \E i \in 1..Len(toolOrder) : toolOrder[i] = k
    BY DEF StreamOK, OrderOK
  <2>1. CASE new
    <3>1. /\ IsSeq(toolOrder') /\ Len(toolOrder') = Len(toolOrder) + 1
          /\ \A i \in 1..Len(toolOrder) : toolOrder'[i] = toolOrder[i]
          /\ toolOrder'[Len(toolOrder) + 1] = key
      <4> DEFINE S == {toolOrder[i] : i \in 1..Len(toolOrder)} \cup {key}
      <4>1. toolOrder \in [1..Len(toolOrder) -> S] /\ Len(toolOrder) \in Nat /\ key \in S
        BY <2>0 DEF IsSeq
      <4>2. toolOrder' = Append(toolOrder, key)
        BY <1>1, <2>1
      <4> HIDE DEF S, key
      <4>3. toolOrder \in Seq(S)
        BY <4>1
      <4>4. toolOrder' \in Seq(S)
        BY <4>1, <4>2, <4>3
      <4>5. IsSeq(toolOrder')
        BY <4>4, SeqIsSeq
      <4> QED BY <4>1, <4>2, <4>3, <4>5
    <3>2. Len(toolOrder) \in Nat /\ key \notin DOMAIN tools
      BY <2>0, <2>1 DEF IsSeq
    <3>3. \A i \in 1..Len(toolOrder') : toolOrder'[i] \in DOMAIN tools'
      BY <1>11, <2>0, <3>1, <3>2
    <3>4. \A i, j \in 1..Len(toolOrder') : toolOrder'[i] = toolOrder'[j] => i = j
      BY <2>0, <3>1, <3>2, SMTT(60)
    <3>5. \A k \in DOMAIN tools' : \E i \in 1..Len(toolOrder') : toolOrder'[i] = k
      BY <1>11, <2>0, <3>1, <3>2
    <3>6. IsSeq(output')
      BY <1>1, <2>0
    <3> QED BY <3>1, <3>3, <3>4, <3>5, <3>6 DEF OrderOK, IsSeq
  <2>2. CASE ~new
    <3>1. toolOrder' = toolOrder /\ output' = output /\ DOMAIN tools' = DOMAIN tools
      BY <1>1, <1>11, <2>2
    <3> QED BY <2>0, <3>1 DEF OrderOK, IsSeq
  <2> QED BY <2>1, <2>2
<1>14. DoneOK'
  BY <1>1, <1>5, <1>10, StillOpen
<1>15. PhaseOK'
  BY <1>1, <1>3, <1>10, UnderWay DEF Phases, Terminal
<1> QED BY <1>10, <1>12, <1>13, <1>14, <1>15, Assembled

\* The calls are being closed.
LEMMA ClosingCalls ==
    ASSUME phase' = "closing_calls", Closed' \in 0..Len(toolOrder'), DoneOf(events') = ClosedItems'
    PROVE  DoneOK'
<1>1. DoneOf(events)' = DoneOf(events')
  BY DEF DoneOf
<1> QED BY <1>1 DEF DoneOK

\* finish: the opening,
LEMMA FinishOpenOK == ASSUME StreamOK, FinishOpen PROVE StreamOK'
<1>1. /\ phase = "opening" /\ started' = TRUE /\ Send(Opening)
      /\ phase' = IF textIdx # NoItem THEN "closing_text" ELSE "closing_calls"
      /\ UNCHANGED <<textIdx, text, tools, toolOrder, nextIdx, output>>
  BY DEF FinishOpen, itemVars
<1>2. /\ LogOK(events', nextIdx) /\ seq' = Len(events') /\ Live(events')
      /\ Len(events') > 0 /\ DoneOf(events') = DoneOf(events)
  BY <1>1, OpeningSent DEF Terminal
<1>3. LogOK(events', nextIdx')
  BY <1>1, <1>2
<1>4. ItemsOK'
  BY <1>1 DEF StreamOK, ItemsOK
<1>5. OrderOK'
  BY <1>1 DEF StreamOK, OrderOK, IsSeq
<1>6. Len(output') = 0 /\ DoneOf(events') = {}
  BY <1>1, <1>2 DEF StreamOK, DoneOK
<1>7. DoneOK'
  <2>1. CASE textIdx # NoItem
    BY <1>1, <1>6, <2>1, StillOpen
  <2>2. CASE textIdx = NoItem
    <3>1. phase' = "closing_calls" /\ textIdx' = NoItem
      BY <1>1, <2>2
    <3>2. Closed' = 0
      BY <1>6, <3>1 DEF Closed
    <3>3. Len(toolOrder') \in Nat
      BY <1>5 DEF OrderOK, IsSeq
    <3>4. ClosedItems' = {}
      BY <3>1, <3>2 DEF ClosedItems
    <3> QED BY <1>6, <3>1, <3>2, <3>3, <3>4, ClosingCalls
  <2> QED BY <2>1, <2>2
<1>8. PhaseOK'
  <2>1. phase' \in {"closing_text", "closing_calls"}
    BY <1>1
  <2> QED BY <1>1, <1>2, <2>1, UnderWay DEF Phases, Terminal
<1> QED BY <1>2, <1>3, <1>4, <1>5, <1>7, <1>8, Assembled

\* output grows by one item.
LEMMA OutputGrows ==
    ASSUME OrderOK, NEW item, output' = Append(output, item)
    PROVE  IsSeq(output') /\ Len(output') = Len(output) + 1 /\ Len(output) \in Nat
<1> DEFINE S == {output[i] : i \in 1..Len(output)} \cup {item}
<1>1. output \in [1..Len(output) -> S] /\ Len(output) \in Nat /\ item \in S
  BY DEF OrderOK, IsSeq
<1> HIDE DEF S
<1>2. output \in Seq(S)
  BY <1>1
<1>3. output' \in Seq(S) /\ Len(output') = Len(output) + 1
  BY <1>1, <1>2
<1> QED BY <1>1, <1>3, SeqIsSeq

\* the text item,
LEMMA CloseTextOK == ASSUME StreamOK, CloseText PROVE StreamOK'
<1> DEFINE a == Event("text_done", textIdx, text)
<1> DEFINE b == Event("part_done", textIdx, text)
<1> DEFINE c == Event("item_done", textIdx, <<Message(text)>>)
<1>1. /\ phase = "closing_text" /\ output' = Append(output, Message(text))
      /\ phase' = "closing_calls"
      /\ UNCHANGED <<started, textIdx, tools, toolOrder, nextIdx>>
      /\ Send(<<a, b, c>>)
  BY DEF CloseText
<1>2. /\ a.kind = "text_done" /\ b.kind = "part_done" /\ c.kind = "item_done"
      /\ a.at = textIdx /\ b.at = textIdx /\ c.at = textIdx
  BY DEF Event
<1> HIDE DEF a, b, c
<1>3. started
  BY <1>1 DEF StreamOK, PhaseOK
<1>4. /\ IsSeq(events) /\ seq = Len(events) /\ LogOK(events, nextIdx) /\ Live(events)
      /\ nextIdx \in Nat /\ Len(events) > 0
  BY <1>1, <1>3, Streaming DEF Terminal
<1>5. DoneOf(events) = {} /\ Len(output) = 0 /\ textIdx # NoItem
  BY <1>1 DEF StreamOK, DoneOK
<1>6. textIdx \in 0..(nextIdx - 1)
  BY <1>5 DEF StreamOK, ItemsOK
<1>7. PICK M, N : /\ Pushed(events, M, a.kind, a.at) /\ Pushed(M, N, b.kind, b.at)
                  /\ Pushed(N, events', c.kind, c.at)
  BY <1>1, <1>4, SentThree
<1>8. seq' = Len(events')
  BY <1>1, <1>4, SentThree
<1>9. LogOK(M, nextIdx) /\ Len(M) > 0 /\ Live(M) /\ DoneOf(M) = {}
  BY <1>2, <1>4, <1>5, <1>6, <1>7, PushedInner
<1>10. LogOK(N, nextIdx) /\ Len(N) > 0 /\ Live(N) /\ DoneOf(N) = {}
  BY <1>2, <1>7, <1>9, PushedPart
<1>11. /\ LogOK(events', nextIdx) /\ Len(events') > 0 /\ Live(events')
       /\ DoneOf(events') = {textIdx}
  <2>1. Pushed(N, events', "item_done", textIdx)
    BY <1>2, <1>7
  <2>2. DoneOf(events') = DoneOf(N) \cup {textIdx}
    BY <1>6, <1>10, <2>1, PushedItemDone
  <2>3. LogOK(events', nextIdx) /\ Len(events') > 0 /\ Live(events')
    BY <1>6, <1>10, <2>1, PushedItemDone
  <2> QED BY <1>10, <2>2, <2>3
<1>12. LogOK(events', nextIdx')
  BY <1>1, <1>11
<1>13. ItemsOK'
  BY <1>1 DEF StreamOK, ItemsOK
<1>14. OrderOK /\ IsSeq(output') /\ Len(output') = 1
  <2>1. OrderOK
    BY DEF StreamOK
  <2> QED BY <1>1, <1>5, <2>1, OutputGrows
<1>15. OrderOK'
  BY <1>1, <1>14 DEF OrderOK, IsSeq
<1>16. DoneOK'
  <2>1. Closed' = 0
    BY <1>1, <1>5, <1>14 DEF Closed
  <2>2. ClosedItems' = {textIdx}
    BY <1>1, <1>5, <2>1 DEF ClosedItems
  <2>3. Len(toolOrder') \in Nat
    BY <1>15 DEF OrderOK, IsSeq
  <2> QED BY <1>1, <1>11, <2>1, <2>2, <2>3, ClosingCalls
<1>17. PhaseOK'
  BY <1>1, <1>3, <1>11, UnderWay DEF Phases, Terminal
<1> QED BY <1>8, <1>12, <1>13, <1>15, <1>16, <1>17, Assembled

\* The response is over.
LEMMA PushedTerminal ==
    ASSUME NEW L, NEW M, NEW kind \in Terminal, NEW at, NEW m, Pushed(L, M, kind, at),
           LogOK(L, m), Live(L), Len(L) > 0
    PROVE  LogOK(M, m) /\ Len(M) > 0 /\ DoneOf(M) = DoneOf(L) /\ M[Len(M)].kind = kind
<1>1. /\ kind \notin Adds /\ kind \notin Inner
      /\ kind \notin {"created", "in_progress", "item_done"}
  BY DEF Adds, Inner, Terminal
<1>2. M[Len(M)].kind = kind
  BY DEF Pushed
<1> QED BY <1>1, <1>2, PushedOK

\* the calls, in the order they were opened: none of them twice,
LEMMA CloseCallOK == ASSUME StreamOK, CloseCall PROVE StreamOK'
<1> DEFINE key == toolOrder[Closed + 1]
<1> DEFINE call == tools[key]
<1> DEFINE item == FunctionCall(call.head, call.args)
<1> DEFINE a == Event("args_done", call.idx, call.args)
<1> DEFINE b == Event("item_done", call.idx, <<item>>)
<1>1. /\ phase = "closing_calls" /\ Closed < Len(toolOrder) /\ output' = Append(output, item)
      /\ UNCHANGED <<phase, started, textIdx, tools, toolOrder, nextIdx>>
      /\ Send(<<a, b>>)
  BY DEF CloseCall, gateway
<1>2. /\ a.kind = "args_done" /\ b.kind = "item_done"
      /\ a.at = call.idx /\ b.at = call.idx
  BY DEF Event
<1> HIDE DEF a, b, item
<1>3. started
  BY <1>1 DEF StreamOK, PhaseOK
<1>4. /\ IsSeq(events) /\ seq = Len(events) /\ LogOK(events, nextIdx) /\ Live(events)
      /\ nextIdx \in Nat /\ Len(events) > 0
  BY <1>1, <1>3, Streaming DEF Terminal
<1>5. DoneOf(events) = ClosedItems /\ Closed \in 0..Len(toolOrder)
  BY <1>1 DEF StreamOK, DoneOK
<1>6. /\ IsSeq(toolOrder) /\ Len(toolOrder) \in Nat
      /\ \A i \in 1..Len(toolOrder) : toolOrder[i] \in DOMAIN tools
      /\ \A i, j \in 1..Len(toolOrder) : toolOrder[i] = toolOrder[j] => i = j
  BY DEF StreamOK, OrderOK, IsSeq
<1>7. /\ \A k \in DOMAIN tools : tools[k].idx \in 0..(nextIdx - 1) /\ tools[k].idx # textIdx
      /\ \A k, l \in DOMAIN tools : tools[k].idx = tools[l].idx => k = l
  BY DEF StreamOK, ItemsOK
<1>8. Closed \in Nat /\ Closed + 1 \in 1..Len(toolOrder)
  BY <1>1, <1>5, <1>6
<1>9. key \in DOMAIN tools
  BY <1>6, <1>8
<1>10. call.idx \in 0..(nextIdx - 1) /\ call.idx # textIdx
  BY <1>7, <1>9
<1>11. call.idx \notin ClosedItems
  <2> SUFFICES ASSUME NEW k \in 1..Closed, tools[toolOrder[k]].idx = call.idx PROVE FALSE
    BY <1>10 DEF ClosedItems
  <2>1. k \in 1..Len(toolOrder) /\ k # Closed + 1
    BY <1>5, <1>6, <1>8
  <2>2. toolOrder[k] \in DOMAIN tools
    BY <1>6, <2>1
  <2>3. toolOrder[k] = key
    BY <1>7, <1>9, <2>2
  <2> QED BY <1>6, <1>8, <2>1, <2>3
<1>12. PICK M : Pushed(events, M, a.kind, a.at) /\ Pushed(M, events', b.kind, b.at)
  BY <1>1, <1>4, SentTwo
<1>13. seq' = Len(events')
  BY <1>1, <1>4, SentTwo
<1> HIDE DEF call
<1>14. LogOK(M, nextIdx) /\ Len(M) > 0 /\ Live(M) /\ DoneOf(M) = ClosedItems
  BY <1>2, <1>4, <1>5, <1>10, <1>11, <1>12, PushedInner
<1>15. /\ LogOK(events', nextIdx) /\ Len(events') > 0 /\ Live(events')
       /\ DoneOf(events') = ClosedItems \cup {call.idx}
  <2>1. Pushed(M, events', "item_done", call.idx)
    BY <1>2, <1>12
  <2>2. DoneOf(events') = DoneOf(M) \cup {call.idx}
    BY <1>10, <1>11, <1>14, <2>1, PushedItemDone
  <2>3. LogOK(events', nextIdx) /\ Len(events') > 0 /\ Live(events')
    BY <1>10, <1>11, <1>14, <2>1, PushedItemDone
  <2> QED BY <1>14, <2>2, <2>3
<1>16. LogOK(events', nextIdx')
  BY <1>1, <1>15
<1>17. ItemsOK'
  BY <1>1 DEF StreamOK, ItemsOK
<1>18. OrderOK /\ IsSeq(output') /\ Len(output') = Len(output) + 1 /\ Len(output) \in Nat
  <2>1. OrderOK
    BY DEF StreamOK
  <2> QED BY <1>1, <2>1, OutputGrows
<1>19. OrderOK'
  BY <1>1, <1>18 DEF OrderOK, IsSeq
<1>20. DoneOK'
  <2>1. Closed' = Closed + 1
    BY <1>1, <1>18 DEF Closed
  <2>2. ClosedItems' = ClosedItems \cup {call.idx}
    <3> DEFINE O == toolOrder
    <3>1. ClosedItems' = {x \in {textIdx} : x # NoItem} \cup {tools[O[k]].idx : k \in 1..(Closed + 1)}
      BY <1>1, <2>1 DEF ClosedItems
    <3>2. 1..(Closed + 1) = 1..Closed \cup {Closed + 1}
      BY <1>8
    <3> QED BY <3>1, <3>2 DEF ClosedItems, call
  <2>3. Closed' \in 0..Len(toolOrder')
    BY <1>1, <1>8, <2>1
  <2>4. phase' = "closing_calls"
    BY <1>1
  <2> QED BY <1>15, <2>2, <2>3, <2>4, ClosingCalls
<1>21. PhaseOK'
  BY <1>1, <1>3, <1>15, UnderWay DEF Phases, Terminal
<1> QED BY <1>13, <1>16, <1>17, <1>19, <1>20, <1>21, Assembled

\* A response that is over.
LEMMA OverPhase ==
    ASSUME started' = TRUE, Len(events') > 0, phase' \in Terminal, events'[Len(events')].kind = phase'
    PROVE  PhaseOK'
BY DEF PhaseOK, Phases, Terminal

\* and the response, which leaves no item open.
LEMMA CompleteOK == ASSUME StreamOK, Complete PROVE StreamOK'
<1> DEFINE a == Event("completed", NoItem, output)
<1>1. /\ phase = "closing_calls" /\ Closed = Len(toolOrder) /\ phase' = "completed"
      /\ UNCHANGED <<started, textIdx, text, tools, toolOrder, nextIdx, output>>
      /\ Send(<<a>>)
  BY DEF Complete, itemVars
<1>2. a.kind = "completed"
  BY DEF Event
<1> HIDE DEF a
<1>3. started
  BY <1>1 DEF StreamOK, PhaseOK
<1>4. /\ IsSeq(events) /\ seq = Len(events) /\ LogOK(events, nextIdx) /\ Live(events)
      /\ nextIdx \in Nat /\ Len(events) > 0
  BY <1>1, <1>3, Streaming DEF Terminal
<1>5. Pushed(events, events', a.kind, a.at) /\ seq' = Len(events')
  BY <1>1, <1>4, SentOne
<1>6. /\ LogOK(events', nextIdx) /\ Len(events') > 0 /\ DoneOf(events') = DoneOf(events)
      /\ events'[Len(events')].kind = "completed"
  BY <1>2, <1>4, <1>5, PushedTerminal DEF Terminal
<1>7. DoneOf(events) = 0..(nextIdx - 1)
  <2>1. DoneOf(events) = ClosedItems
    BY <1>1 DEF StreamOK, DoneOK
  <2>2. /\ \A i \in 1..Len(toolOrder) : toolOrder[i] \in DOMAIN tools
        /\ \A k \in DOMAIN tools : \E i \in 1..Len(toolOrder) : toolOrder[i] = k
    BY DEF StreamOK, OrderOK
  <2>3. /\ textIdx = NoItem \/ textIdx \in 0..(nextIdx - 1)
        /\ \A k \in DOMAIN tools : tools[k].idx \in 0..(nextIdx - 1)
        /\ \A x \in 0..(nextIdx - 1) : x = textIdx \/ \E k \in DOMAIN tools : tools[k].idx = x
    BY DEF StreamOK, ItemsOK
  <2>4. \A x : x \in ClosedItems <=> \/ x = textIdx /\ x # NoItem
                                     \/ \E i \in 1..Len(toolOrder) : x = tools[toolOrder[i]].idx
    BY <1>1 DEF ClosedItems
  <2>5. ASSUME NEW x \in ClosedItems PROVE x \in 0..(nextIdx - 1)
    BY <2>2, <2>3, <2>4
  <2>6. ASSUME NEW x \in 0..(nextIdx - 1) PROVE x \in ClosedItems
    <3>1. x # NoItem
      BY <1>4 DEF NoItem
    <3>2. CASE x = textIdx
      BY <2>4, <3>1, <3>2
    <3>3. CASE x # textIdx
      <4>1. PICK k \in DOMAIN tools : tools[k].idx = x
        BY <2>3, <3>3
      <4>2. PICK i \in 1..Len(toolOrder) : toolOrder[i] = k
        BY <2>2
      <4> QED BY <2>4, <4>1, <4>2
    <3> QED BY <3>2, <3>3
  <2> QED BY <2>1, <2>5, <2>6
<1>8. LogOK(events', nextIdx')
  BY <1>1, <1>6
<1>9. ItemsOK'
  BY <1>1 DEF StreamOK, ItemsOK
<1>10. OrderOK'
  BY <1>1 DEF StreamOK, OrderOK, IsSeq
<1>11. DoneOK'
  <2>1. phase' = "completed" /\ DoneOf(events') = 0..(nextIdx' - 1)
    BY <1>1, <1>6, <1>7
  <2> QED BY <2>1 DEF DoneOK, DoneOf
<1>12. PhaseOK'
  BY <1>1, <1>3, <1>6, OverPhase DEF Terminal
<1> QED BY <1>5, <1>8, <1>9, <1>10, <1>11, <1>12, Assembled

\* fail.
LEMMA FailOK == ASSUME StreamOK, Fail PROVE StreamOK'
<1> DEFINE a == Event("failed", NoItem, output)
<1>1. /\ phase = "failing" /\ phase' = "failed"
      /\ UNCHANGED <<started, textIdx, text, tools, toolOrder, nextIdx, output>>
      /\ Send(<<a>>)
  BY DEF Fail, itemVars
<1>2. a.kind = "failed"
  BY DEF Event
<1> HIDE DEF a
<1>3. started
  BY <1>1 DEF StreamOK, PhaseOK
<1>4. /\ IsSeq(events) /\ seq = Len(events) /\ LogOK(events, nextIdx) /\ Live(events)
      /\ nextIdx \in Nat /\ Len(events) > 0
  BY <1>1, <1>3, Streaming DEF Terminal
<1>5. Pushed(events, events', a.kind, a.at) /\ seq' = Len(events')
  BY <1>1, <1>4, SentOne
<1>6. /\ LogOK(events', nextIdx) /\ Len(events') > 0 /\ DoneOf(events') = DoneOf(events)
      /\ events'[Len(events')].kind = "failed"
  BY <1>2, <1>4, <1>5, PushedTerminal DEF Terminal
<1>7. Len(output') = 0 /\ DoneOf(events') = {}
  BY <1>1, <1>6 DEF StreamOK, DoneOK
<1>8. LogOK(events', nextIdx')
  BY <1>1, <1>6
<1>9. ItemsOK'
  BY <1>1 DEF StreamOK, ItemsOK
<1>10. OrderOK'
  BY <1>1 DEF StreamOK, OrderOK, IsSeq
<1>11. DoneOK'
  BY <1>1, <1>7, StillOpen
<1>12. PhaseOK'
  BY <1>1, <1>3, <1>6, OverPhase DEF Terminal
<1> QED BY <1>5, <1>8, <1>9, <1>10, <1>11, <1>12, Assembled

\* A response starts with nothing sent,
LEMMA InitOK == Init => StreamOK
<1> SUFFICES ASSUME Init PROVE StreamOK
  OBVIOUS
<1>1. /\ phase = "dialling" /\ pending = <<>> /\ started = FALSE /\ textIdx = NoItem
      /\ tools = <<>> /\ toolOrder = <<>> /\ nextIdx = 0 /\ seq = 0
      /\ output = <<>> /\ events = <<>>
  BY DEF Init
<1>2. LogOK(events, nextIdx) /\ seq = Len(events) /\ Live(events) /\ DoneOf(events) = {}
  BY <1>1, EmptyOK
<1>3. DOMAIN tools = {} /\ Len(toolOrder) = 0 /\ Len(output) = 0 /\ IsSeq(toolOrder) /\ IsSeq(output)
      /\ Len(events) = 0
  BY <1>1, EmptyOK
<1>4. ItemsOK
  BY <1>1, <1>3 DEF ItemsOK
<1>5. OrderOK
  BY <1>1, <1>3 DEF OrderOK
<1>6. DoneOK
  BY <1>1, <1>2, <1>3 DEF DoneOK
<1>7. PhaseOK
  BY <1>1, <1>2, <1>3 DEF PhaseOK, Phases, Terminal
<1> QED BY <1>2, <1>4, <1>5, <1>6, <1>7 DEF StreamOK

\* and so does the one of the next turn.
LEMMA StartOverOK == StartOver => StreamOK'
<1> SUFFICES ASSUME StartOver PROVE StreamOK'
  OBVIOUS
<1>1. /\ phase' = "dialling" /\ pending' = <<>> /\ started' = FALSE /\ textIdx' = NoItem
      /\ tools' = <<>> /\ toolOrder' = <<>> /\ nextIdx' = 0 /\ seq' = 0
      /\ output' = <<>> /\ events' = <<>>
  BY DEF StartOver
<1>2. LogOK(events', nextIdx') /\ seq' = Len(events') /\ Live(events') /\ DoneOf(events') = {}
  BY <1>1, EmptyOK
<1>3. DOMAIN tools' = {} /\ Len(toolOrder') = 0 /\ Len(output') = 0 /\ IsSeq(toolOrder') /\ IsSeq(output')
      /\ Len(events') = 0
  BY <1>1, EmptyOK
<1>4. ItemsOK'
  BY <1>1, <1>3 DEF ItemsOK
<1>5. OrderOK'
  BY <1>1, <1>3 DEF OrderOK, IsSeq
<1>6. DoneOK'
  BY <1>1, <1>2, <1>3, StillOpen
<1>7. PhaseOK'
  BY <1>1, <1>2, <1>3 DEF PhaseOK, Phases, Terminal, Live
<1> QED BY <1>2, <1>4, <1>5, <1>6, <1>7, Assembled

\* A step of somebody else.
LEMMA NothingHappens == StreamOK /\ UNCHANGED vars => StreamOK'
<1> SUFFICES ASSUME StreamOK, UNCHANGED vars PROVE StreamOK'
  OBVIOUS
<1>1. UNCHANGED <<phase, pending, started, textIdx, tools, toolOrder, nextIdx, seq, output, events>>
  BY DEF vars, gateway, itemVars
<1>2. LogOK(events', nextIdx') /\ seq' = Len(events')
  BY <1>1 DEF StreamOK
<1>3. ItemsOK'
  BY <1>1 DEF StreamOK, ItemsOK
<1>4. OrderOK'
  BY <1>1 DEF StreamOK, OrderOK, IsSeq
<1>5. DoneOK'
  <2>0. DoneOf(events') = DoneOf(events) /\ DoneOK
    BY <1>1 DEF StreamOK
  <2>1. CASE phase \notin {"closing_calls", "completed"}
    <3>1. Len(output) = 0 /\ DoneOf(events) = {} /\ (phase = "closing_text" => textIdx # NoItem)
      BY <2>0, <2>1 DEF DoneOK
    <3> QED BY <1>1, <2>0, <2>1, <3>1, StillOpen
  <2>2. CASE phase = "closing_calls"
    <3>1. Closed \in 0..Len(toolOrder) /\ DoneOf(events) = ClosedItems
      BY <2>0, <2>2 DEF DoneOK
    <3>2. Closed' = Closed
      BY <1>1 DEF Closed
    <3>3. ClosedItems' = ClosedItems
      BY <1>1, <3>2 DEF ClosedItems
    <3> QED BY <1>1, <2>0, <2>2, <3>1, <3>2, <3>3, ClosingCalls
  <2>3. CASE phase = "completed"
    <3>1. phase' = "completed" /\ DoneOf(events') = 0..(nextIdx' - 1)
      BY <1>1, <2>0, <2>3 DEF DoneOK
    <3> QED BY <3>1 DEF DoneOK, DoneOf
  <2> QED BY <2>1, <2>2, <2>3
<1>6. PhaseOK'
  BY <1>1 DEF StreamOK, PhaseOK, Live
<1> QED BY <1>2, <1>3, <1>4, <1>5, <1>6, Assembled

\* Every step of a response keeps the invariant.
LEMMA NextOK == StreamOK /\ [Next]_vars => StreamOK'
<1> SUFFICES ASSUME StreamOK, [Next]_vars PROVE StreamOK'
  OBVIOUS
<1> QED BY NothingHappens, QuietSteps, ConsumeBeginOK, AppendTextOK, AppendToolCallOK,
           FinishOpenOK, CloseTextOK, CloseCallOK, CompleteOK, FailOK
        DEF Next, Consume, Finish

\* What the client has received, read as Framed reads it.
LEMMA FramedOK == StreamOK => Framed
<1> SUFFICES ASSUME StreamOK PROVE Framed
  OBVIOUS
<1>0. DOMAIN events = 1..Len(events) /\ Len(events) \in Nat /\ seq = Len(events)
      /\ events = [i \in 1..Len(events) |-> events[i]]
  BY DEF StreamOK, LogOK, Numbered, IsSeq
<1>1. \A i \in DOMAIN events : events[i].n = i - 1
  BY <1>0 DEF StreamOK, LogOK, Numbered
<1>2. /\ Len(events) # 1
      /\ \A i \in 1..Len(events) : /\ events[i].kind = "created" <=> i = 1
                                   /\ events[i].kind = "in_progress" <=> i = 2
  BY DEF StreamOK, LogOK, OpenedOnce
<1>3. At({"created"}) \subseteq {1} /\ At({"in_progress"}) \subseteq {2}
  BY <1>0, <1>2 DEF At
<1>4. events # <<>> => At({"created", "in_progress"}) = {1, 2}
  <2> SUFFICES ASSUME events # <<>> PROVE At({"created", "in_progress"}) = {1, 2}
    OBVIOUS
  <2>1. Len(events) # 0
    <3> SUFFICES ASSUME Len(events) = 0 PROVE FALSE
      OBVIOUS
    <3>1. events = [i \in {} |-> events[i]]
      BY <1>0
    <3>2. <<>> = [i \in {} |-> events[i]]
      OBVIOUS
    <3> QED BY <3>1, <3>2
  <2>2. 1 \in 1..Len(events) /\ 2 \in 1..Len(events)
    BY <1>0, <1>2, <2>1
  <2> QED BY <1>0, <1>2, <2>2 DEF At
<1>5. At(Adds) = AddsOf(events)
  BY <1>0 DEF At, AddsOf
<1>6. \A i \in At(Adds) : /\ events[i].at = Cardinality({j \in At(Adds) : j < i})
                          /\ events[i].at \in 0..(nextIdx - 1)
  <2> TAKE i \in At(Adds)
  <2>1. {j \in At(Adds) : j < i} = Before(events, i)
    BY <1>5 DEF Before
  <2>2. /\ events[i].at = Cardinality(Before(events, i))
        /\ events[i].at \in 0..(nextIdx - 1)
    BY <1>5 DEF StreamOK, LogOK, InOrder
  <2> QED BY <2>1, <2>2
<1>7. \A i \in At(Deltas \cup {"text_done", "args_done", "item_done"}) :
         /\ \E j \in At(Adds) : j < i /\ events[j].at = events[i].at
         /\ \A j \in At({"item_done"}) : events[j].at = events[i].at => j >= i
  <2> TAKE i \in At(Deltas \cup {"text_done", "args_done", "item_done"})
  <2>1. i \in 1..Len(events) /\ events[i].kind \in Inner
    BY <1>0 DEF At, Deltas, Inner
  <2>2. /\ \E j \in AddsOf(events) : j < i /\ events[j].at = events[i].at
        /\ \A j \in 1..Len(events) :
              events[j].kind = "item_done" /\ events[j].at = events[i].at => j >= i
    BY <2>1 DEF StreamOK, LogOK, Inside
  <2> QED BY <1>0, <1>5, <2>2 DEF At
<1>8. \A i \in At(Terminal) : i = Len(events)
  BY <1>0 DEF At, StreamOK, LogOK, EndsLast
<1>9. phase \in Terminal => At({phase}) = {Len(events)}
  <2> SUFFICES ASSUME phase \in Terminal PROVE At({phase}) = {Len(events)}
    OBVIOUS
  <2>1. events[Len(events)].kind = phase /\ Len(events) > 0
    BY DEF StreamOK, PhaseOK, Terminal
  <2>2. At({phase}) \subseteq At(Terminal)
    BY DEF At
  <2>3. Len(events) \in At({phase})
    BY <1>0, <2>1 DEF At
  <2> QED BY <1>8, <2>2, <2>3
<1>10. phase = "completed" =>
         \A i \in At(Adds) : \E j \in At({"item_done"}) : events[j].at = events[i].at
  <2> SUFFICES ASSUME phase = "completed", NEW i \in At(Adds)
               PROVE  \E j \in At({"item_done"}) : events[j].at = events[i].at
    OBVIOUS
  <2>1. DoneOf(events) = 0..(nextIdx - 1)
    BY DEF StreamOK, DoneOK
  <2>2. events[i].at \in DoneOf(events)
    BY <1>6, <2>1
  <2> QED BY <1>0, <2>2 DEF DoneOf, At
<1>11. phase = "refused" => events = <<>>
  <2> SUFFICES ASSUME phase = "refused" PROVE events = <<>>
    OBVIOUS
  <2>1. Len(events) = 0
    BY DEF StreamOK, PhaseOK
  <2>2. events = [i \in {} |-> events[i]]
    BY <1>0, <2>1
  <2>3. <<>> = [i \in {} |-> events[i]]
    OBVIOUS
  <2> QED BY <2>2, <2>3
<1> QED BY <1>0, <1>1, <1>3, <1>4, <1>6, <1>7, <1>8, <1>9, <1>10, <1>11 DEF Framed

\* One response, whatever the provider, its dialect and its failures are, is
\* framed as the Responses API frames it (responsesStream).
THEOREM OneStream == Spec => []Framed
<1> QED BY InitOK, NextOK, FramedOK, PTL DEF Spec

\* So is every response of a client that asks again and again
\* (handleResponses makes a responsesStream of its own for each).
THEOREM EveryStream == AgentSpec => []Framed
<1>1. AgentInit => StreamOK
  BY InitOK DEF AgentInit
<1>2. StreamOK /\ [AgentNext]_allVars => StreamOK'
  <2> SUFFICES ASSUME StreamOK, [AgentNext]_allVars PROVE StreamOK'
    OBVIOUS
  <2>1. CASE UNCHANGED vars
    BY <2>1, NothingHappens
  <2>2. CASE Stream
    BY <2>2, NextOK DEF Stream
  <2>3. CASE TurnEnds
    BY <2>3, StartOverOK DEF TurnEnds
  <2> QED BY <2>1, <2>2, <2>3 DEF AgentNext, Says, HandleResponses, ToolReturns, allVars
<1> QED BY <1>1, <1>2, FramedOK, PTL DEF AgentSpec

(***************************************************************************)
(* Putting together: what FlattenSeq makes of a sequence of sequences.     *)
(***************************************************************************)

\* A set of naturals has a least element.
LEMMA LeastOf ==
    ASSUME NEW T, T \subseteq Nat, T # {}
    PROVE  \E x \in T : \A y \in T : x <= y
<1>1. PICK x \in T : \A y \in T : ~(<<y, x>> \in OpToRel(<, Nat))
  BY NatLessThanWellFounded, WFMin
<1>2. \A y \in T : ~(y < x)
  BY <1>1 DEF OpToRel
<1>3. \A y \in T : x <= y
  BY <1>2
<1> QED BY <1>3

\* FlattenSeq's own recursion.
FlatTo(s, n, f) ==
    f = [i \in 1..n |-> IF i = 1 THEN s[i] ELSE f[i - 1] \o s[i]]

LEMMA FlatToExists ==
    ASSUME NEW s, NEW n \in Nat
    PROVE  \E f : FlatTo(s, n, f)
<1> DEFINE T == {k \in Nat : ~ \E f : FlatTo(s, k, f)}
<1> SUFFICES ASSUME T # {} PROVE FALSE
  OBVIOUS
<1>1. PICK k \in T : \A y \in T : k <= y
  <2> HIDE DEF T
  <2>1. T \subseteq Nat
    BY DEF T
  <2> QED BY <2>1, LeastOf
<1>2. k # 0
  <2>1. FlatTo(s, 0, [i \in 1..0 |-> s])
    BY DEF FlatTo
  <2> QED BY <2>1
<1>3. k - 1 \in Nat /\ k - 1 \notin T
  BY <1>1, <1>2
<1>4. PICK g : FlatTo(s, k - 1, g)
  BY <1>3
<1> DEFINE h == [i \in 1..k |-> IF i = k THEN (IF k = 1 THEN s[k] ELSE g[k - 1] \o s[k]) ELSE g[i]]
<1>5. FlatTo(s, k, h)
  <2>1. \A i \in 1..k : h[i] = IF i = 1 THEN s[i] ELSE h[i - 1] \o s[i]
    <3> TAKE i \in 1..k
    <3>1. CASE i = k
      BY <3>1
    <3>2. CASE i # k
      <4>1. i \in 1..(k - 1)
        BY <3>2
      <4>2. g[i] = IF i = 1 THEN s[i] ELSE g[i - 1] \o s[i]
        BY <4>1, <1>4 DEF FlatTo
      <4> QED BY <4>1, <4>2
    <3> QED BY <3>1, <3>2
  <2>2. h = [i \in 1..k |-> h[i]]
    OBVIOUS
  <2> HIDE DEF h
  <2> QED BY <2>1, <2>2 DEF FlatTo
<1> HIDE DEF h
<1> QED BY <1>1, <1>5

\* The recursion of FlattenSeq has one solution.
LEMMA FlatDef ==
    ASSUME NEW s, Len(s) \in Nat, Len(s) # 0
    PROVE  \E f : FlatTo(s, Len(s), f) /\ FlattenSeq(s) = f[Len(s)]
<1> DEFINE f == CHOOSE f : f = [i \in 1..Len(s) |-> IF i = 1 THEN s[i] ELSE f[i - 1] \o s[i]]
<1>1. \E g : g = [i \in 1..Len(s) |-> IF i = 1 THEN s[i] ELSE g[i - 1] \o s[i]]
  BY FlatToExists DEF FlatTo
<1>2. f = [i \in 1..Len(s) |-> IF i = 1 THEN s[i] ELSE f[i - 1] \o s[i]]
  BY <1>1
<1>3. FlattenSeq(s) = f[Len(s)]
  BY DEF FlattenSeq
<1> QED BY <1>2, <1>3 DEF FlatTo

\* Induction, with a set for the predicate.
LEMMA ByNat ==
    ASSUME NEW T, 0 \in T, \A n \in Nat : n \in T => n + 1 \in T
    PROVE  \A n \in Nat : n \in T
<1> DEFINE B == {n \in Nat : n \notin T}
<1> SUFFICES ASSUME B # {} PROVE FALSE
  OBVIOUS
<1>1. PICK k \in B : \A y \in B : k <= y
  <2> HIDE DEF B
  <2>1. B \subseteq Nat
    BY DEF B
  <2> QED BY <2>1, LeastOf
<1>2. k # 0 /\ k \in Nat
  BY <1>1
<1>3. k - 1 \in Nat /\ k - 1 \notin B /\ (k - 1) + 1 = k
  BY <1>1, <1>2
<1> QED BY <1>1, <1>3

\* Two sequences are equal when their elements are.
LEMMA SameSeq ==
    ASSUME NEW a, NEW b, IsSeq(a), IsSeq(b), Len(a) = Len(b), \A i \in 1..Len(a) : a[i] = b[i]
    PROVE  a = b
BY DEF IsSeq

\* Concatenation is associative,
LEMMA JoinedThrice ==
    ASSUME NEW a, NEW b, NEW c, IsSeq(a), IsSeq(b), IsSeq(c)
    PROVE  (a \o b) \o c = a \o (b \o c)
<1>1. Len(a) \in Nat /\ Len(b) \in Nat /\ Len(c) \in Nat
  BY DEF IsSeq
<1> DEFINE ab == a \o b
<1> DEFINE bc == b \o c
<1>2. /\ IsSeq(ab) /\ Len(ab) = Len(a) + Len(b)
      /\ \A i \in 1..Len(a) : ab[i] = a[i]
      /\ \A i \in 1..Len(b) : ab[Len(a) + i] = b[i]
  BY Joined
<1>3. /\ IsSeq(bc) /\ Len(bc) = Len(b) + Len(c)
      /\ \A i \in 1..Len(b) : bc[i] = b[i]
      /\ \A i \in 1..Len(c) : bc[Len(b) + i] = c[i]
  BY Joined
<1> HIDE DEF ab, bc
<1>4. /\ IsSeq(ab \o c) /\ Len(ab \o c) = Len(ab) + Len(c)
      /\ \A i \in 1..Len(ab) : (ab \o c)[i] = ab[i]
      /\ \A i \in 1..Len(c) : (ab \o c)[Len(ab) + i] = c[i]
  <2>1. IsSeq(ab)
    BY <1>2
  <2> QED BY <2>1, Joined
<1>5. /\ IsSeq(a \o bc) /\ Len(a \o bc) = Len(a) + Len(bc)
      /\ \A i \in 1..Len(a) : (a \o bc)[i] = a[i]
      /\ \A i \in 1..Len(bc) : (a \o bc)[Len(a) + i] = bc[i]
  BY <1>3, Joined
<1>6. ASSUME NEW i \in 1..(Len(a) + Len(b) + Len(c)) PROVE (ab \o c)[i] = (a \o bc)[i]
  <2>1. CASE i \in 1..Len(a)
    BY <1>1, <1>2, <1>4, <1>5, <2>1
  <2>2. CASE i - Len(a) \in 1..Len(b)
    <3> DEFINE j == i - Len(a)
    <3>1. i = Len(a) + j /\ i \in 1..Len(ab) /\ j \in 1..Len(bc) /\ j \in 1..Len(b)
      BY <1>1, <1>2, <1>3, <2>2
    <3> HIDE DEF j
    <3>2. (ab \o c)[i] = ab[i] /\ ab[i] = b[j]
      BY <1>2, <1>4, <3>1
    <3>3. (a \o bc)[i] = bc[j] /\ bc[j] = b[j]
      BY <1>3, <1>5, <3>1
    <3> QED BY <3>2, <3>3
  <2>3. CASE i - (Len(a) + Len(b)) \in 1..Len(c)
    <3> DEFINE j == i - (Len(a) + Len(b))
    <3>1. i = Len(ab) + j /\ i = Len(a) + (Len(b) + j) /\ Len(b) + j \in 1..Len(bc) /\ j \in 1..Len(c)
      BY <1>1, <1>2, <1>3, <2>3
    <3> HIDE DEF j
    <3>2. (ab \o c)[i] = c[j]
      BY <1>4, <3>1
    <3>3. (a \o bc)[i] = bc[Len(b) + j] /\ bc[Len(b) + j] = c[j]
      BY <1>3, <1>5, <3>1
    <3> QED BY <3>2, <3>3
  <2>4. i \in Int /\ 1 <= i /\ i <= Len(a) + Len(b) + Len(c)
    BY <1>1
  <2>5. i \in 1..Len(a) \/ i - Len(a) \in 1..Len(b) \/ i - (Len(a) + Len(b)) \in 1..Len(c)
    BY <1>1, <2>4
  <2> QED BY <2>1, <2>2, <2>3, <2>5
<1>7. Len(ab \o c) = Len(a) + Len(b) + Len(c) /\ Len(a \o bc) = Len(a) + Len(b) + Len(c)
  BY <1>1, <1>2, <1>3, <1>4, <1>5
<1>8. ab \o c = a \o bc
  BY <1>4, <1>5, <1>6, <1>7, SameSeq
<1> QED BY <1>8 DEF ab, bc

\* and the empty sequence is its unit.
LEMMA JoinedNone ==
    ASSUME NEW a, IsSeq(a)
    PROVE  a \o <<>> = a /\ <<>> \o a = a
<1> DEFINE e == <<>>
<1>1. IsSeq(e) /\ Len(e) = 0
  BY DEF IsSeq
<1> HIDE DEF e
<1>2. /\ IsSeq(a \o e) /\ Len(a \o e) = Len(a) /\ \A i \in 1..Len(a) : (a \o e)[i] = a[i]
  BY <1>1, Joined DEF IsSeq
<1>3. /\ IsSeq(e \o a) /\ Len(e \o a) = Len(a) /\ \A i \in 1..Len(a) : (e \o a)[i] = a[i]
  <2>1. /\ IsSeq(e \o a) /\ Len(e \o a) = Len(e) + Len(a)
        /\ \A i \in 1..Len(a) : (e \o a)[Len(e) + i] = a[i]
    BY <1>1, Joined
  <2>2. \A i \in 1..Len(a) : Len(e) + i = i
    BY <1>1
  <2> QED BY <1>1, <2>1, <2>2 DEF IsSeq
<1>4. a \o e = a /\ e \o a = a
  BY <1>2, <1>3, SameSeq
<1> QED BY <1>4 DEF e

\* A sequence of sequences.
IsSeqs(s) == IsSeq(s) /\ \A i \in 1..Len(s) : IsSeq(s[i])

\* t is s with one element more.
Longer(s, t, x) ==
    /\ IsSeq(s) /\ IsSeq(t) /\ Len(t) = Len(s) + 1
    /\ \A i \in 1..Len(s) : t[i] = s[i]
    /\ t[Len(t)] = x

\* What is put together so far is a sequence,
LEMMA FlatToSeqs ==
    ASSUME NEW s, IsSeqs(s), NEW f, FlatTo(s, Len(s), f), NEW k \in 1..Len(s)
    PROVE  IsSeq(f[k])
<1>0. Len(s) \in Nat /\ \A i \in 1..Len(s) : IsSeq(s[i])
  BY DEF IsSeqs, IsSeq
<1>1. \A i \in 1..Len(s) : f[i] = IF i = 1 THEN s[i] ELSE f[i - 1] \o s[i]
  BY DEF FlatTo
<1> DEFINE T == {n \in Nat : n + 1 \in 1..Len(s) => IsSeq(f[n + 1])}
<1>2. 0 \in T
  BY <1>0, <1>1
<1>3. ASSUME NEW n \in Nat, n \in T PROVE n + 1 \in T
  <2> SUFFICES ASSUME n + 2 \in 1..Len(s) PROVE IsSeq(f[n + 2])
    BY <1>3
  <2>1. n + 1 \in 1..Len(s) /\ (n + 2) - 1 = n + 1 /\ n + 2 # 1
    BY <1>0
  <2>2. IsSeq(f[n + 1]) /\ IsSeq(s[n + 2])
    BY <1>0, <1>3, <2>1
  <2>3. f[n + 2] = f[n + 1] \o s[n + 2]
    BY <1>1, <2>1
  <2> QED BY <2>2, <2>3, Joined
<1> HIDE DEF T
<1>4. k - 1 \in T
  BY <1>0, <1>2, <1>3, ByNat
<1> QED BY <1>0, <1>4 DEF T

\* and depends on what was put together only.
LEMMA FlatToSame ==
    ASSUME NEW s, NEW t, NEW m \in Nat, NEW n \in Nat, m <= n, NEW f, NEW g,
           FlatTo(s, m, f), FlatTo(t, n, g), \A i \in 1..m : t[i] = s[i], NEW k \in 1..m
    PROVE  f[k] = g[k]
<1>1. \A i \in 1..m : f[i] = IF i = 1 THEN s[i] ELSE f[i - 1] \o s[i]
  BY DEF FlatTo
<1>2. \A i \in 1..m : g[i] = IF i = 1 THEN t[i] ELSE g[i - 1] \o t[i]
  <2>1. \A i \in 1..n : g[i] = IF i = 1 THEN t[i] ELSE g[i - 1] \o t[i]
    BY DEF FlatTo
  <2>2. \A i \in 1..m : i \in 1..n
    OBVIOUS
  <2> QED BY <2>1, <2>2
<1> DEFINE T == {x \in Nat : x + 1 \in 1..m => f[x + 1] = g[x + 1]}
<1>3. 0 \in T
  BY <1>1, <1>2
<1>4. ASSUME NEW x \in Nat, x \in T PROVE x + 1 \in T
  <2> SUFFICES ASSUME x + 2 \in 1..m PROVE f[x + 2] = g[x + 2]
    BY <1>4
  <2>1. x + 1 \in 1..m /\ (x + 2) - 1 = x + 1 /\ x + 2 # 1
    OBVIOUS
  <2>2. f[x + 2] = f[x + 1] \o s[x + 2] /\ g[x + 2] = g[x + 1] \o t[x + 2]
    BY <1>1, <1>2, <2>1
  <2> QED BY <1>4, <2>1, <2>2
<1> HIDE DEF T
<1>5. k - 1 \in T
  BY <1>3, <1>4, ByNat
<1> QED BY <1>5 DEF T

\* Nothing put together is nothing.
LEMMA FlatNothing == ASSUME NEW s, IsSeq(s), Len(s) = 0 PROVE FlattenSeq(s) = <<>> /\ s = <<>>
<1>1. s = <<>>
  <2>1. s = [i \in {} |-> s[i]]
    BY DEF IsSeq
  <2>2. <<>> = [i \in {} |-> s[i]]
    OBVIOUS
  <2> QED BY <2>1, <2>2
<1>2. FlattenSeq(s) = s
  BY DEF FlattenSeq
<1> QED BY <1>1, <1>2

\* What is put together is a sequence.
LEMMA FlatIsSeq == ASSUME NEW s, IsSeqs(s) PROVE IsSeq(FlattenSeq(s))
<1>1. CASE Len(s) = 0
  <2>1. FlattenSeq(s) = <<>>
    BY <1>1, FlatNothing DEF IsSeqs
  <2> QED BY <2>1 DEF IsSeq
<1>2. CASE Len(s) # 0
  <2>1. Len(s) \in Nat
    BY DEF IsSeqs, IsSeq
  <2>2. PICK f : FlatTo(s, Len(s), f) /\ FlattenSeq(s) = f[Len(s)]
    BY <1>2, <2>1, FlatDef
  <2>3. Len(s) \in 1..Len(s)
    BY <1>2, <2>1
  <2> QED BY <2>2, <2>3, FlatToSeqs
<1> QED BY <1>1, <1>2

\* One more is put last.
LEMMA FlatLonger ==
    ASSUME NEW s, NEW t, NEW x, IsSeqs(t), Longer(s, t, x)
    PROVE  FlattenSeq(t) = FlattenSeq(s) \o x /\ IsSeqs(s)
<1>0. /\ Len(s) \in Nat /\ Len(t) = Len(s) + 1 /\ \A i \in 1..Len(s) : t[i] = s[i]
      /\ t[Len(t)] = x /\ IsSeq(s)
  BY DEF Longer, IsSeq
<1>1. IsSeqs(s) /\ IsSeq(x)
  BY <1>0 DEF IsSeqs
<1>2. PICK g : FlatTo(t, Len(t), g) /\ FlattenSeq(t) = g[Len(t)]
  BY <1>0, FlatDef
<1>3. g[Len(t)] = IF Len(t) = 1 THEN x ELSE g[Len(s)] \o x
  <2>1. \A i \in 1..Len(t) : g[i] = IF i = 1 THEN t[i] ELSE g[i - 1] \o t[i]
    BY <1>2 DEF FlatTo
  <2>2. Len(t) \in 1..Len(t) /\ Len(t) - 1 = Len(s)
    BY <1>0
  <2> QED BY <1>0, <2>1, <2>2
<1>4. CASE Len(s) = 0
  <2>1. FlattenSeq(s) = <<>>
    BY <1>0, <1>4, FlatNothing
  <2> QED BY <1>0, <1>1, <1>2, <1>3, <1>4, <2>1, JoinedNone
<1>5. CASE Len(s) # 0
  <2>1. PICK f : FlatTo(s, Len(s), f) /\ FlattenSeq(s) = f[Len(s)]
    BY <1>0, <1>5, FlatDef
  <2>2. Len(s) \in 1..Len(s) /\ Len(t) \in Nat /\ Len(s) <= Len(t)
    BY <1>0, <1>5
  <2>3. f[Len(s)] = g[Len(s)]
    <3> DEFINE m == Len(s)
    <3> DEFINE n == Len(t)
    <3>1. m \in Nat /\ n \in Nat /\ m <= n /\ m \in 1..m
      BY <1>0, <2>2
    <3>2. FlatTo(s, m, f) /\ FlatTo(t, n, g) /\ \A i \in 1..m : t[i] = s[i]
      BY <1>0, <1>2, <2>1
    <3> HIDE DEF m, n
    <3>3. f[m] = g[m]
      BY <3>1, <3>2, FlatToSame
    <3> QED BY <3>3 DEF m
  <2> QED BY <1>0, <1>1, <1>2, <1>3, <1>5, <2>1, <2>3
<1> QED BY <1>1, <1>4, <1>5

\* Equal sequences are put together equally.
LEMMA FlatNone ==
    ASSUME NEW s, IsSeq(s), \A i \in 1..Len(s) : s[i] = <<>>
    PROVE  FlattenSeq(s) = <<>>
<1> DEFINE T == {n \in Nat : \A t : IsSeq(t) /\ Len(t) = n /\ (\A i \in 1..n : t[i] = <<>>)
                                     => FlattenSeq(t) = <<>>}
<1>1. 0 \in T
  BY FlatNothing
<1>2. ASSUME NEW n \in Nat, n \in T PROVE n + 1 \in T
  <2> SUFFICES ASSUME NEW t, IsSeq(t), Len(t) = n + 1, \A i \in 1..(n + 1) : t[i] = <<>>
               PROVE  FlattenSeq(t) = <<>>
    OBVIOUS
  <2> DEFINE r == UpTo(t, n)
  <2>1. IsSeq(r) /\ Len(r) = n /\ \A i \in 1..n : r[i] = t[i]
    BY FirstPart
  <2> HIDE DEF r
  <2>2. \A i \in 1..n : r[i] = <<>>
    <3> TAKE i \in 1..n
    <3>1. i \in 1..(n + 1)
      OBVIOUS
    <3>2. r[i] = t[i]
      BY <2>1
    <3> QED BY <3>1, <3>2
  <2>3. FlattenSeq(r) = <<>>
    BY <1>2, <2>1, <2>2
  <2>4. Longer(r, t, <<>>) /\ IsSeqs(t)
    BY <2>1, Tuples DEF Longer, IsSeqs
  <2>5. FlattenSeq(t) = <<>> \o <<>>
    BY <2>3, <2>4, FlatLonger
  <2> QED BY <2>5, Tuples, JoinedNone
<1> HIDE DEF T
<1>3. Len(s) \in T
  BY <1>1, <1>2, ByNat DEF IsSeq
<1> QED BY <1>3 DEF T

\* What comes in two parts is put together in two.
LEMMA FlatJoined ==
    ASSUME NEW a, NEW b, IsSeqs(a), IsSeqs(b)
    PROVE  FlattenSeq(a \o b) = FlattenSeq(a) \o FlattenSeq(b) /\ IsSeqs(a \o b)
<1>0. IsSeq(a) /\ Len(a) \in Nat /\ \A i \in 1..Len(a) : IsSeq(a[i])
  BY DEF IsSeqs, IsSeq
<1> DEFINE T == {n \in Nat : \A c : IsSeqs(c) /\ Len(c) = n =>
                    FlattenSeq(a \o c) = FlattenSeq(a) \o FlattenSeq(c) /\ IsSeqs(a \o c)}
<1>1. 0 \in T
  <2> SUFFICES ASSUME NEW c, IsSeqs(c), Len(c) = 0
               PROVE  FlattenSeq(a \o c) = FlattenSeq(a) \o FlattenSeq(c) /\ IsSeqs(a \o c)
    OBVIOUS
  <2>1. c = <<>> /\ FlattenSeq(c) = <<>>
    BY FlatNothing DEF IsSeqs
  <2>2. a \o c = a /\ FlattenSeq(a) \o FlattenSeq(c) = FlattenSeq(a)
    <3>1. IsSeq(FlattenSeq(a))
      BY FlatIsSeq
    <3>2. a \o <<>> = a
      BY <1>0, JoinedNone
    <3>3. FlattenSeq(a) \o <<>> = FlattenSeq(a)
      BY <3>1, JoinedNone
    <3> QED BY <2>1, <3>2, <3>3
  <2> QED BY <2>2
<1>2. ASSUME NEW n \in Nat, n \in T PROVE n + 1 \in T
  <2> SUFFICES ASSUME NEW c, IsSeqs(c), Len(c) = n + 1
               PROVE  FlattenSeq(a \o c) = FlattenSeq(a) \o FlattenSeq(c) /\ IsSeqs(a \o c)
    OBVIOUS
  <2> DEFINE r == UpTo(c, n)
  <2> DEFINE x == c[n + 1]
  <2>1. IsSeq(c) /\ IsSeq(x) /\ \A i \in 1..(n + 1) : IsSeq(c[i])
    BY DEF IsSeqs
  <2>2. IsSeq(r) /\ Len(r) = n /\ \A i \in 1..n : r[i] = c[i]
    BY <2>1, FirstPart
  <2> HIDE DEF r
  <2>3. IsSeqs(r) /\ Longer(r, c, x)
    BY <2>1, <2>2 DEF IsSeqs, Longer
  <2>4. FlattenSeq(a \o r) = FlattenSeq(a) \o FlattenSeq(r) /\ IsSeqs(a \o r)
    BY <1>2, <2>2, <2>3
  <2>5. /\ IsSeq(a \o c) /\ Len(a \o c) = Len(a) + (n + 1)
        /\ \A i \in 1..Len(a) : (a \o c)[i] = a[i]
        /\ \A i \in 1..(n + 1) : (a \o c)[Len(a) + i] = c[i]
    BY <1>0, <2>1, Joined
  <2>6. /\ IsSeq(a \o r) /\ Len(a \o r) = Len(a) + n
        /\ \A i \in 1..Len(a) : (a \o r)[i] = a[i]
        /\ \A i \in 1..n : (a \o r)[Len(a) + i] = r[i]
    BY <1>0, <2>2, Joined
  <2> DEFINE p == a \o r
  <2> DEFINE q == a \o c
  <2>7. \A i \in 1..(Len(a) + n) : q[i] = p[i]
    <3> TAKE i \in 1..(Len(a) + n)
    <3>1. CASE i \in 1..Len(a)
      BY <3>1, <2>5, <2>6
    <3>2. CASE i - Len(a) \in 1..n
      <4> DEFINE j == i - Len(a)
      <4>1. j \in 1..n /\ j \in 1..(n + 1) /\ i = Len(a) + j
        BY <1>0, <3>2
      <4> HIDE DEF j
      <4> QED BY <4>1, <2>2, <2>5, <2>6
    <3>3. i \in Int /\ 1 <= i /\ i <= Len(a) + n
      BY <1>0
    <3>4. i \in 1..Len(a) \/ i - Len(a) \in 1..n
      BY <1>0, <3>3
    <3> QED BY <3>1, <3>2, <3>4
  <2>8. q[Len(a) + (n + 1)] = x
    BY <2>5
  <2>9. IsSeqs(q)
    <3>1. \A i \in 1..(Len(a) + n) : IsSeq(p[i])
      BY <2>4, <2>6 DEF IsSeqs
    <3>2. \A i \in 1..(Len(a) + (n + 1)) : i \in 1..(Len(a) + n) \/ i = Len(a) + (n + 1)
      BY <1>0
    <3>3. \A i \in 1..(Len(a) + (n + 1)) : IsSeq(q[i])
      <4> HIDE DEF p, q, x
      <4> QED BY <2>1, <2>7, <2>8, <3>1, <3>2
    <3> QED BY <2>5, <3>3 DEF IsSeqs
  <2>10. Longer(p, q, x)
    <3>1. Len(p) = Len(a) + n /\ Len(q) = Len(p) + 1 /\ Len(q) = Len(a) + (n + 1)
      BY <1>0, <2>5, <2>6
    <3>2. IsSeq(p) /\ IsSeq(q)
      BY <2>5, <2>6
    <3>3. \A i \in 1..Len(p) : q[i] = p[i]
      BY <2>7, <3>1
    <3>4. q[Len(q)] = x
      BY <2>8, <3>1
    <3> HIDE DEF p, q, x
    <3> QED BY <3>1, <3>2, <3>3, <3>4 DEF Longer
  <2>11. FlattenSeq(q) = FlattenSeq(p) \o x /\ FlattenSeq(c) = FlattenSeq(r) \o x
    <3> HIDE DEF p, q, x
    <3> QED BY <2>3, <2>9, <2>10, FlatLonger
  <2>12. FlattenSeq(p) = FlattenSeq(a) \o FlattenSeq(r)
    BY <2>4
  <2>13. (FlattenSeq(a) \o FlattenSeq(r)) \o x = FlattenSeq(a) \o (FlattenSeq(r) \o x)
    <3>1. IsSeq(FlattenSeq(a)) /\ IsSeq(FlattenSeq(r))
      BY <2>3, FlatIsSeq
    <3>2. IsSeq(x)
      BY <2>1
    <3> HIDE DEF x
    <3> QED BY <3>1, <3>2, JoinedThrice
  <2> QED BY <2>9, <2>11, <2>12, <2>13
<1> HIDE DEF T
<1>3. Len(b) \in T
  BY <1>1, <1>2, ByNat DEF IsSeqs, IsSeq
<1> QED BY <1>3 DEF T

\* Where one part is all there is, it is the whole.
LEMMA FlatOnly ==
    ASSUME NEW s, IsSeq(s), NEW j \in 1..Len(s), IsSeq(s[j]),
           \A i \in 1..Len(s) : i # j => s[i] = <<>>
    PROVE  FlattenSeq(s) = s[j]
<1> DEFINE T == {n \in Nat : \A t : \A k \in 1..n :
                    IsSeq(t) /\ Len(t) = n /\ IsSeq(t[k]) /\ (\A i \in 1..n : i # k => t[i] = <<>>)
                    => FlattenSeq(t) = t[k]}
<1>1. 0 \in T
  OBVIOUS
<1>2. ASSUME NEW n \in Nat, n \in T PROVE n + 1 \in T
  <2> SUFFICES ASSUME NEW t, NEW k \in 1..(n + 1), IsSeq(t), Len(t) = n + 1, IsSeq(t[k]),
                      \A i \in 1..(n + 1) : i # k => t[i] = <<>>
               PROVE  FlattenSeq(t) = t[k]
    OBVIOUS
  <2> DEFINE r == UpTo(t, n)
  <2>1. IsSeq(r) /\ Len(r) = n /\ \A i \in 1..n : r[i] = t[i]
    BY FirstPart
  <2> HIDE DEF r
  <2>2. IsSeqs(t)
    <3>1. \A i \in 1..(n + 1) : IsSeq(t[i])
      BY Tuples
    <3> QED BY <3>1 DEF IsSeqs
  <2>3. Longer(r, t, t[n + 1])
    BY <2>1 DEF Longer
  <2>4. FlattenSeq(t) = FlattenSeq(r) \o t[n + 1]
    BY <2>2, <2>3, FlatLonger
  <2>5. CASE k = n + 1
    <3>1. \A i \in 1..n : r[i] = <<>>
      <4> TAKE i \in 1..n
      <4>1. i \in 1..(n + 1) /\ i # k
        BY <2>5
      <4> QED BY <2>1, <4>1
    <3>2. FlattenSeq(r) = <<>>
      BY <2>1, <3>1, FlatNone
    <3> QED BY <2>4, <2>5, <3>2, JoinedNone
  <2>6. CASE k # n + 1
    <3>1. k \in 1..n /\ n + 1 \in 1..(n + 1)
      BY <2>6
    <3>2. r[k] = t[k] /\ t[n + 1] = <<>>
      BY <2>1, <2>6, <3>1
    <3>3. \A i \in 1..n : i # k => r[i] = <<>>
      <4> TAKE i \in 1..n
      <4>1. i \in 1..(n + 1)
        OBVIOUS
      <4> QED BY <2>1, <4>1
    <3>4. FlattenSeq(r) = r[k]
      BY <1>2, <2>1, <3>1, <3>2, <3>3
    <3> QED BY <2>4, <3>2, <3>4, JoinedNone
  <2> QED BY <2>5, <2>6
<1> HIDE DEF T
<1>3. Len(s) \in T
  BY <1>1, <1>2, ByNat DEF IsSeq
<1> QED BY <1>3 DEF T

\* The first part comes first.
LEMMA FlatHead ==
    ASSUME NEW s, NEW t, IsSeqs(s), IsSeq(t), Len(s) = Len(t) + 1,
           \A i \in 1..Len(t) : t[i] = s[i + 1]
    PROVE  FlattenSeq(s) = s[1] \o FlattenSeq(t) /\ IsSeqs(t)
<1>1. Len(t) \in Nat /\ IsSeq(s) /\ \A i \in 1..Len(s) : IsSeq(s[i])
  BY DEF IsSeqs, IsSeq
<1>2. IsSeqs(t)
  <2>1. \A i \in 1..Len(t) : i + 1 \in 1..Len(s)
    BY <1>1
  <2>2. \A i \in 1..Len(t) : IsSeq(t[i])
    BY <1>1, <2>1
  <2> QED BY <2>2 DEF IsSeqs
<1> DEFINE x == s[1]
<1> DEFINE h == <<x>>
<1>3. IsSeq(x) /\ IsSeq(h) /\ Len(h) = 1 /\ h[1] = x
  BY <1>1, Tuples
<1> HIDE DEF h
<1>4. IsSeqs(h)
  <2>1. \A i \in 1..1 : i = 1
    OBVIOUS
  <2> QED BY <1>3, <2>1 DEF IsSeqs
<1>5. FlattenSeq(h) = x
  <2>1. 1 \in 1..Len(h) /\ \A i \in 1..Len(h) : i = 1
    BY <1>3
  <2>2. IsSeq(h[1])
    BY <1>3
  <2> QED BY <1>3, <2>1, <2>2, FlatOnly
<1>6. s = h \o t
  <2>1. /\ IsSeq(h \o t) /\ Len(h \o t) = Len(h) + Len(t)
        /\ \A i \in 1..Len(h) : (h \o t)[i] = h[i]
        /\ \A i \in 1..Len(t) : (h \o t)[Len(h) + i] = t[i]
    <3>1. IsSeq(h) /\ IsSeq(t)
      BY <1>3
    <3> QED BY <3>1, Joined
  <2>2. Len(h \o t) = Len(s) /\ (h \o t)[1] = x
    BY <1>1, <1>3, <2>1
  <2>3. \A i \in 1..Len(t) : (h \o t)[i + 1] = t[i]
    <3> TAKE i \in 1..Len(t)
    <3>1. Len(h) + i = i + 1
      BY <1>1, <1>3
    <3>2. (h \o t)[Len(h) + i] = t[i]
      BY <2>1
    <3> QED BY <3>1, <3>2
  <2>4. ASSUME NEW i \in 1..Len(s) PROVE s[i] = (h \o t)[i]
    <3>1. CASE i = 1
      BY <2>2, <3>1
    <3>2. CASE i # 1
      <4>1. i - 1 \in 1..Len(t) /\ (i - 1) + 1 = i
        BY <1>1, <3>2
      <4> QED BY <2>3, <4>1
    <3> QED BY <3>1, <3>2
  <2> QED BY <1>1, <2>1, <2>2, <2>4, SameSeq
<1>7. FlattenSeq(h \o t) = FlattenSeq(h) \o FlattenSeq(t)
  BY <1>2, <1>4, FlatJoined
<1> QED BY <1>2, <1>5, <1>6, <1>7

(***************************************************************************)
(* What the client puts together is what responsesStream keeps.            *)
(***************************************************************************)

\* Reassembled and Items, of any log.
Brought(L, at) == [i \in DOMAIN L |-> DeltaOf(L[i], at)]
DeltasIn(L, at) == FlattenSeq(Brought(L, at))
Added(L, kind) == [i \in DOMAIN L |-> ItemOf(L[i], kind)]
ItemsIn(L, kind) == FlattenSeq(Added(L, kind))

\* What the events of a log carry are sequences.
DataSeqs(L) == IsSeq(L) /\ \A i \in 1..Len(L) : IsSeq(L[i].data)

\* A sequence known by its elements is the concatenation.
LEMMA KnownJoined ==
    ASSUME NEW p, NEW q, NEW r, IsSeq(p), IsSeq(q), IsSeq(r), Len(r) = Len(p) + Len(q),
           \A i \in 1..Len(p) : r[i] = p[i], \A i \in 1..Len(q) : r[Len(p) + i] = q[i]
    PROVE  r = p \o q
<1>1. Len(p) \in Nat /\ Len(q) \in Nat
  BY DEF IsSeq
<1>2. /\ IsSeq(p \o q) /\ Len(p \o q) = Len(p) + Len(q)
      /\ \A i \in 1..Len(p) : (p \o q)[i] = p[i]
      /\ \A i \in 1..Len(q) : (p \o q)[Len(p) + i] = q[i]
  BY Joined
<1>3. ASSUME NEW i \in 1..Len(r) PROVE r[i] = (p \o q)[i]
  <2>1. CASE i \in 1..Len(p)
    BY <2>1, <1>2
  <2>2. CASE i - Len(p) \in 1..Len(q)
    <3> DEFINE j == i - Len(p)
    <3>1. j \in 1..Len(q) /\ i = Len(p) + j
      BY <1>1, <2>2
    <3> HIDE DEF j
    <3> QED BY <1>2, <3>1
  <2>3. i \in Int /\ 1 <= i /\ i <= Len(p) + Len(q)
    BY <1>1
  <2>4. i \in 1..Len(p) \/ i - Len(p) \in 1..Len(q)
    BY <1>1, <2>3
  <2> QED BY <2>1, <2>2, <2>4
<1> QED BY <1>2, <1>3, SameSeq

\* What each event brings is a sequence.
LEMMA DeltasAreSeqs ==
    ASSUME NEW L, DataSeqs(L), NEW at
    PROVE  /\ IsSeqs(Brought(L, at)) /\ Len(Brought(L, at)) = Len(L)
           /\ \A i \in 1..Len(L) : Brought(L, at)[i] = DeltaOf(L[i], at)
           /\ IsSeq(DeltasIn(L, at))
<1> DEFINE f == Brought(L, at)
<1>1. DOMAIN L = 1..Len(L) /\ Len(L) \in Nat /\ \A i \in 1..Len(L) : IsSeq(L[i].data)
  BY DEF DataSeqs, IsSeq
<1>2. \A i \in 1..Len(L) : f[i] = DeltaOf(L[i], at)
  BY <1>1 DEF Brought
<1>3. IsSeq(f) /\ Len(f) = Len(L)
  <2>1. f = [i \in 1..Len(L) |-> f[i]]
    BY <1>1 DEF Brought
  <2> HIDE DEF f
  <2> QED BY <1>1, <2>1, MappedIsSeq
<1>4. \A i \in 1..Len(L) : IsSeq(DeltaOf(L[i], at))
  BY <1>1, Tuples DEF DeltaOf
<1> HIDE DEF f
<1>5. IsSeqs(f)
  BY <1>2, <1>3, <1>4 DEF IsSeqs
<1>6. IsSeq(FlattenSeq(f))
  BY <1>5, FlatIsSeq
<1> QED BY <1>2, <1>3, <1>5, <1>6 DEF f, DeltasIn

LEMMA ItemsAreSeqs ==
    ASSUME NEW L, IsSeq(L), NEW kind
    PROVE  /\ IsSeqs(Added(L, kind)) /\ Len(Added(L, kind)) = Len(L)
           /\ \A i \in 1..Len(L) : Added(L, kind)[i] = ItemOf(L[i], kind)
           /\ IsSeq(ItemsIn(L, kind))
<1> DEFINE f == Added(L, kind)
<1>1. DOMAIN L = 1..Len(L) /\ Len(L) \in Nat
  BY DEF IsSeq
<1>2. \A i \in 1..Len(L) : f[i] = ItemOf(L[i], kind)
  BY <1>1 DEF Added
<1>3. IsSeq(f) /\ Len(f) = Len(L)
  <2>1. f = [i \in 1..Len(L) |-> f[i]]
    BY <1>1 DEF Added
  <2> HIDE DEF f
  <2> QED BY <1>1, <2>1, MappedIsSeq
<1>4. \A i \in 1..Len(L) : IsSeq(ItemOf(L[i], kind))
  BY Tuples DEF ItemOf
<1> HIDE DEF f
<1>5. IsSeqs(f)
  BY <1>2, <1>3, <1>4 DEF IsSeqs
<1>6. IsSeq(FlattenSeq(f))
  BY <1>5, FlatIsSeq
<1> QED BY <1>2, <1>3, <1>5, <1>6 DEF f, ItemsIn

\* M is L and then es, but for the numbers.
Followed(L, es, M) ==
    /\ DataSeqs(L) /\ DataSeqs(es) /\ DataSeqs(M) /\ Len(M) = Len(L) + Len(es)
    /\ \A i \in 1..Len(L) : M[i] = L[i]
    /\ \A i \in 1..Len(es) : /\ M[Len(L) + i].kind = es[i].kind /\ M[Len(L) + i].at = es[i].at
                             /\ M[Len(L) + i].data = es[i].data

\* What is put together of a log that goes on.
LEMMA FollowedDeltas ==
    ASSUME NEW L, NEW es, NEW M, Followed(L, es, M), NEW at
    PROVE  DeltasIn(M, at) = DeltasIn(L, at) \o DeltasIn(es, at)
<1> DEFINE p == Brought(L, at)
<1> DEFINE q == Brought(es, at)
<1> DEFINE r == Brought(M, at)
<1>1. /\ IsSeqs(p) /\ Len(p) = Len(L) /\ \A i \in 1..Len(L) : p[i] = DeltaOf(L[i], at)
  BY DeltasAreSeqs DEF Followed
<1>2. /\ IsSeqs(q) /\ Len(q) = Len(es) /\ \A i \in 1..Len(es) : q[i] = DeltaOf(es[i], at)
  BY DeltasAreSeqs DEF Followed
<1>3. /\ IsSeqs(r) /\ Len(r) = Len(M) /\ \A i \in 1..Len(M) : r[i] = DeltaOf(M[i], at)
  BY DeltasAreSeqs DEF Followed
<1>4. DeltasIn(L, at) = FlattenSeq(p) /\ DeltasIn(es, at) = FlattenSeq(q) /\ DeltasIn(M, at) = FlattenSeq(r)
  BY DEF DeltasIn
<1> HIDE DEF p, q, r
<1>5. Len(L) \in Nat /\ Len(es) \in Nat /\ Len(M) = Len(L) + Len(es)
  BY DEF Followed, DataSeqs, IsSeq
<1>6. \A i \in 1..Len(p) : r[i] = p[i]
  BY <1>1, <1>3, <1>5 DEF Followed
<1>7. \A i \in 1..Len(q) : r[Len(p) + i] = q[i]
  <2> TAKE i \in 1..Len(q)
  <2>1. Len(L) + i \in 1..Len(M) /\ i \in 1..Len(es)
    BY <1>2, <1>5
  <2>2. DeltaOf(M[Len(L) + i], at) = DeltaOf(es[i], at)
    BY <2>1 DEF Followed, DeltaOf
  <2> QED BY <1>1, <1>2, <1>3, <2>1, <2>2
<1>8. r = p \o q
  <2>1. IsSeq(p) /\ IsSeq(q) /\ IsSeq(r) /\ Len(r) = Len(p) + Len(q)
    BY <1>1, <1>2, <1>3, <1>5 DEF IsSeqs
  <2> QED BY <1>6, <1>7, <2>1, KnownJoined
<1>9. IsSeqs(p) /\ IsSeqs(q)
  BY <1>1, <1>2
<1>10. FlattenSeq(p \o q) = FlattenSeq(p) \o FlattenSeq(q)
  BY <1>9, FlatJoined
<1> QED BY <1>4, <1>8, <1>10

LEMMA FollowedItems ==
    ASSUME NEW L, NEW es, NEW M, Followed(L, es, M), NEW kind
    PROVE  ItemsIn(M, kind) = ItemsIn(L, kind) \o ItemsIn(es, kind)
<1> DEFINE p == Added(L, kind)
<1> DEFINE q == Added(es, kind)
<1> DEFINE r == Added(M, kind)
<1>1. /\ IsSeqs(p) /\ Len(p) = Len(L) /\ \A i \in 1..Len(L) : p[i] = ItemOf(L[i], kind)
  BY ItemsAreSeqs DEF Followed, DataSeqs
<1>2. /\ IsSeqs(q) /\ Len(q) = Len(es) /\ \A i \in 1..Len(es) : q[i] = ItemOf(es[i], kind)
  BY ItemsAreSeqs DEF Followed, DataSeqs
<1>3. /\ IsSeqs(r) /\ Len(r) = Len(M) /\ \A i \in 1..Len(M) : r[i] = ItemOf(M[i], kind)
  BY ItemsAreSeqs DEF Followed, DataSeqs
<1>4. ItemsIn(L, kind) = FlattenSeq(p) /\ ItemsIn(es, kind) = FlattenSeq(q) /\ ItemsIn(M, kind) = FlattenSeq(r)
  BY DEF ItemsIn
<1> HIDE DEF p, q, r
<1>5. Len(L) \in Nat /\ Len(es) \in Nat /\ Len(M) = Len(L) + Len(es)
  BY DEF Followed, DataSeqs, IsSeq
<1>6. \A i \in 1..Len(p) : r[i] = p[i]
  BY <1>1, <1>3, <1>5 DEF Followed
<1>7. \A i \in 1..Len(q) : r[Len(p) + i] = q[i]
  <2> TAKE i \in 1..Len(q)
  <2>1. Len(L) + i \in 1..Len(M) /\ i \in 1..Len(es)
    BY <1>2, <1>5
  <2>2. ItemOf(M[Len(L) + i], kind) = ItemOf(es[i], kind)
    BY <2>1 DEF Followed, ItemOf
  <2> QED BY <1>1, <1>2, <1>3, <2>1, <2>2
<1>8. r = p \o q
  <2>1. IsSeq(p) /\ IsSeq(q) /\ IsSeq(r) /\ Len(r) = Len(p) + Len(q)
    BY <1>1, <1>2, <1>3, <1>5 DEF IsSeqs
  <2> QED BY <1>6, <1>7, <2>1, KnownJoined
<1>9. IsSeqs(p) /\ IsSeqs(q)
  BY <1>1, <1>2
<1>10. FlattenSeq(p \o q) = FlattenSeq(p) \o FlattenSeq(q)
  BY <1>9, FlatJoined
<1> QED BY <1>4, <1>8, <1>10

\* send, with what the events carry.
LEMMA SentData ==
    ASSUME NEW es, DataSeqs(events), DataSeqs(es), Send(es)
    PROVE  Followed(events, es, events')
<1> DEFINE new == [i \in DOMAIN es |-> [kind |-> es[i].kind, at |-> es[i].at,
                               data |-> es[i].data, n |-> seq + i - 1]]
<1>1. DOMAIN es = 1..Len(es) /\ Len(es) \in Nat /\ Len(events) \in Nat /\ IsSeq(events) /\ IsSeq(es)
  BY DEF DataSeqs, IsSeq
<1>2. \A i \in 1..Len(es) : new[i].kind = es[i].kind /\ new[i].at = es[i].at /\ new[i].data = es[i].data
  BY <1>1
<1>3. IsSeq(new) /\ Len(new) = Len(es)
  <2>1. new = [i \in 1..Len(es) |-> new[i]]
    BY <1>1
  <2> HIDE DEF new
  <2> QED BY <1>1, <2>1, MappedIsSeq
<1>4. events' = events \o new
  BY DEF Send
<1> HIDE DEF new
<1>5. /\ IsSeq(events') /\ Len(events') = Len(events) + Len(es)
      /\ \A i \in 1..Len(events) : events'[i] = events[i]
      /\ \A i \in 1..Len(es) : events'[Len(events) + i] = new[i]
  BY <1>1, <1>3, <1>4, Joined, SMTT(60)
<1>6. \A i \in 1..Len(es) : /\ events'[Len(events) + i].kind = es[i].kind
                            /\ events'[Len(events) + i].at = es[i].at
                            /\ events'[Len(events) + i].data = es[i].data
  BY <1>2, <1>5
<1>7. ASSUME NEW i \in 1..Len(events') PROVE IsSeq(events'[i].data)
  <2>1. CASE i \in 1..Len(events)
    BY <1>5, <2>1 DEF DataSeqs
  <2>2. CASE i - Len(events) \in 1..Len(es)
    <3> DEFINE j == i - Len(events)
    <3>1. j \in 1..Len(es) /\ i = Len(events) + j
      BY <1>1, <2>2
    <3> HIDE DEF j
    <3> QED BY <1>6, <3>1 DEF DataSeqs
  <2>3. i \in Int /\ 1 <= i /\ i <= Len(events) + Len(es)
    BY <1>1, <1>5
  <2>4. i \in 1..Len(events) \/ i - Len(events) \in 1..Len(es)
    BY <1>1, <2>3
  <2> QED BY <2>1, <2>2, <2>4
<1>8. DataSeqs(events')
  BY <1>5, <1>7 DEF DataSeqs
<1> QED BY <1>5, <1>6, <1>8 DEF Followed

(***************************************************************************)
(* The log says what responsesStream holds: the text item its text, every  *)
(* call its arguments.                                                     *)
(***************************************************************************)

\* Events that are no deltas of an item bring nothing of it.
LEMMA DeltasNone ==
    ASSUME NEW L, DataSeqs(L), NEW at,
           \A i \in 1..Len(L) : L[i].kind \in Deltas => L[i].at # at
    PROVE  DeltasIn(L, at) = <<>>
<1> DEFINE f == Brought(L, at)
<1>1. IsSeqs(f) /\ Len(f) = Len(L) /\ \A i \in 1..Len(L) : f[i] = DeltaOf(L[i], at)
  BY DeltasAreSeqs
<1>2. \A i \in 1..Len(L) : DeltaOf(L[i], at) = <<>>
  BY DEF DeltaOf
<1>3. DeltasIn(L, at) = FlattenSeq(f)
  BY DEF DeltasIn
<1> HIDE DEF f
<1>4. IsSeq(f) /\ \A i \in 1..Len(f) : f[i] = <<>>
  BY <1>1, <1>2 DEF IsSeqs
<1> QED BY <1>3, <1>4, FlatNone

\* One delta brings all there is of its item.
LEMMA DeltasOnly ==
    ASSUME NEW L, DataSeqs(L), NEW at, NEW j \in 1..Len(L), L[j].kind \in Deltas, L[j].at = at,
           \A i \in 1..Len(L) : i # j => L[i].kind \notin Deltas
    PROVE  DeltasIn(L, at) = L[j].data
<1> DEFINE f == Brought(L, at)
<1>1. IsSeqs(f) /\ Len(f) = Len(L) /\ \A i \in 1..Len(L) : f[i] = DeltaOf(L[i], at)
  BY DeltasAreSeqs
<1>2. \A i \in 1..Len(L) : DeltaOf(L[i], at) = IF i = j THEN L[j].data ELSE <<>>
  BY DEF DeltaOf
<1>3. DeltasIn(L, at) = FlattenSeq(f)
  BY DEF DeltasIn
<1> HIDE DEF f
<1>4. /\ IsSeq(f) /\ j \in 1..Len(f) /\ f[j] = L[j].data /\ IsSeq(f[j])
      /\ \A i \in 1..Len(f) : i # j => f[i] = <<>>
  BY <1>1, <1>2 DEF IsSeqs
<1>5. FlattenSeq(f) = f[j]
  BY <1>4, FlatOnly
<1> QED BY <1>3, <1>4, <1>5

\* Likewise the items.
LEMMA ItemsNone ==
    ASSUME NEW L, IsSeq(L), NEW kind, \A i \in 1..Len(L) : L[i].kind # kind
    PROVE  ItemsIn(L, kind) = <<>>
<1> DEFINE f == Added(L, kind)
<1>1. IsSeqs(f) /\ Len(f) = Len(L) /\ \A i \in 1..Len(L) : f[i] = ItemOf(L[i], kind)
  BY ItemsAreSeqs
<1>2. \A i \in 1..Len(L) : ItemOf(L[i], kind) = <<>>
  BY DEF ItemOf
<1>3. ItemsIn(L, kind) = FlattenSeq(f)
  BY DEF ItemsIn
<1> HIDE DEF f
<1>4. IsSeq(f) /\ \A i \in 1..Len(f) : f[i] = <<>>
  BY <1>1, <1>2 DEF IsSeqs
<1> QED BY <1>3, <1>4, FlatNone

LEMMA ItemsOnly ==
    ASSUME NEW L, IsSeq(L), NEW kind, NEW j \in 1..Len(L), L[j].kind = kind,
           \A i \in 1..Len(L) : i # j => L[i].kind # kind
    PROVE  ItemsIn(L, kind) = <<L[j].at>>
<1> DEFINE f == Added(L, kind)
<1>1. IsSeqs(f) /\ Len(f) = Len(L) /\ \A i \in 1..Len(L) : f[i] = ItemOf(L[i], kind)
  BY ItemsAreSeqs
<1>2. \A i \in 1..Len(L) : ItemOf(L[i], kind) = IF i = j THEN <<L[j].at>> ELSE <<>>
  BY DEF ItemOf
<1>3. ItemsIn(L, kind) = FlattenSeq(f)
  BY DEF ItemsIn
<1> HIDE DEF f
<1>4. /\ IsSeq(f) /\ j \in 1..Len(f) /\ f[j] = <<L[j].at>> /\ IsSeq(f[j])
      /\ \A i \in 1..Len(f) : i # j => f[i] = <<>>
  BY <1>1, <1>2 DEF IsSeqs
<1>5. FlattenSeq(f) = f[j]
  BY <1>4, FlatOnly
<1> QED BY <1>3, <1>4, <1>5

\* The text item's deltas are the text,
TextSays ==
    /\ IsSeq(text)
    /\ textIdx = NoItem => text = <<>>
    /\ textIdx # NoItem => text # <<>> /\ DeltasIn(events, textIdx) = text

\* a call's are its arguments,
CallsSay ==
    \A k \in DOMAIN tools : /\ IsSeq(tools[k].args)
                            /\ DeltasIn(events, tools[k].idx) = tools[k].args

\* an item that is still to come has none,
NewSays == \A x \in Nat : x >= nextIdx => DeltasIn(events, x) = <<>>

\* and the items are the text's and the calls', in order.
ItemsSay ==
    /\ ItemsIn(events, "added_message") = IF textIdx = NoItem THEN <<>> ELSE <<textIdx>>
    /\ ItemsIn(events, "added_call") = [i \in 1..Len(toolOrder) |-> tools[toolOrder[i]].idx]

LogSays == DataSeqs(events) /\ TextSays /\ CallsSay /\ NewSays /\ ItemsSay

\* A log that goes on with neither a new item nor a delta.
SameSaid(L, M) ==
    /\ DataSeqs(M) /\ \A x : DeltasIn(M, x) = DeltasIn(L, x)
    /\ \A kind \in Adds : ItemsIn(M, kind) = ItemsIn(L, kind)

\* Sending what is neither says nothing new.
LEMMA QuietSends ==
    ASSUME NEW es, DataSeqs(events), DataSeqs(es), Send(es),
           \A i \in 1..Len(es) : es[i].kind \notin Deltas \cup Adds
    PROVE  SameSaid(events, events')
<1>1. Followed(events, es, events')
  BY SentData
<1>2. ASSUME NEW x PROVE DeltasIn(events', x) = DeltasIn(events, x)
  <2>1. DeltasIn(es, x) = <<>>
    BY DeltasNone
  <2>2. DeltasIn(events', x) = DeltasIn(events, x) \o DeltasIn(es, x)
    BY <1>1, FollowedDeltas
  <2>3. IsSeq(DeltasIn(events, x))
    BY DeltasAreSeqs
  <2> QED BY <2>1, <2>2, <2>3, JoinedNone
<1>3. ASSUME NEW kind \in Adds PROVE ItemsIn(events', kind) = ItemsIn(events, kind)
  <2>1. ItemsIn(es, kind) = <<>>
    <3>1. IsSeq(es) /\ \A i \in 1..Len(es) : es[i].kind # kind
      BY DEF DataSeqs
    <3> QED BY <3>1, ItemsNone
  <2>2. ItemsIn(events', kind) = ItemsIn(events, kind) \o ItemsIn(es, kind)
    BY <1>1, FollowedItems
  <2>3. IsSeq(ItemsIn(events, kind))
    BY ItemsAreSeqs DEF DataSeqs
  <2> QED BY <2>1, <2>2, <2>3, JoinedNone
<1> QED BY <1>1, <1>2, <1>3 DEF Followed, SameSaid

\* A step that leaves the items alone and sends nothing of theirs.
LEMMA QuietSays ==
    ASSUME LogSays, UNCHANGED <<textIdx, text, tools, toolOrder, nextIdx>>,
           SameSaid(events, events')
    PROVE  LogSays'
<1>0. /\ DataSeqs(events') /\ \A x : DeltasIn(events', x) = DeltasIn(events, x)
      /\ ItemsIn(events', "added_message") = ItemsIn(events, "added_message")
      /\ ItemsIn(events', "added_call") = ItemsIn(events, "added_call")
  BY DEF SameSaid, Adds
<1>1. TextSays'
  BY <1>0 DEF LogSays, TextSays
<1>2. CallsSay'
  BY <1>0 DEF LogSays, CallsSay
<1>3. NewSays'
  BY <1>0 DEF LogSays, NewSays
<1>4. ItemsSay'
  BY <1>0 DEF LogSays, ItemsSay
<1> QED BY <1>0, <1>1, <1>2, <1>3, <1>4 DEF LogSays

\* Sending one delta, perhaps with events that are none.
LEMMA DeltaSent ==
    ASSUME NEW es, DataSeqs(events), DataSeqs(es), Send(es), NEW j \in 1..Len(es),
           es[j].kind \in Deltas, \A i \in 1..Len(es) : i # j => es[i].kind \notin Deltas
    PROVE  /\ DataSeqs(events')
           /\ DeltasIn(events', es[j].at) = DeltasIn(events, es[j].at) \o es[j].data
           /\ \A x : x # es[j].at => DeltasIn(events', x) = DeltasIn(events, x)
<1>1. Followed(events, es, events')
  BY SentData
<1> DEFINE at == es[j].at
<1>2. DeltasIn(events', at) = DeltasIn(events, at) \o es[j].data
  <2>1. DeltasIn(es, at) = es[j].data
    <3>1. es[j].at = at
      OBVIOUS
    <3> HIDE DEF at
    <3> QED BY <3>1, DeltasOnly
  <2> HIDE DEF at
  <2>2. DeltasIn(events', at) = DeltasIn(events, at) \o DeltasIn(es, at)
    BY <1>1, FollowedDeltas
  <2> QED BY <2>1, <2>2
<1>3. ASSUME NEW x, x # at PROVE DeltasIn(events', x) = DeltasIn(events, x)
  <2>1. DeltasIn(es, x) = <<>>
    <3>1. \A i \in 1..Len(es) : es[i].kind \in Deltas => es[i].at # x
      BY <1>3
    <3> QED BY <3>1, DeltasNone
  <2>2. DeltasIn(events', x) = DeltasIn(events, x) \o DeltasIn(es, x)
    BY <1>1, FollowedDeltas
  <2>3. IsSeq(DeltasIn(events, x))
    BY DeltasAreSeqs
  <2> QED BY <2>1, <2>2, <2>3, JoinedNone
<1> QED BY <1>1, <1>2, <1>3 DEF Followed

\* Sending no delta.
LEMMA DeltasKept ==
    ASSUME NEW es, DataSeqs(events), DataSeqs(es), Send(es),
           \A i \in 1..Len(es) : es[i].kind \notin Deltas
    PROVE  DataSeqs(events') /\ \A x : DeltasIn(events', x) = DeltasIn(events, x)
<1>1. Followed(events, es, events')
  BY SentData
<1>2. ASSUME NEW x PROVE DeltasIn(events', x) = DeltasIn(events, x)
  <2>1. DeltasIn(es, x) = <<>>
    BY DeltasNone
  <2>2. DeltasIn(events', x) = DeltasIn(events, x) \o DeltasIn(es, x)
    BY <1>1, FollowedDeltas
  <2>3. IsSeq(DeltasIn(events, x))
    BY DeltasAreSeqs
  <2> QED BY <2>1, <2>2, <2>3, JoinedNone
<1> QED BY <1>1, <1>2 DEF Followed

\* Sending one new item of a kind,
LEMMA ItemSent ==
    ASSUME NEW es, DataSeqs(events), DataSeqs(es), Send(es), NEW kind, NEW j \in 1..Len(es),
           es[j].kind = kind, \A i \in 1..Len(es) : i # j => es[i].kind # kind
    PROVE  ItemsIn(events', kind) = ItemsIn(events, kind) \o <<es[j].at>>
<1>1. Followed(events, es, events')
  BY SentData
<1>2. ItemsIn(es, kind) = <<es[j].at>>
  BY ItemsOnly DEF DataSeqs
<1>3. ItemsIn(events', kind) = ItemsIn(events, kind) \o ItemsIn(es, kind)
  BY <1>1, FollowedItems
<1> QED BY <1>2, <1>3

\* or none.
LEMMA ItemsKept ==
    ASSUME NEW es, DataSeqs(events), DataSeqs(es), Send(es), NEW kind,
           \A i \in 1..Len(es) : es[i].kind # kind
    PROVE  ItemsIn(events', kind) = ItemsIn(events, kind)
<1>1. Followed(events, es, events')
  BY SentData
<1>2. ItemsIn(es, kind) = <<>>
  BY ItemsNone DEF DataSeqs
<1>3. ItemsIn(events', kind) = ItemsIn(events, kind) \o ItemsIn(es, kind)
  BY <1>1, FollowedItems
<1>4. IsSeq(ItemsIn(events, kind))
  BY ItemsAreSeqs DEF DataSeqs
<1> QED BY <1>2, <1>3, <1>4, JoinedNone

\* Append puts one more at the end.
LEMMA Appended ==
    ASSUME NEW s, IsSeq(s), NEW x
    PROVE  Append(s, x) = s \o <<x>> /\ IsSeq(Append(s, x)) /\ Append(s, x) # <<>>
           /\ Len(Append(s, x)) = Len(s) + 1 /\ Append(s, x)[Len(s) + 1] = x
           /\ \A i \in 1..Len(s) : Append(s, x)[i] = s[i]
<1>1. Len(s) \in Nat
  BY DEF IsSeq
<1> DEFINE S == {s[i] : i \in 1..Len(s)} \cup {x}
<1>2. s \in [1..Len(s) -> S]
  BY DEF IsSeq
<1>3. s \in Seq(S) /\ x \in S
  <2> HIDE DEF S
  <2>1. x \in S
    BY DEF S
  <2> QED BY <1>1, <1>2, <2>1
<1> HIDE DEF S
<1>4. /\ Append(s, x) \in Seq(S) /\ Len(Append(s, x)) = Len(s) + 1
      /\ Append(s, x)[Len(s) + 1] = x /\ \A i \in 1..Len(s) : Append(s, x)[i] = s[i]
  BY <1>1, <1>3
<1>5. IsSeq(Append(s, x))
  BY <1>4, SeqIsSeq
<1>6. Append(s, x) = s \o <<x>>
  <2> DEFINE q == <<x>>
  <2>1. IsSeq(q) /\ Len(q) = 1 /\ q[1] = x
    BY Tuples
  <2> HIDE DEF q
  <2>2. \A i \in 1..Len(q) : Append(s, x)[Len(s) + i] = q[i]
    <3>1. \A i \in 1..Len(q) : i = 1
      BY <2>1
    <3> QED BY <1>4, <2>1, <3>1
  <2> DEFINE r == Append(s, x)
  <2>3. IsSeq(r) /\ Len(r) = Len(s) + Len(q) /\ (\A i \in 1..Len(s) : r[i] = s[i])
        /\ (\A i \in 1..Len(q) : r[Len(s) + i] = q[i])
    BY <1>4, <1>5, <2>1, <2>2
  <2> HIDE DEF r
  <2>4. r = s \o q
    BY <2>1, <2>3, KnownJoined
  <2> QED BY <2>4 DEF q, r
<1>7. Append(s, x) # <<>>
  BY <1>1, <1>4, Tuples
<1> QED BY <1>4, <1>5, <1>6, <1>7

\* What an event is made of.
LEMMA EventParts ==
    \A kind, at, data : /\ Event(kind, at, data).kind = kind /\ Event(kind, at, data).at = at
                        /\ Event(kind, at, data).data = data
BY DEF Event

\* Short logs.
LEMMA ShortLogs ==
    /\ DataSeqs(<<>>)
    /\ \A a : IsSeq(a.data) => DataSeqs(<<a>>)
    /\ \A a, b : IsSeq(a.data) /\ IsSeq(b.data) => DataSeqs(<<a, b>>)
    /\ \A a, b, c : IsSeq(a.data) /\ IsSeq(b.data) /\ IsSeq(c.data) => DataSeqs(<<a, b, c>>)
<1>1. DataSeqs(<<>>)
  BY Tuples DEF DataSeqs
<1>2. ASSUME NEW a, IsSeq(a.data) PROVE DataSeqs(<<a>>)
  BY <1>2, Tuples DEF DataSeqs
<1>3. ASSUME NEW a, NEW b, IsSeq(a.data), IsSeq(b.data) PROVE DataSeqs(<<a, b>>)
  <2> DEFINE s == <<a, b>>
  <2>1. IsSeq(s) /\ Len(s) = 2 /\ s[1] = a /\ s[2] = b
    BY Tuples
  <2> HIDE DEF s
  <2>2. \A i \in 1..Len(s) : i = 1 \/ i = 2
    BY <2>1
  <2>3. DataSeqs(s)
    BY <1>3, <2>1, <2>2 DEF DataSeqs
  <2> QED BY <2>3 DEF s
<1>4. ASSUME NEW a, NEW b, NEW c, IsSeq(a.data), IsSeq(b.data), IsSeq(c.data) PROVE DataSeqs(<<a, b, c>>)
  <2> DEFINE s == <<a, b, c>>
  <2>1. IsSeq(s) /\ Len(s) = 3 /\ s[1] = a /\ s[2] = b /\ s[3] = c
    BY Tuples
  <2> HIDE DEF s
  <2>2. \A i \in 1..Len(s) : i = 1 \/ i = 2 \/ i = 3
    BY <2>1
  <2>3. DataSeqs(s)
    BY <1>4, <2>1, <2>2 DEF DataSeqs
  <2> QED BY <2>3 DEF s
<1> QED BY <1>1, <1>2, <1>3, <1>4

\* What appendText sends: a delta of the text item, which it may add.
LEMMA TextSent ==
    ASSUME LogSays, AppendText, NEW at, NEW f, f = Head(pending).frag,
           at = IF textIdx = NoItem THEN nextIdx ELSE textIdx
    PROVE  /\ DataSeqs(events')
           /\ DeltasIn(events', at) = DeltasIn(events, at) \o <<f>>
           /\ \A x : x # at => DeltasIn(events', x) = DeltasIn(events, x)
           /\ ItemsIn(events', "added_message") = IF textIdx = NoItem
                THEN ItemsIn(events, "added_message") \o <<at>> ELSE ItemsIn(events, "added_message")
           /\ ItemsIn(events', "added_call") = ItemsIn(events, "added_call")
<1> DEFINE a == Event("added_message", at, <<>>)
<1> DEFINE b == Event("part_added", at, <<>>)
<1> DEFINE c == Event("text_delta", at, <<f>>)
<1>1. /\ a.kind = "added_message" /\ a.at = at /\ IsSeq(a.data)
      /\ b.kind = "part_added" /\ IsSeq(b.data)
      /\ c.kind = "text_delta" /\ c.at = at /\ c.data = <<f>> /\ IsSeq(c.data)
  BY EventParts, Tuples
<1>2. Send((IF textIdx = NoItem THEN <<a, b>> ELSE <<>>) \o <<c>>)
  BY DEF AppendText
<1>3. DataSeqs(events)
  BY DEF LogSays
<1> HIDE DEF a, b, c
<1>4. CASE textIdx = NoItem
  <2> DEFINE es == <<a, b, c>>
  <2>1. Send(es)
    <3>1. <<a, b>> \o <<c>> = <<a, b, c>>
      BY TwoAndOne
    <3> QED BY <1>2, <1>4, <3>1
  <2>2. DataSeqs(es)
    BY <1>1, ShortLogs
  <2>3. Len(es) = 3 /\ es[1] = a /\ es[2] = b /\ es[3] = c
    BY Tuples
  <2> HIDE DEF es
  <2>4. /\ 1 \in 1..Len(es) /\ 3 \in 1..Len(es) /\ \A i \in 1..Len(es) : i \in {1, 2, 3}
    BY <2>3
  <2>5. /\ es[3].kind \in Deltas /\ es[3].at = at /\ es[3].data = <<f>>
        /\ \A i \in 1..Len(es) : i # 3 => es[i].kind \notin Deltas
    BY <1>1, <2>3, <2>4 DEF Deltas
  <2>6. /\ es[1].kind = "added_message" /\ es[1].at = at
        /\ \A i \in 1..Len(es) : i # 1 => es[i].kind # "added_message"
        /\ \A i \in 1..Len(es) : es[i].kind # "added_call"
    BY <1>1, <2>3, <2>4
  <2>7. /\ DataSeqs(events') /\ DeltasIn(events', es[3].at) = DeltasIn(events, es[3].at) \o es[3].data
        /\ \A x : x # es[3].at => DeltasIn(events', x) = DeltasIn(events, x)
    BY <1>3, <2>1, <2>2, <2>4, <2>5, DeltaSent
  <2>8. ItemsIn(events', "added_message") = ItemsIn(events, "added_message") \o <<es[1].at>>
    BY <1>3, <2>1, <2>2, <2>4, <2>6, ItemSent
  <2>9. ItemsIn(events', "added_call") = ItemsIn(events, "added_call")
    BY <1>3, <2>1, <2>2, <2>6, ItemsKept
  <2> QED BY <1>4, <2>5, <2>6, <2>7, <2>8, <2>9
<1>5. CASE textIdx # NoItem
  <2> DEFINE es == <<c>>
  <2>1. Send(es)
    <3>1. <<>> \o <<c>> = <<c>>
      BY Tuples, JoinedNone
    <3> QED BY <1>2, <1>5, <3>1
  <2>2. DataSeqs(es)
    BY <1>1, ShortLogs
  <2>3. Len(es) = 1 /\ es[1] = c
    BY Tuples
  <2> HIDE DEF es
  <2>4. /\ 1 \in 1..Len(es) /\ \A i \in 1..Len(es) : i = 1
    BY <2>3
  <2>5. /\ es[1].kind \in Deltas /\ es[1].at = at /\ es[1].data = <<f>>
        /\ \A i \in 1..Len(es) : i # 1 => es[i].kind \notin Deltas
    BY <1>1, <2>3, <2>4 DEF Deltas
  <2>6. /\ \A i \in 1..Len(es) : es[i].kind # "added_message"
        /\ \A i \in 1..Len(es) : es[i].kind # "added_call"
    BY <1>1, <2>3, <2>4
  <2>7. /\ DataSeqs(events') /\ DeltasIn(events', es[1].at) = DeltasIn(events, es[1].at) \o es[1].data
        /\ \A x : x # es[1].at => DeltasIn(events', x) = DeltasIn(events, x)
    BY <1>3, <2>1, <2>2, <2>4, <2>5, DeltaSent
  <2>8. ItemsIn(events', "added_message") = ItemsIn(events, "added_message")
    BY <1>3, <2>1, <2>2, <2>6, ItemsKept
  <2>9. ItemsIn(events', "added_call") = ItemsIn(events, "added_call")
    BY <1>3, <2>1, <2>2, <2>6, ItemsKept
  <2> QED BY <1>5, <2>5, <2>7, <2>8, <2>9
<1> QED BY <1>4, <1>5

\* appendText keeps the text item's deltas and the text alike.
LEMMA AppendTextSays == ASSUME StreamOK, LogSays, AppendText PROVE LogSays'
<1> DEFINE at == IF textIdx = NoItem THEN nextIdx ELSE textIdx
<1> DEFINE f == Head(pending).frag
<1>1. /\ textIdx' = at /\ nextIdx' = IF textIdx = NoItem THEN nextIdx + 1 ELSE nextIdx
      /\ text' = Append(text, f) /\ UNCHANGED <<tools, toolOrder>>
  BY DEF AppendText
<1>2. /\ DataSeqs(events')
      /\ DeltasIn(events', at) = DeltasIn(events, at) \o <<f>>
      /\ \A x : x # at => DeltasIn(events', x) = DeltasIn(events, x)
      /\ ItemsIn(events', "added_message") = IF textIdx = NoItem
           THEN ItemsIn(events, "added_message") \o <<at>> ELSE ItemsIn(events, "added_message")
      /\ ItemsIn(events', "added_call") = ItemsIn(events, "added_call")
  BY TextSent
<1>3. nextIdx \in Nat
  BY DEF StreamOK, LogOK, InOrder
<1>4. /\ at \in Nat /\ at < nextIdx' /\ nextIdx' >= nextIdx /\ at # NoItem
  BY <1>1, <1>3 DEF StreamOK, ItemsOK, NoItem
<1>5. \A k \in DOMAIN tools : tools[k].idx # at
  <2>1. \A k \in DOMAIN tools : tools[k].idx \in 0..(nextIdx - 1) /\ tools[k].idx # textIdx
    BY DEF StreamOK, ItemsOK
  <2> QED BY <1>3, <2>1
<1>6. IsSeq(text) /\ DeltasIn(events, at) = text
  <2>1. CASE textIdx = NoItem
    BY <1>3, <2>1 DEF LogSays, TextSays, NewSays
  <2>2. CASE textIdx # NoItem
    BY <2>2 DEF LogSays, TextSays
  <2> QED BY <2>1, <2>2
<1> HIDE DEF at, f
<1>7. TextSays'
  <2>1. text' = text \o <<f>> /\ IsSeq(text') /\ text' # <<>>
    BY <1>1, <1>6, Appended
  <2>2. DeltasIn(events', textIdx') = text'
    BY <1>1, <1>2, <1>6, <2>1
  <2> QED BY <1>1, <1>4, <2>1, <2>2 DEF TextSays
<1>8. CallsSay'
  <2>1. \A k \in DOMAIN tools : IsSeq(tools[k].args) /\ DeltasIn(events', tools[k].idx) = tools[k].args
    BY <1>2, <1>5 DEF LogSays, CallsSay
  <2> QED BY <1>1, <2>1 DEF CallsSay
<1>9. NewSays'
  <2>1. ASSUME NEW x \in Nat, x >= nextIdx' PROVE DeltasIn(events', x) = <<>>
    <3>1. x # at /\ x >= nextIdx
      BY <1>1, <1>3, <1>4, <2>1
    <3> QED BY <1>2, <3>1 DEF LogSays, NewSays
  <2> QED BY <2>1 DEF NewSays
<1>10. ItemsSay'
  <2>1. ItemsIn(events', "added_message") = <<textIdx'>>
    <3>1. CASE textIdx = NoItem
      <4>1. ItemsIn(events, "added_message") = <<>>
        BY <3>1 DEF LogSays, ItemsSay
      <4> QED BY <1>1, <1>2, <3>1, <4>1, Tuples, JoinedNone
    <3>2. CASE textIdx # NoItem
      BY <1>1, <1>2, <3>2 DEF LogSays, ItemsSay, at
    <3> QED BY <3>1, <3>2
  <2>2. ItemsIn(events', "added_call") = [i \in 1..Len(toolOrder') |-> tools'[toolOrder'[i]].idx]
    BY <1>1, <1>2 DEF LogSays, ItemsSay
  <2> QED BY <1>1, <1>4, <2>1, <2>2 DEF ItemsSay
<1> QED BY <1>2, <1>7, <1>8, <1>9, <1>10 DEF LogSays

\* What appendToolCall sends for a call, by the events it is made of.
CallEvents(new, a, f, b) == (IF new THEN <<a>> ELSE <<>>) \o (IF f # Nothing THEN <<b>> ELSE <<>>)

AreCallEvents(new, a, f, b, at) ==
    /\ new \in BOOLEAN
    /\ a.kind = "added_call" /\ a.at = at /\ IsSeq(a.data)
    /\ b.kind = "args_delta" /\ b.at = at /\ b.data = <<f>>

\* The arguments a fragment brings.
Bringing(f) == IF f # Nothing THEN <<f>> ELSE <<>>

\* It is an item, if the call is new, and a delta, if there are arguments.
LEMMA CallSent ==
    ASSUME DataSeqs(events), NEW new, NEW a, NEW f, NEW b, NEW at,
           Send(CallEvents(new, a, f, b)), AreCallEvents(new, a, f, b, at)
    PROVE  /\ DataSeqs(events')
           /\ DeltasIn(events', at) = DeltasIn(events, at) \o Bringing(f)
           /\ \A x : x # at => DeltasIn(events', x) = DeltasIn(events, x)
           /\ ItemsIn(events', "added_call") = IF new
                THEN ItemsIn(events, "added_call") \o <<at>> ELSE ItemsIn(events, "added_call")
           /\ ItemsIn(events', "added_message") = ItemsIn(events, "added_message")
<1> DEFINE es == CallEvents(new, a, f, b)
<1>0. /\ new \in BOOLEAN /\ a.kind = "added_call" /\ a.at = at /\ IsSeq(a.data)
      /\ b.kind = "args_delta" /\ b.at = at /\ b.data = <<f>> /\ IsSeq(b.data)
  BY Tuples DEF AreCallEvents
<1>1. /\ new /\ f # Nothing => es = <<a, b>>
      /\ new /\ f = Nothing => es = <<a>>
      /\ ~new /\ f # Nothing => es = <<b>>
      /\ ~new /\ f = Nothing => es = <<>>
  BY OneAndOne DEF CallEvents
<1>2. DataSeqs(es)
  BY <1>0, <1>1, ShortLogs
<1>3. /\ new /\ f # Nothing => Len(es) = 2 /\ es[1] = a /\ es[2] = b
      /\ new /\ f = Nothing => Len(es) = 1 /\ es[1] = a
      /\ ~new /\ f # Nothing => Len(es) = 1 /\ es[1] = b
      /\ ~new /\ f = Nothing => Len(es) = 0
  BY <1>1, Tuples
<1>4. Send(es)
  OBVIOUS
<1> HIDE DEF es
<1>5. \A i \in 1..Len(es) : es[i].kind # "added_message"
  <2>1. \A i \in 1..Len(es) : es[i] = a \/ es[i] = b
    BY <1>3
  <2> QED BY <1>0, <2>1
<1>6. ItemsIn(events', "added_message") = ItemsIn(events, "added_message")
  BY <1>2, <1>4, <1>5, ItemsKept
<1>7. ItemsIn(events', "added_call") = IF new
         THEN ItemsIn(events, "added_call") \o <<at>> ELSE ItemsIn(events, "added_call")
  <2>1. CASE new
    <3>1. 1 \in 1..Len(es) /\ es[1].kind = "added_call" /\ es[1].at = at
          /\ \A i \in 1..Len(es) : i # 1 => es[i].kind # "added_call"
      BY <1>0, <1>3, <2>1
    <3>2. ItemsIn(events', "added_call") = ItemsIn(events, "added_call") \o <<es[1].at>>
      BY <1>2, <1>4, <3>1, ItemSent
    <3> QED BY <2>1, <3>1, <3>2
  <2>2. CASE ~new
    <3>1. \A i \in 1..Len(es) : es[i].kind # "added_call"
      BY <1>0, <1>3, <2>2
    <3> QED BY <1>2, <1>4, <2>2, <3>1, ItemsKept
  <2> QED BY <1>0, <2>1, <2>2
<1>8. /\ DataSeqs(events')
      /\ DeltasIn(events', at) = DeltasIn(events, at) \o Bringing(f)
      /\ \A x : x # at => DeltasIn(events', x) = DeltasIn(events, x)
  <2>1. CASE f # Nothing
    <3>1. PICK j \in 1..Len(es) : es[j] = b /\ \A i \in 1..Len(es) : i # j => es[i] = a
      <4>1. CASE new
        <5>0. Len(es) = 2 /\ es[1] = a /\ es[2] = b
          BY <1>3, <2>1, <4>1
        <5>1. 2 \in 1..Len(es) /\ es[2] = b /\ \A i \in 1..Len(es) : i # 2 => es[i] = a
          BY <5>0
        <5> QED BY <5>1
      <4>2. CASE ~new
        <5>0. Len(es) = 1 /\ es[1] = b
          BY <1>3, <2>1, <4>2
        <5>1. 1 \in 1..Len(es) /\ es[1] = b /\ \A i \in 1..Len(es) : i # 1 => es[i] = a
          BY <5>0
        <5> QED BY <5>1
      <4> QED BY <1>0, <4>1, <4>2
    <3>2. es[j].kind \in Deltas /\ es[j].at = at /\ es[j].data = <<f>>
          /\ \A i \in 1..Len(es) : i # j => es[i].kind \notin Deltas
      BY <1>0, <3>1 DEF Deltas
    <3>3. /\ DataSeqs(events') /\ DeltasIn(events', es[j].at) = DeltasIn(events, es[j].at) \o es[j].data
          /\ \A x : x # es[j].at => DeltasIn(events', x) = DeltasIn(events, x)
      BY <1>2, <1>4, <3>2, DeltaSent
    <3> QED BY <2>1, <3>2, <3>3 DEF Bringing
  <2>2. CASE f = Nothing
    <3>1. \A i \in 1..Len(es) : es[i].kind \notin Deltas
      BY <1>0, <1>3, <2>2 DEF Deltas
    <3>2. DataSeqs(events') /\ \A x : DeltasIn(events', x) = DeltasIn(events, x)
      BY <1>2, <1>4, <3>1, DeltasKept
    <3>3. IsSeq(DeltasIn(events, at))
      BY DeltasAreSeqs
    <3>4. DeltasIn(events, at) \o <<>> = DeltasIn(events, at)
      BY <3>3, JoinedNone
    <3> QED BY <2>2, <3>2, <3>4 DEF Bringing
  <2> QED BY <2>1, <2>2
<1> QED BY <1>6, <1>7, <1>8

\* A fragment adds to a call what it brings.
LEMMA ExtendedAdds ==
    ASSUME NEW c, NEW p, IsCall(c), IsSeq(c.args)
    PROVE  /\ Extended(c, p).args = c.args \o Bringing(p.frag) /\ IsSeq(Extended(c, p).args)
           /\ Extended(c, p).head = IF p.head # Nothing THEN p.head ELSE c.head
<1> DEFINE h == IF p.head # Nothing THEN p.head ELSE c.head
<1> DEFINE g == IF p.frag # Nothing THEN Append(c.args, p.frag) ELSE c.args
<1>1. Extended(c, p) = [c EXCEPT !.head = h, !.args = g]
  BY DEF Extended
<1>2. g = c.args \o Bringing(p.frag) /\ IsSeq(g)
  <2>1. CASE p.frag # Nothing
    BY <2>1, Appended DEF Bringing
  <2>2. CASE p.frag = Nothing
    BY <2>2, JoinedNone DEF Bringing
  <2> QED BY <2>1, <2>2
<1> HIDE DEF g
<1>3. DOMAIN c = {"idx", "head", "args"}
  BY DEF IsCall
<1>4. Extended(c, p).args = g /\ Extended(c, p).head = h
  BY <1>1, <1>3
<1> QED BY <1>2, <1>4

\* The fragment appendToolCall takes, its call, and the call as it was.
Piece == Head(pending)
Key == CallOf(Piece)
IsNew == Key \notin DOMAIN tools
Call == IF IsNew THEN [idx |-> nextIdx, head |-> Piece.head, args |-> <<>>] ELSE tools[Key]

\* What appendToolCall does to the call of a fragment, and to no other.
CallDone ==
    /\ nextIdx \in Nat /\ IsSeq(Call.args)
    /\ IsNew => Call.idx = nextIdx /\ Call.args = <<>> /\ Call.head = Piece.head
    /\ ~IsNew => Key \in DOMAIN tools /\ Call = tools[Key] /\ Call.idx \in 0..(nextIdx - 1)
    /\ DeltasIn(events, Call.idx) = Call.args
    /\ DOMAIN tools' = DOMAIN tools \cup {Key}
    /\ tools'[Key].idx = Call.idx
    /\ tools'[Key].args = Call.args \o Bringing(Piece.frag) /\ IsSeq(tools'[Key].args)
    /\ tools'[Key].head = IF Piece.head # Nothing THEN Piece.head ELSE Call.head
    /\ \A k \in DOMAIN tools : k # Key => tools'[k] = tools[k] /\ tools[k].idx # Call.idx
    /\ toolOrder' = IF IsNew THEN Append(toolOrder, Key) ELSE toolOrder
    /\ nextIdx' = IF IsNew THEN nextIdx + 1 ELSE nextIdx
    /\ UNCHANGED <<textIdx, text, output, started>>
    /\ textIdx # Call.idx

LEMMA CallStep == ASSUME StreamOK, LogSays, AppendToolCall PROVE CallDone
<1>1. /\ tools' = [k \in DOMAIN tools \cup {Key} |->
                     IF k = Key THEN Extended(Call, Piece) ELSE tools[k]]
      /\ toolOrder' = IF IsNew THEN Append(toolOrder, Key) ELSE toolOrder
      /\ nextIdx' = IF IsNew THEN nextIdx + 1 ELSE nextIdx
      /\ UNCHANGED <<textIdx, text, output, started>>
  BY DEF AppendToolCall, Key, Piece, Call, IsNew
<1>2. nextIdx \in Nat
  BY DEF StreamOK, LogOK, InOrder
<1>3. /\ textIdx = NoItem \/ textIdx \in 0..(nextIdx - 1)
      /\ \A k \in DOMAIN tools : /\ IsCall(tools[k])
                                 /\ tools[k].idx \in 0..(nextIdx - 1)
                                 /\ tools[k].idx # textIdx
      /\ \A k, l \in DOMAIN tools : tools[k].idx = tools[l].idx => k = l
  BY DEF StreamOK, ItemsOK, IsCall
<1>4. \A k \in DOMAIN tools : IsSeq(tools[k].args) /\ DeltasIn(events, tools[k].idx) = tools[k].args
  BY DEF LogSays, CallsSay
<1>5. IsNew => IsCall(Call) /\ Call.idx = nextIdx /\ Call.args = <<>> /\ Call.head = Piece.head /\ IsSeq(Call.args)
  BY Tuples DEF IsCall, Call
<1>6. ~IsNew => Key \in DOMAIN tools /\ Call = tools[Key]
  BY DEF IsNew, Call
<1>7. IsCall(Call) /\ IsSeq(Call.args) /\ (~IsNew => Call.idx \in 0..(nextIdx - 1))
  BY <1>3, <1>4, <1>5, <1>6
<1>8. DeltasIn(events, Call.idx) = Call.args
  <2>1. IsNew => DeltasIn(events, nextIdx) = <<>>
    BY <1>2 DEF LogSays, NewSays
  <2> QED BY <1>4, <1>5, <1>6, <2>1
<1>9. /\ DOMAIN tools' = DOMAIN tools \cup {Key} /\ tools'[Key] = Extended(Call, Piece)
      /\ \A k \in DOMAIN tools : k # Key => tools'[k] = tools[k]
  BY <1>1
<1>10. /\ Extended(Call, Piece).args = Call.args \o Bringing(Piece.frag) /\ IsSeq(Extended(Call, Piece).args)
       /\ Extended(Call, Piece).head = IF Piece.head # Nothing THEN Piece.head ELSE Call.head
       /\ Extended(Call, Piece).idx = Call.idx
  BY <1>7, ExtendedAdds, ExtendedKeeps
<1>11. \A k \in DOMAIN tools : k # Key => tools[k].idx # Call.idx
  <2> TAKE k \in DOMAIN tools
  <2>1. CASE IsNew
    BY <1>2, <1>3, <1>5, <2>1
  <2>2. CASE ~IsNew
    BY <1>3, <1>6, <2>2
  <2> QED BY <2>1, <2>2
<1>12. textIdx # Call.idx
  <2>1. CASE IsNew
    BY <1>2, <1>3, <1>5, <2>1 DEF NoItem
  <2>2. CASE ~IsNew
    BY <1>3, <1>6, <2>2
  <2> QED BY <2>1, <2>2
<1>13. IsNew => Call.idx = nextIdx /\ Call.args = <<>> /\ Call.head = Piece.head
  BY <1>5
<1>14. /\ tools'[Key].idx = Call.idx /\ tools'[Key].args = Call.args \o Bringing(Piece.frag)
       /\ IsSeq(tools'[Key].args) /\ tools'[Key].head = IF Piece.head # Nothing THEN Piece.head ELSE Call.head
  BY <1>9, <1>10
<1> QED BY <1>1, <1>2, <1>6, <1>7, <1>8, <1>9, <1>11, <1>12, <1>13, <1>14 DEF CallDone

\* appendToolCall keeps a call's deltas and its arguments alike.
LEMMA AppendToolCallSays == ASSUME StreamOK, LogSays, AppendToolCall PROVE LogSays'
<1> DEFINE a == Event("added_call", Call.idx, <<Piece.head>>)
<1> DEFINE b == Event("args_delta", Call.idx, <<Piece.frag>>)
<1>1. Send(CallEvents(IsNew, a, Piece.frag, b))
  BY DEF AppendToolCall, CallEvents, Key, Piece, Call, IsNew
<1>2. /\ a.kind = "added_call" /\ a.at = Call.idx /\ IsSeq(a.data)
      /\ b.kind = "args_delta" /\ b.at = Call.idx /\ b.data = <<Piece.frag>>
  BY EventParts, Tuples
<1>3. /\ nextIdx \in Nat
      /\ IsNew => Call.idx = nextIdx /\ Call.args = <<>>
      /\ ~IsNew => Key \in DOMAIN tools /\ Call = tools[Key] /\ Call.idx \in 0..(nextIdx - 1)
      /\ DeltasIn(events, Call.idx) = Call.args
      /\ DOMAIN tools' = DOMAIN tools \cup {Key}
      /\ tools'[Key].idx = Call.idx
      /\ tools'[Key].args = Call.args \o Bringing(Piece.frag) /\ IsSeq(tools'[Key].args)
      /\ \A k \in DOMAIN tools : k # Key => tools'[k] = tools[k] /\ tools[k].idx # Call.idx
      /\ toolOrder' = IF IsNew THEN Append(toolOrder, Key) ELSE toolOrder
      /\ nextIdx' = IF IsNew THEN nextIdx + 1 ELSE nextIdx
      /\ UNCHANGED <<textIdx, text>>
      /\ textIdx # Call.idx
  BY CallStep DEF CallDone
<1>4. IsNew \in BOOLEAN /\ (IsNew <=> Key \notin DOMAIN tools)
  BY DEF IsNew
<1>5. DataSeqs(events)
  BY DEF LogSays
<1> DEFINE at == Call.idx
<1> DEFINE f == Piece.frag
<1> HIDE DEF a, b, f, at
<1>6. /\ DataSeqs(events')
      /\ DeltasIn(events', at) = DeltasIn(events, at) \o Bringing(f)
      /\ \A x : x # at => DeltasIn(events', x) = DeltasIn(events, x)
      /\ ItemsIn(events', "added_call") = IF IsNew
           THEN ItemsIn(events, "added_call") \o <<at>> ELSE ItemsIn(events, "added_call")
      /\ ItemsIn(events', "added_message") = ItemsIn(events, "added_message")
  <2>1. Send(CallEvents(IsNew, a, f, b)) /\ AreCallEvents(IsNew, a, f, b, at)
    BY <1>1, <1>2, <1>4 DEF at, f, AreCallEvents
  <2> QED BY <1>5, <2>1, CallSent
<1>7. TextSays'
  <2>1. textIdx # at /\ UNCHANGED <<textIdx, text>>
    BY <1>3 DEF at
  <2>2. DeltasIn(events', textIdx) = DeltasIn(events, textIdx)
    BY <1>6, <2>1
  <2> QED BY <2>1, <2>2 DEF LogSays, TextSays
<1>8. CallsSay'
  <2>1. ASSUME NEW k \in DOMAIN tools'
        PROVE  IsSeq(tools'[k].args) /\ DeltasIn(events', tools'[k].idx) = tools'[k].args
    <3>1. CASE k = Key
      <4>1. DeltasIn(events', at) = Call.args \o Bringing(f)
        BY <1>3, <1>6 DEF at
      <4>2. tools'[k].idx = at /\ tools'[k].args = Call.args \o Bringing(f) /\ IsSeq(tools'[k].args)
        BY <1>3, <3>1 DEF at, f
      <4> QED BY <4>1, <4>2
    <3>2. CASE k # Key
      <4>1. k \in DOMAIN tools /\ tools'[k] = tools[k] /\ tools[k].idx # at
        BY <1>3, <3>2 DEF at
      <4>2. IsSeq(tools[k].args) /\ DeltasIn(events, tools[k].idx) = tools[k].args
        BY <4>1 DEF LogSays, CallsSay
      <4>3. DeltasIn(events', tools[k].idx) = DeltasIn(events, tools[k].idx)
        BY <1>6, <4>1
      <4> QED BY <4>1, <4>2, <4>3
    <3> QED BY <3>1, <3>2
  <2> QED BY <2>1 DEF CallsSay
<1>9. NewSays'
  <2>1. ASSUME NEW x \in Nat, x >= nextIdx' PROVE DeltasIn(events', x) = <<>>
    <3>1. x # at /\ x >= nextIdx
      BY <1>3, <1>4, <2>1 DEF at
    <3>2. DeltasIn(events, x) = <<>>
      BY <3>1 DEF LogSays, NewSays
    <3> QED BY <1>6, <3>1, <3>2
  <2> QED BY <2>1 DEF NewSays
<1>10. ItemsSay'
  <2>1. /\ IsSeq(toolOrder) /\ \A i \in 1..Len(toolOrder) : toolOrder[i] \in DOMAIN tools
    BY DEF StreamOK, OrderOK
  <2> DEFINE old == [i \in 1..Len(toolOrder) |-> tools[toolOrder[i]].idx]
  <2>2. ItemsIn(events, "added_call") = old
    BY DEF LogSays, ItemsSay
  <2>3. \A k \in DOMAIN tools : tools'[k].idx = tools[k].idx
    <3> TAKE k \in DOMAIN tools
    <3>1. CASE k = Key
      <4>1. ~IsNew
        BY <1>4, <3>1
      <4> QED BY <1>3, <3>1, <4>1
    <3>2. CASE k # Key
      BY <1>3, <3>2
    <3> QED BY <3>1, <3>2
  <2>4. \A i \in 1..Len(toolOrder) : old[i] = tools'[toolOrder[i]].idx
    BY <2>1, <2>3
  <2>5. Len(toolOrder) \in Nat /\ IsSeq(old) /\ Len(old) = Len(toolOrder)
    <3>1. Len(toolOrder) \in Nat
      BY <2>1 DEF IsSeq
    <3>2. old = [i \in 1..Len(toolOrder) |-> old[i]]
      OBVIOUS
    <3> HIDE DEF old
    <3> QED BY <3>1, <3>2, MappedIsSeq
  <2> DEFINE now == [i \in 1..Len(toolOrder') |-> tools'[toolOrder'[i]].idx]
  <2>6. ItemsIn(events', "added_call") = now
    <3>1. CASE ~IsNew
      <4>1. toolOrder' = toolOrder
        BY <1>3, <3>1
      <4>2. now = old
        BY <2>4, <4>1
      <4> QED BY <1>6, <2>2, <3>1, <4>2
    <3>2. CASE IsNew
      <4>1. toolOrder' = Append(toolOrder, Key)
        BY <1>3, <3>2
      <4>2. /\ Len(toolOrder') = Len(toolOrder) + 1 /\ toolOrder'[Len(toolOrder) + 1] = Key
            /\ \A i \in 1..Len(toolOrder) : toolOrder'[i] = toolOrder[i]
        BY <2>1, <4>1, Appended
      <4>3. /\ \A i \in 1..(Len(toolOrder) + 1) : now[i] = tools'[toolOrder'[i]].idx
        BY <4>2
      <4>4. IsSeq(now) /\ Len(now) = Len(toolOrder) + 1
        <5>1. now = [i \in 1..(Len(toolOrder) + 1) |-> now[i]] /\ Len(toolOrder) + 1 \in Nat
          BY <2>5, <4>2
        <5> HIDE DEF now
        <5> QED BY <5>1, MappedIsSeq
      <4> DEFINE q == <<at>>
      <4>5. IsSeq(q) /\ Len(q) = 1 /\ q[1] = at
        BY Tuples
      <4>6. now[Len(toolOrder) + 1] = at
        <5>1. Len(toolOrder) + 1 \in 1..(Len(toolOrder) + 1)
          BY <2>5
        <5>2. tools'[Key].idx = at
          BY <1>3 DEF at
        <5> QED BY <4>2, <4>3, <5>1, <5>2
      <4>7. \A i \in 1..Len(toolOrder) : now[i] = old[i]
        <5> TAKE i \in 1..Len(toolOrder)
        <5>1. i \in 1..(Len(toolOrder) + 1)
          BY <2>5
        <5>2. now[i] = tools'[toolOrder'[i]].idx
          BY <4>3, <5>1
        <5>3. toolOrder'[i] = toolOrder[i] /\ old[i] = tools'[toolOrder[i]].idx
          BY <2>4, <4>2
        <5> QED BY <5>2, <5>3
      <4> HIDE DEF now, old, q
      <4>8. now = old \o q
        <5>1. Len(now) = Len(old) + Len(q) /\ \A i \in 1..Len(old) : now[i] = old[i]
          BY <2>5, <4>4, <4>5, <4>7
        <5>2. \A i \in 1..Len(q) : now[Len(old) + i] = q[i]
          <6>1. \A i \in 1..Len(q) : i = 1
            BY <4>5
          <6> QED BY <2>5, <4>5, <4>6, <6>1
        <5> QED BY <2>5, <4>4, <4>5, <5>1, <5>2, KnownJoined
      <4> QED BY <1>6, <2>2, <3>2, <4>8 DEF q
    <3> QED BY <1>4, <3>1, <3>2
  <2>7. ItemsIn(events', "added_message") = IF textIdx' = NoItem THEN <<>> ELSE <<textIdx'>>
    BY <1>3, <1>6 DEF LogSays, ItemsSay
  <2> QED BY <2>6, <2>7 DEF ItemsSay
<1> QED BY <1>6, <1>7, <1>8, <1>9, <1>10 DEF LogSays

\* A step that sends nothing says nothing new.
LEMMA SilentSays ==
    ASSUME LogSays, UNCHANGED <<itemVars, events>>
    PROVE  LogSays'
<1>1. UNCHANGED <<textIdx, text, tools, toolOrder, nextIdx>> /\ events' = events
  BY DEF itemVars
<1>2. SameSaid(events, events')
  BY <1>1 DEF SameSaid, LogSays
<1> QED BY <1>1, <1>2, QuietSays

\* A step that sends frames only.
LEMMA FrameSays ==
    ASSUME LogSays, UNCHANGED <<textIdx, text, tools, toolOrder, nextIdx>>,
           NEW es, DataSeqs(es), Send(es),
           \A i \in 1..Len(es) : es[i].kind \notin Deltas \cup Adds
    PROVE  LogSays'
<1>1. DataSeqs(events)
  BY DEF LogSays
<1>2. SameSaid(events, events')
  BY <1>1, QuietSends
<1> QED BY <1>2, QuietSays

\* begin,
LEMMA OpeningSays ==
    ASSUME LogSays, UNCHANGED itemVars, Send(Opening)
    PROVE  LogSays'
<1>0. UNCHANGED <<textIdx, text, tools, toolOrder, nextIdx>>
  BY DEF itemVars
<1>1. CASE started
  <2>1. Send(<<>>) /\ DataSeqs(<<>>) /\ Len(<<>>) = 0
    BY <1>1, ShortLogs, Tuples DEF Opening
  <2> DEFINE es == <<>>
  <2>2. Send(es) /\ DataSeqs(es) /\ Len(es) = 0
    BY <2>1
  <2> HIDE DEF es
  <2>3. \A i \in 1..Len(es) : es[i].kind \notin Deltas \cup Adds
    BY <2>2
  <2> QED BY <1>0, <2>2, <2>3, FrameSays
<1>2. CASE ~started
  <2> DEFINE a == Event("created", NoItem, <<>>)
  <2> DEFINE b == Event("in_progress", NoItem, <<>>)
  <2>1. Send(<<a, b>>)
    BY <1>2 DEF Opening
  <2>2. a.kind = "created" /\ b.kind = "in_progress" /\ IsSeq(a.data) /\ IsSeq(b.data)
    BY EventParts, Tuples
  <2> HIDE DEF a, b
  <2> DEFINE es == <<a, b>>
  <2>3. Send(es) /\ DataSeqs(es) /\ Len(es) = 2 /\ es[1] = a /\ es[2] = b
    BY <2>1, <2>2, ShortLogs, Tuples
  <2> HIDE DEF es
  <2>4. \A i \in 1..Len(es) : es[i] = a \/ es[i] = b
    BY <2>3
  <2>5. \A i \in 1..Len(es) : es[i].kind \notin Deltas \cup Adds
    BY <2>2, <2>4 DEF Deltas, Adds
  <2> QED BY <1>0, <2>3, <2>5, FrameSays
<1> QED BY <1>1, <1>2

\* the end of the text item,
LEMMA CloseTextSays == ASSUME LogSays, CloseText PROVE LogSays'
<1> DEFINE a == Event("text_done", textIdx, text)
<1> DEFINE b == Event("part_done", textIdx, text)
<1> DEFINE c == Event("item_done", textIdx, <<Message(text)>>)
<1>1. Send(<<a, b, c>>) /\ UNCHANGED <<textIdx, text, tools, toolOrder, nextIdx>>
  BY DEF CloseText
<1>2. /\ a.kind = "text_done" /\ b.kind = "part_done" /\ c.kind = "item_done"
      /\ IsSeq(a.data) /\ IsSeq(b.data) /\ IsSeq(c.data)
  BY EventParts, Tuples DEF LogSays, TextSays
<1> HIDE DEF a, b, c
<1> DEFINE es == <<a, b, c>>
<1>3. Send(es) /\ DataSeqs(es) /\ Len(es) = 3 /\ es[1] = a /\ es[2] = b /\ es[3] = c
  BY <1>1, <1>2, ShortLogs, Tuples
<1> HIDE DEF es
<1>4. \A i \in 1..Len(es) : es[i] = a \/ es[i] = b \/ es[i] = c
  BY <1>3
<1>5. \A i \in 1..Len(es) : es[i].kind \notin Deltas \cup Adds
  BY <1>2, <1>4 DEF Deltas, Adds
<1> QED BY <1>1, <1>3, <1>5, FrameSays

\* the end of a call,
LEMMA CloseCallSays == ASSUME StreamOK, LogSays, CloseCall PROVE LogSays'
<1> DEFINE k == toolOrder[Closed + 1]
<1> DEFINE a == Event("args_done", tools[k].idx, tools[k].args)
<1> DEFINE b == Event("item_done", tools[k].idx, <<FunctionCall(tools[k].head, tools[k].args)>>)
<1>1. Send(<<a, b>>) /\ UNCHANGED <<textIdx, text, tools, toolOrder, nextIdx>>
  BY DEF CloseCall
<1>2. a.kind = "args_done" /\ b.kind = "item_done" /\ IsSeq(a.data) /\ IsSeq(b.data)
  <2>1. Closed \in 0..Len(toolOrder) /\ Closed < Len(toolOrder) /\ Len(toolOrder) \in Nat
    BY DEF StreamOK, DoneOK, OrderOK, IsSeq, CloseCall
  <2>2. Closed + 1 \in 1..Len(toolOrder)
    BY <2>1
  <2>3. k \in DOMAIN tools
    BY <2>2 DEF StreamOK, OrderOK
  <2>4. IsSeq(tools[k].args)
    BY <2>3 DEF LogSays, CallsSay
  <2> QED BY <2>4, EventParts, Tuples
<1> HIDE DEF a, b, k
<1> DEFINE es == <<a, b>>
<1>3. Send(es) /\ DataSeqs(es) /\ Len(es) = 2 /\ es[1] = a /\ es[2] = b
  BY <1>1, <1>2, ShortLogs, Tuples
<1> HIDE DEF es
<1>4. \A i \in 1..Len(es) : es[i] = a \/ es[i] = b
  BY <1>3
<1>5. \A i \in 1..Len(es) : es[i].kind \notin Deltas \cup Adds
  BY <1>2, <1>4 DEF Deltas, Adds
<1> QED BY <1>1, <1>3, <1>5, FrameSays

\* and that of the response.
LEMMA LastSays ==
    ASSUME StreamOK, LogSays, UNCHANGED itemVars, NEW kind \in Terminal,
           Send(<<Event(kind, NoItem, output)>>)
    PROVE  LogSays'
<1>0. UNCHANGED <<textIdx, text, tools, toolOrder, nextIdx>>
  BY DEF itemVars
<1> DEFINE a == Event(kind, NoItem, output)
<1>1. a.kind = kind /\ IsSeq(a.data)
  BY EventParts DEF StreamOK, OrderOK
<1>2. Send(<<a>>)
  OBVIOUS
<1> HIDE DEF a
<1> DEFINE es == <<a>>
<1>3. Send(es) /\ DataSeqs(es) /\ Len(es) = 1 /\ es[1] = a
  BY <1>1, <1>2, ShortLogs, Tuples
<1> HIDE DEF es
<1>4. \A i \in 1..Len(es) : es[i] = a
  BY <1>3
<1>5. \A i \in 1..Len(es) : es[i].kind \notin Deltas \cup Adds
  BY <1>1, <1>4 DEF Deltas, Adds, Terminal
<1> QED BY <1>0, <1>3, <1>5, FrameSays

LEMMA NextSays == ASSUME StreamOK, LogSays, [Next]_vars PROVE LogSays'
<1>1. CASE UNCHANGED vars
  BY <1>1, SilentSays DEF vars
<1>2. CASE Dial \/ Speak \/ UpstreamEnds \/ UpstreamFails
  <2>1. UNCHANGED <<itemVars, events>>
    BY <1>2 DEF Dial, Speak, UpstreamEnds, UpstreamFails
  <2> QED BY <2>1, SilentSays
<1>3. CASE ConsumeBegin \/ FinishOpen
  <2>1. UNCHANGED itemVars /\ Send(Opening)
    BY <1>3 DEF ConsumeBegin, FinishOpen
  <2> QED BY <2>1, OpeningSays
<1>4. CASE Complete
  <2>1. UNCHANGED itemVars /\ Send(<<Event("completed", NoItem, output)>>)
    BY <1>4 DEF Complete
  <2> QED BY <2>1, LastSays DEF Terminal
<1>5. CASE Fail
  <2>1. UNCHANGED itemVars /\ Send(<<Event("failed", NoItem, output)>>)
    BY <1>5 DEF Fail
  <2> QED BY <2>1, LastSays DEF Terminal
<1> QED BY <1>1, <1>2, <1>3, <1>4, <1>5, AppendTextSays, AppendToolCallSays, CloseTextSays,
           CloseCallSays DEF Next, Consume, Finish

\* Nothing sent, nothing said.
LEMMA NothingSaid ==
    /\ DataSeqs(<<>>) /\ \A x : DeltasIn(<<>>, x) = <<>>
    /\ \A kind : ItemsIn(<<>>, kind) = <<>>
<1> DEFINE L == <<>>
<1>1. DataSeqs(L) /\ IsSeq(L) /\ Len(L) = 0
  BY ShortLogs, Tuples
<1> HIDE DEF L
<1>2. \A x : DeltasIn(L, x) = <<>>
  BY <1>1, DeltasNone
<1>3. \A kind : ItemsIn(L, kind) = <<>>
  BY <1>1, ItemsNone
<1> QED BY <1>1, <1>2, <1>3 DEF L

LEMMA InitSays == Init => LogSays
<1> SUFFICES ASSUME Init PROVE LogSays
  OBVIOUS
<1>1. events = <<>> /\ textIdx = NoItem /\ text = <<>> /\ tools = <<>> /\ toolOrder = <<>>
  BY DEF Init
<1>2. /\ DataSeqs(events) /\ \A x : DeltasIn(events, x) = <<>>
      /\ \A kind : ItemsIn(events, kind) = <<>>
  BY <1>1, NothingSaid
<1>3. DOMAIN tools = {} /\ Len(toolOrder) = 0 /\ IsSeq(text)
  BY <1>1, Tuples
<1>4. TextSays
  BY <1>1, <1>3 DEF TextSays
<1>5. CallsSay /\ NewSays
  BY <1>2, <1>3 DEF CallsSay, NewSays
<1>6. <<>> = [i \in 1..Len(toolOrder) |-> tools[toolOrder[i]].idx]
  BY <1>3
<1>7. ItemsSay
  BY <1>1, <1>2, <1>6 DEF ItemsSay
<1> QED BY <1>2, <1>4, <1>5, <1>7 DEF LogSays

LEMMA StartOverSays == StartOver => LogSays'
<1> SUFFICES ASSUME StartOver PROVE LogSays'
  OBVIOUS
<1>1. events' = <<>> /\ textIdx' = NoItem /\ text' = <<>> /\ tools' = <<>> /\ toolOrder' = <<>>
  BY DEF StartOver
<1>2. /\ DataSeqs(events') /\ \A x : DeltasIn(events', x) = <<>>
      /\ \A kind : ItemsIn(events', kind) = <<>>
  BY <1>1, NothingSaid
<1>3. DOMAIN tools' = {} /\ Len(toolOrder') = 0 /\ IsSeq(text')
  BY <1>1, Tuples
<1>4. TextSays'
  BY <1>1, <1>3 DEF TextSays
<1>5. CallsSay' /\ NewSays'
  BY <1>2, <1>3 DEF CallsSay, NewSays
<1>6. <<>> = [i \in 1..Len(toolOrder') |-> tools'[toolOrder'[i]].idx]
  BY <1>3
<1>7. ItemsSay'
  BY <1>1, <1>2, <1>6 DEF ItemsSay
<1> QED BY <1>2, <1>4, <1>5, <1>7 DEF LogSays

(***************************************************************************)
(* What the pieces of a chunk will say once they are consumed.             *)
(***************************************************************************)

(***************************************************************************)
(* What the provider said is what responsesStream holds, and what is still *)
(* to be consumed.                                                         *)
(***************************************************************************)

\* The pieces of a chunk that are of a call, the text and the arguments in them.
ToolsOf(ps) == {i \in 1..Len(ps) : ps[i].kind = "tool"}
PieceText(p) == IF p.kind = "text" THEN <<p.frag>> ELSE <<>>
PieceArgs(p, k) == IF p.kind = "tool" /\ CallOf(p) = k THEN Bringing(p.frag) ELSE <<>>
TextOf(ps) == [i \in 1..Len(ps) |-> PieceText(ps[i])]
ArgsOf(ps, k) == [i \in 1..Len(ps) |-> PieceArgs(ps[i], k)]
TextIn(ps) == FlattenSeq(TextOf(ps))
ArgsIn(ps, k) == FlattenSeq(ArgsOf(ps, k))
Named(ps, k) == \E i \in ToolsOf(ps) : CallOf(ps[i]) = k /\ ps[i].head # Nothing

\* Both are sequences.
LEMMA PiecesSay ==
    ASSUME NEW ps, IsSeq(ps)
    PROVE  /\ IsSeqs(TextOf(ps)) /\ Len(TextOf(ps)) = Len(ps) /\ IsSeq(TextIn(ps))
           /\ \A i \in 1..Len(ps) : TextOf(ps)[i] = PieceText(ps[i])
           /\ \A k : /\ IsSeqs(ArgsOf(ps, k)) /\ Len(ArgsOf(ps, k)) = Len(ps)
                     /\ IsSeq(ArgsIn(ps, k))
                     /\ \A i \in 1..Len(ps) : ArgsOf(ps, k)[i] = PieceArgs(ps[i], k)
<1>0. Len(ps) \in Nat
  BY DEF IsSeq
<1>1. \A p : IsSeq(PieceText(p))
  BY Tuples DEF PieceText
<1>2. \A p, k : IsSeq(PieceArgs(p, k))
  BY Tuples DEF PieceArgs, Bringing
<1>3. /\ IsSeqs(TextOf(ps)) /\ Len(TextOf(ps)) = Len(ps)
      /\ \A i \in 1..Len(ps) : TextOf(ps)[i] = PieceText(ps[i])
  <2> DEFINE f == TextOf(ps)
  <2>1. f = [i \in 1..Len(ps) |-> f[i]] /\ \A i \in 1..Len(ps) : f[i] = PieceText(ps[i])
    BY DEF TextOf
  <2> HIDE DEF f
  <2>2. IsSeq(f) /\ Len(f) = Len(ps)
    BY <1>0, <2>1, MappedIsSeq
  <2>3. IsSeqs(f)
    BY <1>1, <2>1, <2>2 DEF IsSeqs
  <2> QED BY <2>1, <2>2, <2>3 DEF f
<1>4. ASSUME NEW k
      PROVE  /\ IsSeqs(ArgsOf(ps, k)) /\ Len(ArgsOf(ps, k)) = Len(ps)
             /\ \A i \in 1..Len(ps) : ArgsOf(ps, k)[i] = PieceArgs(ps[i], k)
  <2> DEFINE f == ArgsOf(ps, k)
  <2>1. f = [i \in 1..Len(ps) |-> f[i]] /\ \A i \in 1..Len(ps) : f[i] = PieceArgs(ps[i], k)
    BY DEF ArgsOf
  <2> HIDE DEF f
  <2>2. IsSeq(f) /\ Len(f) = Len(ps)
    BY <1>0, <2>1, MappedIsSeq
  <2>3. IsSeqs(f)
    BY <1>2, <2>1, <2>2 DEF IsSeqs
  <2> QED BY <2>1, <2>2, <2>3 DEF f
<1>5. IsSeq(TextIn(ps))
  BY <1>3, FlatIsSeq DEF TextIn
<1>6. ASSUME NEW k PROVE IsSeq(ArgsIn(ps, k))
  BY <1>4, FlatIsSeq DEF ArgsIn
<1> QED BY <1>3, <1>4, <1>5, <1>6

\* A chunk without text, with one piece of it.
LEMMA NoTextIn ==
    ASSUME NEW ps, IsSeq(ps), \A i \in 1..Len(ps) : ps[i].kind # "text"
    PROVE  TextIn(ps) = <<>>
<1> DEFINE f == TextOf(ps)
<1>1. IsSeq(f) /\ Len(f) = Len(ps) /\ \A i \in 1..Len(ps) : f[i] = PieceText(ps[i])
  BY PiecesSay DEF IsSeqs
<1>2. \A i \in 1..Len(ps) : PieceText(ps[i]) = <<>>
  BY DEF PieceText
<1>3. TextIn(ps) = FlattenSeq(f)
  BY DEF TextIn
<1> HIDE DEF f
<1> QED BY <1>1, <1>2, <1>3, FlatNone

LEMMA OneTextIn ==
    ASSUME NEW ps, IsSeq(ps), NEW j \in 1..Len(ps), ps[j].kind = "text",
           \A i \in 1..Len(ps) : i # j => ps[i].kind # "text"
    PROVE  TextIn(ps) = <<ps[j].frag>>
<1> DEFINE f == TextOf(ps)
<1>1. IsSeq(f) /\ Len(f) = Len(ps) /\ \A i \in 1..Len(ps) : f[i] = PieceText(ps[i])
  BY PiecesSay DEF IsSeqs
<1>2. PieceText(ps[j]) = <<ps[j].frag>> /\ \A i \in 1..Len(ps) : i # j => PieceText(ps[i]) = <<>>
  BY DEF PieceText
<1>3. TextIn(ps) = FlattenSeq(f)
  BY DEF TextIn
<1> HIDE DEF f
<1>4. IsSeq(f[j]) /\ j \in 1..Len(f) /\ f[j] = <<ps[j].frag>> /\ \A i \in 1..Len(f) : i # j => f[i] = <<>>
  BY <1>1, <1>2, Tuples
<1> QED BY <1>1, <1>3, <1>4, FlatOnly

\* Without a fragment of a call, with one.
LEMMA NoArgsIn ==
    ASSUME NEW ps, IsSeq(ps), NEW k, \A i \in ToolsOf(ps) : CallOf(ps[i]) # k
    PROVE  ArgsIn(ps, k) = <<>>
<1> DEFINE f == ArgsOf(ps, k)
<1>1. IsSeq(f) /\ Len(f) = Len(ps) /\ \A i \in 1..Len(ps) : f[i] = PieceArgs(ps[i], k)
  BY PiecesSay DEF IsSeqs
<1>2. \A i \in 1..Len(ps) : PieceArgs(ps[i], k) = <<>>
  BY DEF PieceArgs, ToolsOf
<1>3. ArgsIn(ps, k) = FlattenSeq(f)
  BY DEF ArgsIn
<1> HIDE DEF f
<1> QED BY <1>1, <1>2, <1>3, FlatNone

LEMMA OneArgsIn ==
    ASSUME NEW ps, IsSeq(ps), NEW k, NEW j \in ToolsOf(ps), CallOf(ps[j]) = k,
           \A i \in ToolsOf(ps) : i # j => CallOf(ps[i]) # k
    PROVE  ArgsIn(ps, k) = Bringing(ps[j].frag)
<1> DEFINE f == ArgsOf(ps, k)
<1>1. IsSeqs(f) /\ IsSeq(f) /\ Len(f) = Len(ps) /\ \A i \in 1..Len(ps) : f[i] = PieceArgs(ps[i], k)
  BY PiecesSay DEF IsSeqs
<1>2. /\ PieceArgs(ps[j], k) = Bringing(ps[j].frag) /\ j \in 1..Len(ps)
      /\ \A i \in 1..Len(ps) : i # j => PieceArgs(ps[i], k) = <<>>
  BY DEF PieceArgs, ToolsOf
<1>3. ArgsIn(ps, k) = FlattenSeq(f)
  BY DEF ArgsIn
<1> HIDE DEF f
<1>4. IsSeq(f[j]) /\ j \in 1..Len(f) /\ f[j] = Bringing(ps[j].frag) /\ \A i \in 1..Len(f) : i # j => f[i] = <<>>
  BY <1>1, <1>2 DEF IsSeqs
<1> QED BY <1>1, <1>3, <1>4, FlatOnly

\* Nothing left of a chunk.
LEMMA NoPieces ==
    /\ IsSeq(<<>>) /\ TextIn(<<>>) = <<>> /\ ToolsOf(<<>>) = {}
    /\ \A k : ArgsIn(<<>>, k) = <<>> /\ ~Named(<<>>, k)
<1> DEFINE ps == <<>>
<1>1. IsSeq(ps) /\ Len(ps) = 0
  BY Tuples
<1> HIDE DEF ps
<1>2. TextIn(ps) = <<>>
  BY <1>1, NoTextIn
<1>3. ToolsOf(ps) = {}
  BY <1>1 DEF ToolsOf
<1>4. \A k : ArgsIn(ps, k) = <<>>
  BY <1>1, <1>3, NoArgsIn
<1>5. \A k : ~Named(ps, k)
  BY <1>3 DEF Named
<1> QED BY <1>1, <1>2, <1>3, <1>4, <1>5 DEF ps

\* The first piece is consumed, the others stay in their order.
Rest(ps, qs) ==
    /\ IsSeq(ps) /\ IsSeq(qs) /\ Len(ps) = Len(qs) + 1 /\ Head(ps) = ps[1]
    /\ \A i \in 1..Len(qs) : qs[i] = ps[i + 1]

LEMMA TailRest ==
    ASSUME NEW ps, IsSeq(ps), ps # <<>>
    PROVE  Rest(ps, Tail(ps))
<1>1. Len(ps) \in Nat /\ Len(ps) # 0
  BY FlatNothing DEF IsSeq
<1> DEFINE S == {ps[i] : i \in 1..Len(ps)}
<1>2. ps \in [1..Len(ps) -> S]
  BY DEF IsSeq
<1>3. ps \in Seq(S)
  <2> HIDE DEF S
  <2> QED BY <1>1, <1>2
<1> HIDE DEF S
<1>4. Tail(ps) \in Seq(S) /\ Len(Tail(ps)) = Len(ps) - 1 /\ \A i \in 1..(Len(ps) - 1) : Tail(ps)[i] = ps[i + 1]
  BY <1>1, <1>3
<1>5. IsSeq(Tail(ps))
  BY <1>4, SeqIsSeq
<1>6. Head(ps) = ps[1]
  BY <1>1, <1>3
<1> QED BY <1>1, <1>4, <1>5, <1>6 DEF Rest

LEMMA RestSays ==
    ASSUME NEW ps, NEW qs, Rest(ps, qs)
    PROVE  /\ TextIn(ps) = PieceText(ps[1]) \o TextIn(qs)
           /\ \A k : ArgsIn(ps, k) = PieceArgs(ps[1], k) \o ArgsIn(qs, k)
<1>0. /\ IsSeq(ps) /\ IsSeq(qs) /\ Len(ps) = Len(qs) + 1 /\ Len(qs) \in Nat
      /\ \A i \in 1..Len(qs) : qs[i] = ps[i + 1]
  BY DEF Rest, IsSeq
<1>1. \A i \in 1..Len(qs) : i + 1 \in 1..Len(ps)
  BY <1>0
<1>2. 1 \in 1..Len(ps)
  BY <1>0
<1>3. TextIn(ps) = PieceText(ps[1]) \o TextIn(qs)
  <2> DEFINE f == TextOf(ps)
  <2> DEFINE g == TextOf(qs)
  <2>1. /\ IsSeqs(f) /\ Len(f) = Len(ps) /\ \A i \in 1..Len(ps) : f[i] = PieceText(ps[i])
    BY <1>0, PiecesSay
  <2>2. /\ IsSeq(g) /\ Len(g) = Len(qs) /\ \A i \in 1..Len(qs) : g[i] = PieceText(qs[i])
    BY <1>0, PiecesSay DEF IsSeqs
  <2>3. TextIn(ps) = FlattenSeq(f) /\ TextIn(qs) = FlattenSeq(g)
    BY DEF TextIn
  <2> HIDE DEF f, g
  <2>4. Len(f) = Len(g) + 1 /\ (\A i \in 1..Len(g) : g[i] = f[i + 1]) /\ f[1] = PieceText(ps[1])
    BY <1>0, <1>1, <1>2, <2>1, <2>2
  <2>5. FlattenSeq(f) = f[1] \o FlattenSeq(g)
    BY <2>1, <2>2, <2>4, FlatHead
  <2> QED BY <2>3, <2>4, <2>5
<1>4. ASSUME NEW k PROVE ArgsIn(ps, k) = PieceArgs(ps[1], k) \o ArgsIn(qs, k)
  <2> DEFINE f == ArgsOf(ps, k)
  <2> DEFINE g == ArgsOf(qs, k)
  <2>1. /\ IsSeqs(f) /\ Len(f) = Len(ps) /\ \A i \in 1..Len(ps) : f[i] = PieceArgs(ps[i], k)
    BY <1>0, PiecesSay
  <2>2. /\ IsSeq(g) /\ Len(g) = Len(qs) /\ \A i \in 1..Len(qs) : g[i] = PieceArgs(qs[i], k)
    BY <1>0, PiecesSay DEF IsSeqs
  <2>3. ArgsIn(ps, k) = FlattenSeq(f) /\ ArgsIn(qs, k) = FlattenSeq(g)
    BY DEF ArgsIn
  <2> HIDE DEF f, g
  <2>4. Len(f) = Len(g) + 1 /\ (\A i \in 1..Len(g) : g[i] = f[i + 1]) /\ f[1] = PieceArgs(ps[1], k)
    BY <1>0, <1>1, <1>2, <2>1, <2>2
  <2>5. FlattenSeq(f) = f[1] \o FlattenSeq(g)
    BY <2>1, <2>2, <2>4, FlatHead
  <2> QED BY <2>3, <2>4, <2>5
<1> QED BY <1>3, <1>4

(***************************************************************************)
(* What the provider said is what is held, followed by what is pending.    *)
(***************************************************************************)

\* What responsesStream holds of a call.
HeldArgs(k) == IF k \in DOMAIN tools THEN tools[k].args ELSE <<>>
HeldHead(k) == IF k \in DOMAIN tools THEN tools[k].head ELSE Nothing

\* A call a provider makes.
IsSaid(c) == c.head \in BOOLEAN /\ IsSeq(c.args) /\ c = [head |-> c.head, args |-> c.args]

\* The fragments of calls in a chunk, where m of n calls are known: in the
\* order of the calls, one of each at most, and the new ones all there.
Arriving(ps, m, n) ==
    /\ IsSeq(ps)
    /\ \A i \in ToolsOf(ps) : /\ CallOf(ps[i]) \in 0..(n - 1)
                              /\ ps[i].head \in {Nothing, CallOf(ps[i]) + 1}
    /\ \A i, j \in ToolsOf(ps) : i < j => CallOf(ps[i]) < CallOf(ps[j])
    /\ \A k \in m..(n - 1) : \E i \in ToolsOf(ps) : CallOf(ps[i]) = k

TextSaid == IsSeq(saidText) /\ saidText = text \o TextIn(pending)

CallsSaid ==
    /\ IsSeq(saidCalls)
    /\ \A k \in 0..(Len(saidCalls) - 1) :
         /\ IsSaid(saidCalls[k + 1])
         /\ saidCalls[k + 1].args = HeldArgs(k) \o ArgsIn(pending, k)
         /\ HeldHead(k) \in {Nothing, k + 1}
         /\ saidCalls[k + 1].head <=> HeldHead(k) # Nothing \/ Named(pending, k)

CallsNumbered ==
    /\ Len(toolOrder) =< Len(saidCalls)
    /\ \A i \in 1..Len(toolOrder) : toolOrder[i] = i - 1

NothingWaits ==
    /\ phase # "reading" => pending = <<>>
    /\ ~sent => pending = <<>> /\ saidText = <<>> /\ saidCalls = <<>>

SaidOK ==
    /\ frags \in Nat /\ sent \in BOOLEAN
    /\ TextSaid /\ CallsSaid /\ CallsNumbered /\ NothingWaits
    /\ Arriving(pending, Len(toolOrder), Len(saidCalls))

\* Where the fragments of the rest of a chunk were in the chunk.
LEMMA RestTools ==
    ASSUME NEW ps, NEW qs, Rest(ps, qs)
    PROVE  /\ \A i \in ToolsOf(qs) : i + 1 \in ToolsOf(ps) /\ qs[i] = ps[i + 1] /\ i \in Int
           /\ \A i \in ToolsOf(ps) : i # 1 => i - 1 \in ToolsOf(qs) /\ qs[i - 1] = ps[i]
           /\ \A i \in ToolsOf(ps) : i \in Int /\ i >= 1
<1>0. /\ Len(ps) = Len(qs) + 1 /\ Len(qs) \in Nat /\ \A i \in 1..Len(qs) : qs[i] = ps[i + 1]
  BY DEF Rest, IsSeq
<1>1. \A i \in 1..Len(qs) : i + 1 \in 1..Len(ps)
  BY <1>0
<1>2. \A i \in 1..Len(ps) : i # 1 => i - 1 \in 1..Len(qs) /\ (i - 1) + 1 = i
  BY <1>0
<1>3. \A i \in 1..Len(ps) : i # 1 => qs[i - 1] = ps[i]
  BY <1>0, <1>2
<1> QED BY <1>0, <1>1, <1>2, <1>3 DEF ToolsOf

\* A piece that is of no call.
LEMMA RestArriving ==
    ASSUME NEW ps, NEW qs, Rest(ps, qs), NEW m, NEW n, Arriving(ps, m, n), ps[1].kind # "tool"
    PROVE  /\ Arriving(qs, m, n) /\ \A k : Named(ps, k) <=> Named(qs, k)
           /\ \A k : ArgsIn(qs, k) = ArgsIn(ps, k)
<1>1. /\ \A i \in ToolsOf(qs) : i + 1 \in ToolsOf(ps) /\ qs[i] = ps[i + 1] /\ i \in Int
      /\ \A i \in ToolsOf(ps) : i # 1 => i - 1 \in ToolsOf(qs) /\ qs[i - 1] = ps[i]
  BY RestTools
<1>2. 1 \notin ToolsOf(ps)
  BY DEF ToolsOf
<1>3. IsSeq(qs) /\ IsSeq(ps)
  BY DEF Rest
<1>4. Arriving(qs, m, n)
  <2>1. \A i \in ToolsOf(qs) : CallOf(qs[i]) \in 0..(n - 1) /\ qs[i].head \in {Nothing, CallOf(qs[i]) + 1}
    BY <1>1 DEF Arriving
  <2>2. ASSUME NEW i \in ToolsOf(qs), NEW j \in ToolsOf(qs), i < j PROVE CallOf(qs[i]) < CallOf(qs[j])
    <3>1. i + 1 \in ToolsOf(ps) /\ j + 1 \in ToolsOf(ps) /\ i + 1 < j + 1
      BY <1>1, <2>2
    <3>2. CallOf(ps[i + 1]) < CallOf(ps[j + 1])
      BY <3>1 DEF Arriving
    <3> QED BY <1>1, <3>2
  <2>3. ASSUME NEW k \in m..(n - 1) PROVE \E i \in ToolsOf(qs) : CallOf(qs[i]) = k
    <3>1. PICK i \in ToolsOf(ps) : CallOf(ps[i]) = k
      BY DEF Arriving
    <3>2. i - 1 \in ToolsOf(qs) /\ CallOf(qs[i - 1]) = k
      BY <1>1, <1>2, <3>1
    <3> QED BY <3>2
  <2> QED BY <1>3, <2>1, <2>2, <2>3 DEF Arriving
<1>5. ASSUME NEW k PROVE Named(ps, k) <=> Named(qs, k)
  <2>1. ASSUME Named(ps, k) PROVE Named(qs, k)
    <3>1. PICK i \in ToolsOf(ps) : CallOf(ps[i]) = k /\ ps[i].head # Nothing
      BY <2>1 DEF Named
    <3>2. i - 1 \in ToolsOf(qs) /\ CallOf(qs[i - 1]) = k /\ qs[i - 1].head # Nothing
      BY <1>1, <1>2, <3>1
    <3> QED BY <3>2 DEF Named
  <2>2. ASSUME Named(qs, k) PROVE Named(ps, k)
    <3>1. PICK i \in ToolsOf(qs) : CallOf(qs[i]) = k /\ qs[i].head # Nothing
      BY <2>2 DEF Named
    <3>2. i + 1 \in ToolsOf(ps) /\ CallOf(ps[i + 1]) = k /\ ps[i + 1].head # Nothing
      BY <1>1, <3>1
    <3> QED BY <3>2 DEF Named
  <2> QED BY <2>1, <2>2
<1>6. ASSUME NEW k PROVE ArgsIn(qs, k) = ArgsIn(ps, k)
  <2>1. PieceArgs(ps[1], k) = <<>>
    BY DEF PieceArgs
  <2>2. ArgsIn(ps, k) = PieceArgs(ps[1], k) \o ArgsIn(qs, k)
    BY RestSays
  <2>3. IsSeq(ArgsIn(qs, k))
    BY <1>3, PiecesSay
  <2> QED BY <2>1, <2>2, <2>3, JoinedNone
<1> QED BY <1>4, <1>5, <1>6

\* The calls are left alone.
LEMMA SameCallsSaid ==
    ASSUME CallsSaid, UNCHANGED <<saidCalls, tools>>,
           \A k : (Named(pending', k) <=> Named(pending, k)) /\ ArgsIn(pending', k) = ArgsIn(pending, k)
    PROVE  CallsSaid'
<1>1. IsSeq(saidCalls')
  BY DEF CallsSaid
<1>2. \A k : HeldArgs(k)' = HeldArgs(k) /\ HeldHead(k)' = HeldHead(k)
  BY DEF HeldArgs, HeldHead
<1>3. ASSUME NEW k \in 0..(Len(saidCalls) - 1)
      PROVE  /\ IsSaid(saidCalls'[k + 1])
             /\ saidCalls'[k + 1].args = HeldArgs(k)' \o ArgsIn(pending', k)
             /\ HeldHead(k)' \in {Nothing, k + 1}
             /\ saidCalls'[k + 1].head <=> HeldHead(k)' # Nothing \/ Named(pending', k)
  <2>1. /\ IsSaid(saidCalls[k + 1])
        /\ saidCalls[k + 1].args = HeldArgs(k) \o ArgsIn(pending, k)
        /\ HeldHead(k) \in {Nothing, k + 1}
        /\ saidCalls[k + 1].head <=> HeldHead(k) # Nothing \/ Named(pending, k)
    BY DEF CallsSaid
  <2> QED BY <1>2, <2>1
<1> QED BY <1>1, <1>3 DEF CallsSaid

\* begin consumes nothing of what was said,
LEMMA ConsumeBeginSaid == ASSUME SaidOK, ConsumeBegin PROVE SaidOK'
<1>1. /\ pending # <<>> /\ Head(pending).kind = "begin" /\ pending' = Tail(pending) /\ phase = "reading"
      /\ UNCHANGED <<phase, sent, frags, saidText, saidCalls, text, tools, toolOrder>>
  BY DEF ConsumeBegin, gateway, provider, itemVars
<1>2. Arriving(pending, Len(toolOrder), Len(saidCalls)) /\ IsSeq(pending)
  BY DEF SaidOK, Arriving
<1>3. Rest(pending, pending')
  BY <1>1, <1>2, TailRest
<1>4. pending[1].kind = "begin"
  BY <1>1, <1>3 DEF Rest
<1>5. /\ Arriving(pending', Len(toolOrder), Len(saidCalls))
      /\ \A k : Named(pending, k) <=> Named(pending', k)
      /\ \A k : ArgsIn(pending', k) = ArgsIn(pending, k)
  BY <1>2, <1>3, <1>4, RestArriving
<1>6. TextIn(pending') = TextIn(pending)
  <2>1. PieceText(pending[1]) = <<>>
    BY <1>4 DEF PieceText
  <2>2. TextIn(pending) = PieceText(pending[1]) \o TextIn(pending')
    BY <1>3, RestSays
  <2>3. IsSeq(TextIn(pending'))
    BY <1>3, PiecesSay DEF Rest
  <2> QED BY <2>1, <2>2, <2>3, JoinedNone
<1>7. TextSaid'
  BY <1>1, <1>6 DEF SaidOK, TextSaid
<1>8. CallsSaid'
  BY <1>1, <1>5, SameCallsSaid DEF SaidOK
<1>9. CallsNumbered'
  BY <1>1 DEF SaidOK, CallsNumbered
<1>10. NothingWaits'
  BY <1>1 DEF SaidOK, NothingWaits
<1>11. (frags \in Nat)' /\ (sent \in BOOLEAN)'
  BY <1>1 DEF SaidOK
<1>12. Arriving(pending', Len(toolOrder'), Len(saidCalls'))
  BY <1>1, <1>5
<1> QED BY <1>7, <1>8, <1>9, <1>10, <1>11, <1>12 DEF SaidOK

\* appendText a fragment of the text,
LEMMA AppendTextSaid == ASSUME LogSays, SaidOK, AppendText PROVE SaidOK'
<1>1. /\ pending # <<>> /\ Head(pending).kind = "text" /\ pending' = Tail(pending) /\ phase = "reading"
      /\ UNCHANGED <<phase, sent, frags, saidText, saidCalls, tools, toolOrder>>
      /\ text' = Append(text, Head(pending).frag)
  BY DEF AppendText, gateway, provider
<1>2. Arriving(pending, Len(toolOrder), Len(saidCalls)) /\ IsSeq(pending)
  BY DEF SaidOK, Arriving
<1>3. Rest(pending, pending')
  BY <1>1, <1>2, TailRest
<1>4. pending[1].kind = "text" /\ Head(pending) = pending[1]
  BY <1>1, <1>3 DEF Rest
<1>5. /\ Arriving(pending', Len(toolOrder), Len(saidCalls))
      /\ \A k : Named(pending, k) <=> Named(pending', k)
      /\ \A k : ArgsIn(pending', k) = ArgsIn(pending, k)
  BY <1>2, <1>3, <1>4, RestArriving
<1>6. text \o TextIn(pending) = text' \o TextIn(pending')
  <2> DEFINE q == <<pending[1].frag>>
  <2>1. PieceText(pending[1]) = q
    BY <1>4 DEF PieceText
  <2>2. TextIn(pending) = PieceText(pending[1]) \o TextIn(pending')
    BY <1>3, RestSays
  <2>3. IsSeq(TextIn(pending'))
    BY <1>3, PiecesSay DEF Rest
  <2>4. IsSeq(text) /\ IsSeq(q)
    BY Tuples DEF LogSays, TextSays
  <2>5. text' = text \o q
    BY <1>1, <1>4, <2>4, Appended
  <2> HIDE DEF q
  <2>6. (text \o q) \o TextIn(pending') = text \o (q \o TextIn(pending'))
    BY <2>3, <2>4, JoinedThrice, SMTT(60)
  <2> QED BY <2>1, <2>2, <2>5, <2>6
<1>7. TextSaid'
  BY <1>1, <1>6 DEF SaidOK, TextSaid
<1>8. CallsSaid'
  BY <1>1, <1>5, SameCallsSaid DEF SaidOK
<1>9. CallsNumbered'
  BY <1>1 DEF SaidOK, CallsNumbered
<1>10. NothingWaits'
  BY <1>1 DEF SaidOK, NothingWaits
<1>11. (frags \in Nat)' /\ (sent \in BOOLEAN)'
  BY <1>1 DEF SaidOK
<1>12. Arriving(pending', Len(toolOrder'), Len(saidCalls'))
  BY <1>1, <1>5
<1> QED BY <1>7, <1>8, <1>9, <1>10, <1>11, <1>12 DEF SaidOK

\* The calls responsesStream knows.
LEMMA KnownCalls ==
    ASSUME StreamOK, SaidOK
    PROVE  Len(toolOrder) \in Nat /\ DOMAIN tools = 0..(Len(toolOrder) - 1) /\ Len(saidCalls) \in Nat
           /\ Len(toolOrder) =< Len(saidCalls)
<1>1. /\ IsSeq(toolOrder) /\ Len(toolOrder) \in Nat
      /\ \A i \in 1..Len(toolOrder) : toolOrder[i] \in DOMAIN tools
      /\ \A k \in DOMAIN tools : \E i \in 1..Len(toolOrder) : toolOrder[i] = k
  BY DEF StreamOK, OrderOK, IsSeq
<1>2. \A i \in 1..Len(toolOrder) : toolOrder[i] = i - 1
  BY DEF SaidOK, CallsNumbered
<1>3. \A k \in 0..(Len(toolOrder) - 1) : k \in DOMAIN tools
  <2> TAKE k \in 0..(Len(toolOrder) - 1)
  <2>1. k + 1 \in 1..Len(toolOrder) /\ (k + 1) - 1 = k
    BY <1>1
  <2> QED BY <1>1, <1>2, <2>1
<1>4. \A k \in DOMAIN tools : k \in 0..(Len(toolOrder) - 1)
  BY <1>1, <1>2
<1>5. Len(saidCalls) \in Nat /\ Len(toolOrder) =< Len(saidCalls)
  BY DEF SaidOK, CallsSaid, IsSeq, CallsNumbered
<1> QED BY <1>1, <1>3, <1>4, <1>5

\* and appendToolCall a fragment of a call, the next one if it is new.
LEMMA AppendToolCallSaid == ASSUME StreamOK, LogSays, SaidOK, AppendToolCall PROVE SaidOK'
<1>1. /\ pending # <<>> /\ Head(pending).kind = "tool" /\ pending' = Tail(pending) /\ phase = "reading"
      /\ UNCHANGED <<phase, sent, frags, saidText, saidCalls, text>>
  BY DEF AppendToolCall, gateway, provider
<1>2. Arriving(pending, Len(toolOrder), Len(saidCalls)) /\ IsSeq(pending)
  BY DEF SaidOK, Arriving
<1>3. Rest(pending, pending')
  BY <1>1, <1>2, TailRest
<1>4. pending[1].kind = "tool" /\ Piece = pending[1]
  BY <1>1, <1>3 DEF Rest, Piece
<1>5. /\ IsNew => Call.args = <<>> /\ Call.head = Piece.head
      /\ ~IsNew => Key \in DOMAIN tools /\ Call = tools[Key]
      /\ IsSeq(Call.args)
      /\ DOMAIN tools' = DOMAIN tools \cup {Key}
      /\ tools'[Key].args = Call.args \o Bringing(Piece.frag)
      /\ tools'[Key].head = IF Piece.head # Nothing THEN Piece.head ELSE Call.head
      /\ \A k \in DOMAIN tools : k # Key => tools'[k] = tools[k]
      /\ toolOrder' = IF IsNew THEN Append(toolOrder, Key) ELSE toolOrder
  BY CallStep DEF CallDone
<1>6. (IsNew <=> Key \notin DOMAIN tools) /\ IsNew \in BOOLEAN /\ Key = CallOf(pending[1])
  BY <1>4 DEF IsNew, Key
<1> DEFINE m == Len(toolOrder)
<1> DEFINE n == Len(saidCalls)
<1>7. m \in Nat /\ n \in Nat /\ m =< n /\ DOMAIN tools = 0..(m - 1)
  BY KnownCalls
<1>8. 1 \in ToolsOf(pending)
  <2>1. 1 \in 1..Len(pending)
    BY <1>3 DEF Rest, IsSeq
  <2> QED BY <1>4, <2>1 DEF ToolsOf
<1>9. /\ \A i \in ToolsOf(pending') : i + 1 \in ToolsOf(pending) /\ pending'[i] = pending[i + 1] /\ i \in Int
      /\ \A i \in ToolsOf(pending) : i # 1 => i - 1 \in ToolsOf(pending') /\ pending'[i - 1] = pending[i]
      /\ \A i \in ToolsOf(pending) : i \in Int /\ i >= 1
  BY <1>3, RestTools
<1>10. /\ Key \in 0..(n - 1) /\ Piece.head \in {Nothing, Key + 1}
       /\ \A i \in ToolsOf(pending) : i # 1 => CallOf(pending[i]) > Key /\ CallOf(pending[i]) \in 0..(n - 1)
  <2>1. Key \in 0..(n - 1) /\ Piece.head \in {Nothing, Key + 1}
    BY <1>2, <1>4, <1>6, <1>8 DEF Arriving
  <2>2. ASSUME NEW i \in ToolsOf(pending), i # 1
        PROVE CallOf(pending[i]) > Key /\ CallOf(pending[i]) \in 0..(n - 1)
    <3>1. 1 < i
      BY <1>9, <2>2
    <3>2. CallOf(pending[1]) < CallOf(pending[i]) /\ CallOf(pending[i]) \in 0..(n - 1)
      BY <1>2, <1>8, <3>1 DEF Arriving
    <3> QED BY <1>6, <1>7, <2>1, <3>2
  <2> QED BY <2>1, <2>2
<1>11. IsNew => Key = m
  <2> SUFFICES ASSUME IsNew, Key # m PROVE FALSE
    OBVIOUS
  <2>1. m \in m..(n - 1) /\ m < Key
    BY <1>6, <1>7, <1>10
  <2>2. PICK i \in ToolsOf(pending) : CallOf(pending[i]) = m
    BY <1>2, <2>1 DEF Arriving
  <2> QED BY <1>6, <1>7, <1>10, <2>1, <2>2
<1>12. /\ Len(toolOrder') \in Nat /\ Len(toolOrder') = IF IsNew THEN m + 1 ELSE m
       /\ Len(toolOrder') =< n
       /\ \A i \in 1..Len(toolOrder') : toolOrder'[i] = i - 1
  <2>0. IsSeq(toolOrder) /\ \A i \in 1..m : toolOrder[i] = i - 1
    BY DEF StreamOK, OrderOK, SaidOK, CallsNumbered
  <2>1. CASE IsNew
    <3>1. /\ Len(toolOrder') = m + 1 /\ toolOrder'[m + 1] = Key
          /\ \A i \in 1..m : toolOrder'[i] = toolOrder[i]
      BY <1>5, <2>0, <2>1, Appended
    <3>2. \A i \in 1..(m + 1) : i \in 1..m \/ i = m + 1
      BY <1>7
    <3> QED BY <1>7, <1>10, <1>11, <2>0, <2>1, <3>1, <3>2
  <2>2. CASE ~IsNew
    BY <1>5, <1>7, <2>0, <2>2
  <2> QED BY <1>6, <2>1, <2>2
<1>13. TextSaid'
  <2>1. PieceText(pending[1]) = <<>>
    BY <1>4 DEF PieceText
  <2>2. TextIn(pending) = PieceText(pending[1]) \o TextIn(pending')
    BY <1>3, RestSays
  <2>3. IsSeq(TextIn(pending'))
    BY <1>3, PiecesSay DEF Rest
  <2>4. TextIn(pending') = TextIn(pending)
    BY <2>1, <2>2, <2>3, JoinedNone
  <2> QED BY <1>1, <2>4 DEF SaidOK, TextSaid
<1>14. CallsSaid'
  <2>0. IsSeq(saidCalls) /\ saidCalls' = saidCalls
    BY <1>1 DEF SaidOK, CallsSaid
  <2>1. ASSUME NEW k \in 0..(n - 1)
        PROVE  /\ IsSaid(saidCalls'[k + 1])
               /\ saidCalls'[k + 1].args = HeldArgs(k)' \o ArgsIn(pending', k)
               /\ HeldHead(k)' \in {Nothing, k + 1}
               /\ saidCalls'[k + 1].head <=> HeldHead(k)' # Nothing \/ Named(pending', k)
    <3>1. /\ IsSaid(saidCalls[k + 1])
          /\ saidCalls[k + 1].args = HeldArgs(k) \o ArgsIn(pending, k)
          /\ HeldHead(k) \in {Nothing, k + 1}
          /\ saidCalls[k + 1].head <=> HeldHead(k) # Nothing \/ Named(pending, k)
      BY DEF SaidOK, CallsSaid
    <3>2. ArgsIn(pending, k) = PieceArgs(pending[1], k) \o ArgsIn(pending', k)
      BY <1>3, RestSays
    <3>3. IsSeq(ArgsIn(pending', k))
      BY <1>3, PiecesSay DEF Rest
    <3>4. CASE k # Key
      <4>1. HeldArgs(k)' = HeldArgs(k) /\ HeldHead(k)' = HeldHead(k)
        BY <1>5, <3>4 DEF HeldArgs, HeldHead
      <4>2. PieceArgs(pending[1], k) = <<>>
        BY <1>6, <3>4 DEF PieceArgs
      <4>3. ArgsIn(pending', k) = ArgsIn(pending, k)
        BY <3>2, <3>3, <4>2, JoinedNone
      <4>4. Named(pending', k) <=> Named(pending, k)
        <5>1. ASSUME Named(pending, k) PROVE Named(pending', k)
          <6>1. PICK i \in ToolsOf(pending) : CallOf(pending[i]) = k /\ pending[i].head # Nothing
            BY <5>1 DEF Named
          <6>2. i # 1
            BY <1>6, <3>4, <6>1
          <6>3. i - 1 \in ToolsOf(pending') /\ CallOf(pending'[i - 1]) = k /\ pending'[i - 1].head # Nothing
            BY <1>9, <6>1, <6>2
          <6> QED BY <6>3 DEF Named
        <5>2. ASSUME Named(pending', k) PROVE Named(pending, k)
          <6>1. PICK i \in ToolsOf(pending') : CallOf(pending'[i]) = k /\ pending'[i].head # Nothing
            BY <5>2 DEF Named
          <6>2. i + 1 \in ToolsOf(pending) /\ CallOf(pending[i + 1]) = k /\ pending[i + 1].head # Nothing
            BY <1>9, <6>1
          <6> QED BY <6>2 DEF Named
        <5> QED BY <5>1, <5>2
      <4> QED BY <2>0, <3>1, <4>1, <4>3, <4>4
    <3>5. CASE k = Key
      <4>1. HeldArgs(k) = Call.args
        BY <1>5, <1>6, <3>5 DEF HeldArgs
      <4>2. HeldArgs(k)' = Call.args \o Bringing(Piece.frag)
        BY <1>5, <3>5 DEF HeldArgs
      <4>3. PieceArgs(pending[1], k) = Bringing(Piece.frag)
        BY <1>4, <1>6, <3>5 DEF PieceArgs
      <4>4. IsSeq(Bringing(Piece.frag)) /\ IsSeq(Call.args)
        BY <1>5, Tuples DEF Bringing
      <4>5. (Call.args \o Bringing(Piece.frag)) \o ArgsIn(pending', k)
              = Call.args \o (Bringing(Piece.frag) \o ArgsIn(pending', k))
        <5> DEFINE x == Call.args
        <5> DEFINE y == Bringing(Piece.frag)
        <5> DEFINE z == ArgsIn(pending', k)
        <5>1. IsSeq(x) /\ IsSeq(y) /\ IsSeq(z)
          BY <3>3, <4>4
        <5> HIDE DEF x, y, z
        <5>2. (x \o y) \o z = x \o (y \o z)
          BY <5>1, JoinedThrice, SMTT(60)
        <5> QED BY <5>2 DEF x, y, z
      <4>6. saidCalls[k + 1].args = HeldArgs(k)' \o ArgsIn(pending', k)
        BY <3>1, <3>2, <4>1, <4>2, <4>3, <4>5
      <4>7. HeldHead(k)' = IF Piece.head # Nothing THEN Piece.head ELSE Call.head
        BY <1>5, <3>5 DEF HeldHead
      <4>8. Call.head = IF IsNew THEN Piece.head ELSE HeldHead(k)
        BY <1>5, <1>6, <3>5 DEF HeldHead
      <4>9. IsNew => HeldHead(k) = Nothing
        BY <1>6, <3>5 DEF HeldHead
      <4>10. HeldHead(k)' = IF Piece.head # Nothing THEN Piece.head ELSE HeldHead(k)
        BY <4>7, <4>8, <4>9, <1>6
      <4>11. Named(pending, k) <=> Piece.head # Nothing
        <5>1. ASSUME NEW i \in ToolsOf(pending), CallOf(pending[i]) = k PROVE i = 1
          BY <1>7, <1>10, <3>5, <5>1
        <5>2. CallOf(pending[1]) = k
          BY <1>6, <3>5
        <5> QED BY <1>4, <1>8, <5>1, <5>2 DEF Named
      <4>12. ~Named(pending', k)
        <5> SUFFICES ASSUME NEW i \in ToolsOf(pending'), CallOf(pending'[i]) = k PROVE FALSE
          BY DEF Named
        <5>1. i + 1 \in ToolsOf(pending) /\ i + 1 # 1 /\ CallOf(pending[i + 1]) = k
          <6>1. i >= 1
            BY DEF ToolsOf
          <6> QED BY <1>9, <6>1
        <5> QED BY <1>7, <1>10, <3>5, <5>1
      <4>13. HeldHead(k)' \in {Nothing, k + 1}
        BY <1>10, <3>1, <3>5, <4>10
      <4>14. saidCalls[k + 1].head <=> HeldHead(k)' # Nothing
        BY <3>1, <4>10, <4>11
      <4> QED BY <2>0, <3>1, <4>6, <4>12, <4>13, <4>14
    <3> QED BY <3>4, <3>5
  <2> QED BY <2>0, <2>1 DEF CallsSaid
<1>15. CallsNumbered'
  BY <1>1, <1>12 DEF CallsNumbered
<1>16. NothingWaits'
  BY <1>1 DEF SaidOK, NothingWaits
<1>17. (frags \in Nat)' /\ (sent \in BOOLEAN)'
  BY <1>1 DEF SaidOK
<1>18. Arriving(pending', Len(toolOrder'), n)
  <2>1. IsSeq(pending')
    BY <1>3 DEF Rest
  <2>2. \A i \in ToolsOf(pending') : /\ CallOf(pending'[i]) \in 0..(n - 1)
                                     /\ pending'[i].head \in {Nothing, CallOf(pending'[i]) + 1}
    BY <1>2, <1>9 DEF Arriving
  <2>3. ASSUME NEW i \in ToolsOf(pending'), NEW j \in ToolsOf(pending'), i < j
        PROVE  CallOf(pending'[i]) < CallOf(pending'[j])
    <3>1. i + 1 \in ToolsOf(pending) /\ j + 1 \in ToolsOf(pending) /\ i + 1 < j + 1
      BY <1>9, <2>3
    <3>2. CallOf(pending[i + 1]) < CallOf(pending[j + 1])
      BY <1>2, <3>1 DEF Arriving
    <3> QED BY <1>9, <3>2
  <2>4. ASSUME NEW k \in Len(toolOrder')..(n - 1) PROVE \E i \in ToolsOf(pending') : CallOf(pending'[i]) = k
    <3>1. k \in m..(n - 1) /\ k # Key
      <4>1. CASE IsNew
        BY <1>7, <1>11, <1>12, <4>1
      <4>2. CASE ~IsNew
        BY <1>6, <1>7, <1>12, <4>2
      <4> QED BY <1>6, <4>1, <4>2
    <3>2. PICK i \in ToolsOf(pending) : CallOf(pending[i]) = k
      BY <1>2, <3>1 DEF Arriving
    <3>3. i # 1
      BY <1>6, <3>1, <3>2
    <3>4. i - 1 \in ToolsOf(pending') /\ CallOf(pending'[i - 1]) = k
      BY <1>9, <3>2, <3>3
    <3> QED BY <3>4
  <2> QED BY <2>1, <2>2, <2>3, <2>4 DEF Arriving
<1>19. Arriving(pending', Len(toolOrder'), Len(saidCalls'))
  BY <1>1, <1>18
<1> QED BY <1>13, <1>14, <1>15, <1>16, <1>17, <1>19 DEF SaidOK

\* What the provider had said of a call before it spoke.
OldArgs(k) == IF k < Len(saidCalls) THEN saidCalls[k + 1].args ELSE <<>>
OldHead(k) == k < Len(saidCalls) /\ saidCalls[k + 1].head

\* The provider speaks: what it adds is what the pieces of the chunk bring.
Spoken ==
    /\ frags' \in Nat /\ IsSeq(saidText') /\ saidText' = saidText \o TextIn(pending')
    /\ IsSeq(saidCalls') /\ Len(saidCalls') >= Len(saidCalls)
    /\ \A k \in 0..(Len(saidCalls') - 1) :
         /\ IsSaid(saidCalls'[k + 1])
         /\ saidCalls'[k + 1].args = OldArgs(k) \o ArgsIn(pending', k)
         /\ saidCalls'[k + 1].head <=> OldHead(k) \/ Named(pending', k)
    /\ Arriving(pending', Len(saidCalls), Len(saidCalls'))

LEMMA SpokenSaid ==
    ASSUME StreamOK, LogSays, SaidOK, Reading, Spoken, sent' = (sent \/ pending' # <<>>),
           UNCHANGED <<phase, itemVars>>
    PROVE  SaidOK'
<1> DEFINE n == Len(saidCalls)
<1> DEFINE nn == Len(saidCalls')
<1>0. pending = <<>> /\ phase' = "reading" /\ UNCHANGED <<text, tools, toolOrder>>
  BY DEF Reading, itemVars
<1>1. /\ Len(toolOrder) \in Nat /\ DOMAIN tools = 0..(Len(toolOrder) - 1) /\ n \in Nat
      /\ Len(toolOrder) =< n
  BY KnownCalls
<1>2. Len(toolOrder) = n
  <2>1. \A k \in Len(toolOrder)..(n - 1) : \E i \in ToolsOf(pending) : CallOf(pending[i]) = k
    BY DEF SaidOK, Arriving
  <2>2. ToolsOf(pending) = {}
    BY <1>0, NoPieces
  <2> QED BY <1>1, <2>1, <2>2
<1>3. nn \in Nat /\ nn >= n /\ IsSeq(saidCalls')
  BY DEF Spoken, IsSeq
<1>4. ASSUME NEW k \in Nat
      PROVE  /\ OldArgs(k) = HeldArgs(k) /\ HeldHead(k) \in {Nothing, k + 1}
             /\ OldHead(k) <=> HeldHead(k) # Nothing
  <2>1. CASE k < n
    <3>1. k \in 0..(n - 1)
      BY <1>1, <2>1
    <3>2. /\ saidCalls[k + 1].args = HeldArgs(k) \o ArgsIn(pending, k)
          /\ HeldHead(k) \in {Nothing, k + 1}
          /\ saidCalls[k + 1].head <=> HeldHead(k) # Nothing \/ Named(pending, k)
      BY <3>1 DEF SaidOK, CallsSaid
    <3>3. ArgsIn(pending, k) = <<>> /\ ~Named(pending, k)
      BY <1>0, NoPieces
    <3>4. IsSeq(HeldArgs(k))
      BY Tuples DEF LogSays, CallsSay, HeldArgs
    <3>5. HeldArgs(k) \o <<>> = HeldArgs(k)
      BY <3>4, JoinedNone
    <3> QED BY <2>1, <3>2, <3>3, <3>5 DEF OldArgs, OldHead
  <2>2. CASE ~(k < n)
    <3>1. k \notin DOMAIN tools
      BY <1>1, <1>2, <2>2
    <3> QED BY <2>2, <3>1 DEF OldArgs, OldHead, HeldArgs, HeldHead
  <2> QED BY <2>1, <2>2
<1>5. \A k : HeldArgs(k)' = HeldArgs(k) /\ HeldHead(k)' = HeldHead(k)
  BY <1>0 DEF HeldArgs, HeldHead
<1>6. TextSaid'
  <2>1. saidText = text \o TextIn(pending) /\ TextIn(pending) = <<>> /\ IsSeq(text)
    BY <1>0, NoPieces DEF SaidOK, TextSaid, LogSays, TextSays
  <2>2. saidText = text
    BY <2>1, JoinedNone
  <2> QED BY <1>0, <2>2 DEF Spoken, TextSaid
<1>7. CallsSaid'
  <2>1. ASSUME NEW k \in 0..(nn - 1)
        PROVE  /\ IsSaid(saidCalls'[k + 1])
               /\ saidCalls'[k + 1].args = HeldArgs(k)' \o ArgsIn(pending', k)
               /\ HeldHead(k)' \in {Nothing, k + 1}
               /\ saidCalls'[k + 1].head <=> HeldHead(k)' # Nothing \/ Named(pending', k)
    <3>1. k \in Nat
      BY <1>3
    <3>2. /\ IsSaid(saidCalls'[k + 1])
          /\ saidCalls'[k + 1].args = OldArgs(k) \o ArgsIn(pending', k)
          /\ saidCalls'[k + 1].head <=> OldHead(k) \/ Named(pending', k)
      BY DEF Spoken
    <3> QED BY <1>4, <1>5, <3>1, <3>2
  <2> QED BY <1>3, <2>1 DEF CallsSaid
<1>8. CallsNumbered'
  <2>1. Len(toolOrder') =< nn /\ toolOrder' = toolOrder
    BY <1>0, <1>1, <1>2, <1>3
  <2> QED BY <2>1 DEF SaidOK, CallsNumbered
<1>9. NothingWaits'
  <2> SUFFICES ASSUME ~sent' PROVE pending' = <<>> /\ saidText' = <<>> /\ saidCalls' = <<>>
    BY <1>0 DEF NothingWaits
  <2>1. pending' = <<>> /\ ~sent
    OBVIOUS
  <2>2. saidText = <<>> /\ saidCalls = <<>>
    BY <2>1 DEF SaidOK, NothingWaits
  <2>3. TextIn(pending') = <<>> /\ ToolsOf(pending') = {}
    BY <2>1, NoPieces
  <2>4. saidText' = <<>>
    <3>1. saidText' = saidText \o TextIn(pending')
      BY DEF Spoken
    <3>2. saidText' = <<>> \o <<>>
      BY <2>2, <2>3, <3>1
    <3> QED BY <3>2, Tuples, JoinedNone
  <2>5. n = 0
    BY <2>2, Tuples
  <2>6. \A k \in n..(nn - 1) : \E i \in ToolsOf(pending') : CallOf(pending'[i]) = k
    BY DEF Spoken, Arriving
  <2>7. nn = 0
    BY <1>3, <2>3, <2>5, <2>6
  <2>8. saidCalls' = <<>>
    BY <1>3, <2>7, FlatNothing
  <2> QED BY <2>1, <2>4, <2>8
<1>10. Arriving(pending', Len(toolOrder'), Len(saidCalls'))
  <2>1. Len(toolOrder') = Len(saidCalls)
    BY <1>0, <1>2
  <2> QED BY <2>1 DEF Spoken
<1>11. (frags \in Nat)' /\ (sent \in BOOLEAN)'
  BY DEF Spoken, SaidOK
<1> QED BY <1>6, <1>7, <1>8, <1>9, <1>10, <1>11 DEF SaidOK

\* A chunk: pieces that are of no call, then the fragments of calls.
Shifted(ps, f, m) ==
    /\ IsSeq(ps) /\ IsSeq(f) /\ m \in Nat /\ Len(ps) = m + Len(f)
    /\ \A i \in 1..m : ps[i].kind # "tool"
    /\ \A i \in 1..Len(f) : ps[m + i] = f[i] /\ f[i].kind = "tool"

\* The fragments, where a of n calls are known.
Fragments(f, a, n) ==
    /\ \A i \in 1..Len(f) : CallOf(f[i]) \in 0..(n - 1) /\ f[i].head \in {Nothing, CallOf(f[i]) + 1}
    /\ \A i, j \in 1..Len(f) : i < j => CallOf(f[i]) < CallOf(f[j])
    /\ \A k \in a..(n - 1) : \E i \in 1..Len(f) : CallOf(f[i]) = k

LEMMA ShiftedTools ==
    ASSUME NEW ps, NEW f, NEW m, Shifted(ps, f, m)
    PROVE  /\ \A i \in 1..Len(f) : m + i \in ToolsOf(ps) /\ ps[m + i] = f[i]
           /\ \A j \in ToolsOf(ps) : j - m \in 1..Len(f) /\ ps[j] = f[j - m] /\ j \in Int
<1>0. /\ m \in Nat /\ Len(ps) = m + Len(f) /\ Len(f) \in Nat
      /\ \A i \in 1..m : ps[i].kind # "tool"
      /\ \A i \in 1..Len(f) : ps[m + i] = f[i] /\ f[i].kind = "tool"
  BY DEF Shifted, IsSeq
<1>1. ASSUME NEW i \in 1..Len(f) PROVE m + i \in ToolsOf(ps) /\ ps[m + i] = f[i]
  <2>1. m + i \in 1..Len(ps)
    BY <1>0
  <2> QED BY <1>0, <2>1 DEF ToolsOf
<1>2. ASSUME NEW j \in ToolsOf(ps) PROVE j - m \in 1..Len(f) /\ ps[j] = f[j - m] /\ j \in Int
  <2>1. j \in 1..Len(ps) /\ ps[j].kind = "tool" /\ j \in Int
    BY <1>0 DEF ToolsOf
  <2>2. j \notin 1..m
    BY <1>0, <2>1
  <2>3. j - m \in 1..Len(f) /\ m + (j - m) = j
    BY <1>0, <2>1, <2>2
  <2> QED BY <1>0, <2>1, <2>3
<1> QED BY <1>1, <1>2

LEMMA ShiftedArrives ==
    ASSUME NEW ps, NEW f, NEW m, Shifted(ps, f, m), NEW a \in Nat, NEW n \in Nat, Fragments(f, a, n)
    PROVE  /\ Arriving(ps, a, n)
           /\ \A k : /\ \A i \in 1..Len(f) : CallOf(f[i]) = k =>
                           /\ ArgsIn(ps, k) = Bringing(f[i].frag)
                           /\ Named(ps, k) <=> f[i].head # Nothing
                     /\ (\A i \in 1..Len(f) : CallOf(f[i]) # k) => ArgsIn(ps, k) = <<>> /\ ~Named(ps, k)
<1>0. m \in Nat /\ Len(f) \in Nat /\ IsSeq(ps)
  BY DEF Shifted, IsSeq
<1>1. /\ \A i \in 1..Len(f) : m + i \in ToolsOf(ps) /\ ps[m + i] = f[i]
      /\ \A j \in ToolsOf(ps) : j - m \in 1..Len(f) /\ ps[j] = f[j - m] /\ j \in Int
  BY ShiftedTools
<1>2. /\ \A i \in 1..Len(f) : CallOf(f[i]) \in 0..(n - 1) /\ f[i].head \in {Nothing, CallOf(f[i]) + 1}
      /\ \A i, j \in 1..Len(f) : i < j => CallOf(f[i]) < CallOf(f[j])
      /\ \A k \in a..(n - 1) : \E i \in 1..Len(f) : CallOf(f[i]) = k
  BY DEF Fragments
<1>3. Arriving(ps, a, n)
  <2>1. \A i \in ToolsOf(ps) : CallOf(ps[i]) \in 0..(n - 1) /\ ps[i].head \in {Nothing, CallOf(ps[i]) + 1}
    BY <1>1, <1>2
  <2>2. ASSUME NEW i \in ToolsOf(ps), NEW j \in ToolsOf(ps), i < j PROVE CallOf(ps[i]) < CallOf(ps[j])
    <3>1. i - m \in 1..Len(f) /\ j - m \in 1..Len(f) /\ i - m < j - m
      BY <1>0, <1>1, <2>2
    <3>2. CallOf(f[i - m]) < CallOf(f[j - m])
      BY <1>2, <3>1
    <3> QED BY <1>1, <3>2
  <2>3. ASSUME NEW k \in a..(n - 1) PROVE \E i \in ToolsOf(ps) : CallOf(ps[i]) = k
    <3>1. PICK i \in 1..Len(f) : CallOf(f[i]) = k
      BY <1>2
    <3>2. m + i \in ToolsOf(ps) /\ CallOf(ps[m + i]) = k
      BY <1>1, <3>1
    <3> QED BY <3>2
  <2> QED BY <1>0, <2>1, <2>2, <2>3 DEF Arriving
<1>4. ASSUME NEW i \in 1..Len(f), NEW j \in 1..Len(f), CallOf(f[i]) = CallOf(f[j]) PROVE i = j
  <2>1. ~(i < j) /\ ~(j < i)
    BY <1>2, <1>4
  <2> QED BY <2>1
<1>5. ASSUME NEW k, NEW i \in 1..Len(f), CallOf(f[i]) = k
      PROVE  ArgsIn(ps, k) = Bringing(f[i].frag) /\ (Named(ps, k) <=> f[i].head # Nothing)
  <2>1. m + i \in ToolsOf(ps) /\ ps[m + i] = f[i]
    BY <1>1
  <2>2. \A j \in ToolsOf(ps) : CallOf(ps[j]) = k => j = m + i
    <3> TAKE j \in ToolsOf(ps)
    <3> HAVE CallOf(ps[j]) = k
    <3>1. j - m \in 1..Len(f) /\ CallOf(f[j - m]) = k /\ j \in Int
      BY <1>1
    <3>2. j - m = i
      BY <1>4, <1>5, <3>1
    <3> QED BY <1>0, <3>1, <3>2
  <2> DEFINE j == m + i
  <2>3. j \in ToolsOf(ps) /\ ps[j] = f[i] /\ CallOf(ps[j]) = k /\ \A l \in ToolsOf(ps) : l # j => CallOf(ps[l]) # k
    BY <1>5, <2>1, <2>2
  <2> HIDE DEF j
  <2>4. ArgsIn(ps, k) = Bringing(ps[j].frag)
    BY <1>0, <2>3, OneArgsIn
  <2>5. Named(ps, k) <=> ps[j].head # Nothing
    BY <2>3 DEF Named
  <2> QED BY <2>3, <2>4, <2>5
<1>6. ASSUME NEW k, \A i \in 1..Len(f) : CallOf(f[i]) # k PROVE ArgsIn(ps, k) = <<>> /\ ~Named(ps, k)
  <2>1. \A j \in ToolsOf(ps) : CallOf(ps[j]) # k
    BY <1>1, <1>6
  <2>2. ArgsIn(ps, k) = <<>>
    BY <1>0, <2>1, NoArgsIn
  <2> QED BY <2>1, <2>2 DEF Named
<1> QED BY <1>3, <1>5, <1>6

\* A chunk of the OpenAI and the Google dialects.
LEMMA ChunkShape ==
    ASSUME NEW t \in {0, 1}, NEW f, IsSeq(f), \A i \in 1..Len(f) : f[i].kind = "tool",
           NEW ps, ps = <<Begin>> \o TextPieces(t) \o f
    PROVE  /\ Shifted(ps, f, 1 + t)
           /\ TextIn(ps) = IF t = 0 THEN <<>> ELSE <<frags + 1>>
<1> DEFINE b == <<Begin>> \o TextPieces(t)
<1>1. /\ IsSeq(b) /\ Len(b) = 1 + t /\ b[1] = Begin
      /\ t = 1 => b[2] = TextPiece(frags + 1)
  <2>1. CASE t = 0
    <3>1. TextPieces(t) = <<>>
      BY <2>1 DEF TextPieces
    <3>2. b = <<Begin>>
      BY <3>1, Tuples, JoinedNone
    <3>3. IsSeq(<<Begin>>) /\ Len(<<Begin>>) = 1 /\ <<Begin>>[1] = Begin
      BY Tuples
    <3> HIDE DEF b
    <3> QED BY <2>1, <3>2, <3>3
  <2>2. CASE t = 1
    <3>1. TextPieces(t) = <<TextPiece(frags + 1)>>
      BY <2>2 DEF TextPieces
    <3>2. b = <<Begin, TextPiece(frags + 1)>>
      BY <3>1, OneAndOne
    <3> DEFINE p == TextPiece(frags + 1)
    <3> HIDE DEF p
    <3>3. IsSeq(<<Begin, p>>) /\ Len(<<Begin, p>>) = 2 /\ <<Begin, p>>[1] = Begin /\ <<Begin, p>>[2] = p
      BY Tuples
    <3>4. b = <<Begin, p>>
      BY <3>2 DEF p
    <3> HIDE DEF b
    <3>5. IsSeq(b) /\ Len(b) = 2 /\ b[1] = Begin /\ b[2] = p
      BY <3>3, <3>4
    <3> QED BY <2>2, <3>5 DEF p
  <2> QED BY <2>1, <2>2
<1>2. ps = b \o f
  OBVIOUS
<1>3. Begin.kind = "begin" /\ TextPiece(frags + 1).kind = "text" /\ TextPiece(frags + 1).frag = frags + 1
  BY DEF Begin, TextPiece
<1> HIDE DEF b
<1>4. IsSeq(b) /\ IsSeq(f) /\ Len(f) \in Nat
  BY <1>1 DEF IsSeq
<1>5. /\ IsSeq(ps) /\ Len(ps) = (1 + t) + Len(f) /\ (\A i \in 1..(1 + t) : ps[i] = b[i])
      /\ \A i \in 1..Len(f) : ps[(1 + t) + i] = f[i]
  <2>1. /\ IsSeq(b \o f) /\ Len(b \o f) = Len(b) + Len(f) /\ (\A i \in 1..Len(b) : (b \o f)[i] = b[i])
        /\ \A i \in 1..Len(f) : (b \o f)[Len(b) + i] = f[i]
    BY <1>4, Joined
  <2> QED BY <1>1, <1>2, <2>1
<1>6. \A i \in 1..(1 + t) : i = 1 \/ (t = 1 /\ i = 2)
  OBVIOUS
<1>7. \A i \in 1..(1 + t) : ps[i] = Begin \/ (t = 1 /\ i = 2 /\ ps[i] = TextPiece(frags + 1))
  BY <1>1, <1>5, <1>6
<1>8. Shifted(ps, f, 1 + t)
  <2>1. \A i \in 1..(1 + t) : ps[i].kind # "tool"
    BY <1>3, <1>7
  <2> QED BY <1>4, <1>5, <2>1 DEF Shifted
<1>9. \A j \in 1..Len(ps) : j \in 1..(1 + t) \/ ps[j].kind = "tool"
  <2> TAKE j \in 1..Len(ps)
  <2>1. CASE j > 1 + t
    <3>1. j - (1 + t) \in 1..Len(f) /\ (1 + t) + (j - (1 + t)) = j
      BY <1>4, <1>5, <2>1
    <3> QED BY <1>5, <3>1
  <2>2. CASE ~(j > 1 + t)
    BY <1>4, <1>5, <2>2
  <2> QED BY <2>1, <2>2
<1>10. CASE t = 0
  <2>1. \A j \in 1..Len(ps) : ps[j].kind # "text"
    BY <1>3, <1>7, <1>9, <1>10
  <2>2. TextIn(ps) = <<>>
    BY <1>5, <2>1, NoTextIn
  <2> QED BY <1>8, <1>10, <2>2
<1>11. CASE t = 1
  <2>1. 2 \in 1..Len(ps) /\ ps[2].kind = "text" /\ ps[2].frag = frags + 1
    BY <1>1, <1>3, <1>4, <1>5, <1>11
  <2>2. \A j \in 1..Len(ps) : j # 2 => ps[j].kind # "text"
    BY <1>3, <1>7, <1>9
  <2>3. TextIn(ps) = <<ps[2].frag>>
    BY <1>5, <2>1, <2>2, OneTextIn
  <2> QED BY <1>8, <1>11, <2>1, <2>3
<1> QED BY <1>10, <1>11

LEMMA SmallSets ==
    /\ Cardinality({}) = 0 /\ Cardinality({1}) = 1 /\ Cardinality({2}) = 1 /\ Cardinality({1, 2}) = 2
<1>1. IsFiniteSet({}) /\ Cardinality({}) = 0
  BY FS_EmptySet
<1>2. \A x : Cardinality({x}) = 1 /\ IsFiniteSet({x})
  BY FS_Singleton
<1>3. Cardinality({1} \cup {2}) = Cardinality({1}) + 1
  <2>1. IsFiniteSet({1}) /\ 2 \notin {1}
    BY <1>2
  <2> QED BY <2>1, FS_AddElement
<1>4. Cardinality({1, 2}) = Cardinality({1} \cup {2})
  <2>1. {1} \cup {2} = {1, 2}
    OBVIOUS
  <2> QED BY <2>1
<1>5. Cardinality({1}) = 1 /\ Cardinality({2}) = 1
  BY <1>2
<1>6. Cardinality({1, 2}) = 2
  <2> DEFINE c == Cardinality({1, 2})
  <2> DEFINE b == Cardinality({1} \cup {2})
  <2> DEFINE a == Cardinality({1})
  <2>1. c = b /\ b = a + 1 /\ a = 1
    BY <1>3, <1>4, <1>5
  <2> HIDE DEF a, b, c
  <2>2. c = 2
    BY <2>1
  <2> QED BY <2>2 DEF c
<1> QED BY <1>1, <1>5, <1>6

\* Whether a fragment brings a name and arguments.
Flags(d) == \A i \in 1..Len(d) : d[i].head \in BOOLEAN /\ d[i].args \in BOOLEAN

\* A delta, where n calls were made before it and nn are after it.
Delta(d, n, nn) ==
    /\ IsSeq(d) /\ DOMAIN d = 1..Len(d) /\ Len(d) \in 0..2
    /\ Flags(d) /\ \A i \in 1..Len(d) : d[i].call \in 1..nn
    /\ \A i, j \in 1..Len(d) : i < j => d[i].call < d[j].call
    /\ \A k \in n..(nn - 1) : \E i \in 1..Len(d) : d[i].call = k + 1

LEMMA MakeDelta ==
    ASSUME NEW d, NEW n, NEW nn, IsSeq(d), DOMAIN d = 1..Len(d), Len(d) \in 0..2,
           Flags(d), \A i \in 1..Len(d) : d[i].call \in 1..nn,
           \A i, j \in 1..Len(d) : i < j => d[i].call < d[j].call,
           \A k \in n..(nn - 1) : \E i \in 1..Len(d) : d[i].call = k + 1
    PROVE  Delta(d, n, nn)
BY DEF Delta

\* The calls a delta opens are the next ones.
LEMMA DeltaOpens ==
    ASSUME NEW d \in Pieces, Sensible(d), Len(saidCalls) \in Nat
    PROVE  /\ Cardinality(Opens(d)) \in Nat
           /\ Delta(d, Len(saidCalls), Len(saidCalls) + Cardinality(Opens(d)))
           /\ (\A i \in DOMAIN d : i \in Opens(d)) =>
                /\ Cardinality(Opens(d)) = Len(d)
                /\ \A i \in 1..Len(d) : d[i].call = Len(saidCalls) + i
<1> DEFINE n == Len(saidCalls)
<1> DEFINE c == Cardinality(Opens(d))
<1>0. IsSeq(d) /\ DOMAIN d = 1..Len(d)
  BY PiecesAreSeqs
<1>1. d = <<>> \/ (\E a \in Fragment : d = <<a>>) \/ (\E a, b \in Fragment : d = <<a, b>>)
  BY DEF Pieces
<1>2. \A a \in Fragment : a.call \in Nat /\ a.call >= 1 /\ a.head \in BOOLEAN /\ a.args \in BOOLEAN
  BY BoundsAssumption DEF Fragment
<1>3. \A i, j \in 1..Len(d) : i < j => d[i].call < d[j].call
  BY <1>0 DEF Sensible
<1>4. \A i \in Opens(d) : d[i].call = n + Cardinality({j \in Opens(d) : j =< i})
  BY DEF Sensible
<1>5. Opens(d) = {i \in 1..Len(d) : d[i].call > n}
  BY <1>0 DEF Opens
<1>5a. Flags(d)
  <2>1. CASE d = <<>>
    BY <2>1, Tuples DEF Flags
  <2>2. ASSUME NEW a \in Fragment, d = <<a>> PROVE Flags(d)
    <3>1. Len(d) = 1 /\ d[1] = a
      BY <2>2, Tuples
    <3>2. \A i \in 1..Len(d) : i = 1
      BY <3>1
    <3> QED BY <1>2, <3>1, <3>2 DEF Flags
  <2>3. ASSUME NEW a \in Fragment, NEW b \in Fragment, d = <<a, b>> PROVE Flags(d)
    <3>1. Len(d) = 2 /\ d[1] = a /\ d[2] = b
      BY <2>3, Tuples
    <3>2. \A i \in 1..Len(d) : i = 1 \/ i = 2
      BY <3>1
    <3> QED BY <1>2, <3>1, <3>2 DEF Flags
  <2> QED BY <1>1, <2>1, <2>2, <2>3
<1> HIDE DEF n
<1>6. CASE d = <<>>
  <2>1. Len(d) = 0
    BY <1>6, Tuples
  <2>2. Opens(d) = {} /\ c = 0
    BY <1>5, <2>1, SmallSets
  <2> HIDE DEF c
  <2>3. Delta(d, n, n + c)
    <3>1. n \in Nat /\ Len(d) \in 0..2
      BY <2>1 DEF n
    <3>2. \A k \in n..(n + c - 1) : FALSE
      BY <2>2, <3>1
    <3>3. \A i \in 1..Len(d) : d[i].call \in 1..(n + c)
      BY <2>1
    <3> DEFINE nn == n + c
    <3>8. /\ Len(d) \in 0..2 /\ \A i \in 1..Len(d) : d[i].call \in 1..nn
          /\ \A k \in n..(nn - 1) : \E i \in 1..Len(d) : d[i].call = k + 1
      BY <3>1, <3>2, <3>3, <2>2
    <3> HIDE DEF nn
    <3>9. Delta(d, n, nn)
      BY <1>0, <1>3, <1>5a, <3>8, MakeDelta
    <3> QED BY <3>9 DEF nn
  <2> QED BY <2>1, <2>2, <2>3 DEF n, c
<1>7. ASSUME NEW a \in Fragment, d = <<a>>
      PROVE  /\ c \in Nat /\ Delta(d, n, n + c)
             /\ (\A i \in DOMAIN d : i \in Opens(d)) => c = Len(d) /\ \A i \in 1..Len(d) : d[i].call = n + i
  <2>1. Len(d) = 1 /\ d[1] = a
    BY <1>7, Tuples
  <2>2. \A i \in 1..Len(d) : i = 1
    BY <2>1
  <2>3. n \in Nat
    BY DEF n
  <2>4. CASE d[1].call > n
    <3>1. Opens(d) = {1}
      BY <1>5, <2>1, <2>2, <2>4
    <3>2. {j \in Opens(d) : j =< 1} = {1} /\ 1 \in Opens(d)
      BY <3>1
    <3>3. c = 1 /\ d[1].call = n + 1
      <4>1. d[1].call = n + Cardinality({j \in Opens(d) : j =< 1})
        BY <1>4, <3>2
      <4> QED BY <3>1, <3>2, <4>1, SmallSets
    <3> HIDE DEF c
    <3>4. \A k \in n..(n + 1 - 1) : k = n
      BY <2>3
    <3>5. Delta(d, n, n + c)
      <4>1. /\ \A i \in 1..Len(d) : d[i].call \in 1..(n + c)
            /\ Len(d) \in 0..2
        BY <2>1, <2>2, <2>3, <3>3
      <4>2. \A k \in n..(n + c - 1) : \E i \in 1..Len(d) : d[i].call = k + 1
        BY <2>1, <3>3, <3>4
      <4> DEFINE nn == n + c
      <4>8. /\ Len(d) \in 0..2 /\ \A i \in 1..Len(d) : d[i].call \in 1..nn
            /\ \A k \in n..(nn - 1) : \E i \in 1..Len(d) : d[i].call = k + 1
        BY <4>1, <4>2, <3>3, <2>3
      <4> HIDE DEF nn
      <4>9. Delta(d, n, nn)
        BY <1>0, <1>3, <1>5a, <4>8, MakeDelta
      <4> QED BY <4>9 DEF nn
    <3> QED BY <2>1, <2>2, <3>3, <3>5
  <2>5. CASE ~(d[1].call > n)
    <3>1. Opens(d) = {}
      BY <1>5, <2>1, <2>2, <2>5
    <3>2. c = 0
      BY <3>1, SmallSets
    <3> HIDE DEF c
    <3>3. Delta(d, n, n + c)
      <4>1. d[1].call \in 1..n
        BY <1>2, <2>1, <2>3, <2>5
      <4>2. /\ \A i \in 1..Len(d) : d[i].call \in 1..(n + c)
            /\ Len(d) \in 0..2
        BY <2>1, <2>2, <2>3, <3>2, <4>1
      <4>3. \A k \in n..(n + c - 1) : FALSE
        BY <2>3, <3>2
      <4> DEFINE nn == n + c
      <4>8. /\ Len(d) \in 0..2 /\ \A i \in 1..Len(d) : d[i].call \in 1..nn
            /\ \A k \in n..(nn - 1) : \E i \in 1..Len(d) : d[i].call = k + 1
        BY <4>2, <4>3, <3>2, <2>3
      <4> HIDE DEF nn
      <4>9. Delta(d, n, nn)
        BY <1>0, <1>3, <1>5a, <4>8, MakeDelta
      <4> QED BY <4>9 DEF nn
    <3>4. 1 \in DOMAIN d /\ 1 \notin Opens(d)
      BY <1>0, <2>1, <3>1
    <3> QED BY <3>2, <3>3, <3>4
  <2> QED BY <2>4, <2>5
<1>8. ASSUME NEW a \in Fragment, NEW b \in Fragment, d = <<a, b>>
      PROVE  /\ c \in Nat /\ Delta(d, n, n + c)
             /\ (\A i \in DOMAIN d : i \in Opens(d)) => c = Len(d) /\ \A i \in 1..Len(d) : d[i].call = n + i
  <2>1. Len(d) = 2 /\ d[1] = a /\ d[2] = b
    BY <1>8, Tuples
  <2>2. \A i \in 1..Len(d) : i = 1 \/ i = 2
    BY <2>1
  <2>3. n \in Nat /\ 1 \in 1..Len(d) /\ 2 \in 1..Len(d)
    BY <2>1 DEF n
  <2>4. d[1].call \in Nat /\ d[2].call \in Nat /\ d[1].call < d[2].call /\ d[1].call >= 1
    BY <1>2, <1>3, <2>1, <2>3
  <2>6. CASE d[1].call > n
    <3>1. Opens(d) = {1, 2}
      BY <1>5, <2>2, <2>3, <2>4, <2>6
    <3>2. /\ {j \in Opens(d) : j =< 1} = {1} /\ {j \in Opens(d) : j =< 2} = {1, 2}
          /\ 1 \in Opens(d) /\ 2 \in Opens(d)
      BY <3>1
    <3>3. c = 2 /\ d[1].call = n + 1 /\ d[2].call = n + 2
      <4>1. d[1].call = n + Cardinality({j \in Opens(d) : j =< 1})
        BY <1>4, <3>2
      <4>2. d[2].call = n + Cardinality({j \in Opens(d) : j =< 2})
        BY <1>4, <3>2
      <4> QED BY <3>1, <3>2, <4>1, <4>2, SmallSets
    <3> HIDE DEF c
    <3>4. Delta(d, n, n + c)
      <4>1. \A i \in 1..Len(d) : d[i].call \in 1..(n + c)
        BY <2>2, <2>3, <3>3
      <4>2. \A k \in n..(n + c - 1) : k = n \/ k = n + 1
        BY <2>3, <3>3
      <4>3. d[1].call = n + 1 /\ d[2].call = (n + 1) + 1
        BY <2>3, <3>3
      <4>4. \A k \in n..(n + c - 1) : \E i \in 1..Len(d) : d[i].call = k + 1
        BY <2>3, <4>2, <4>3
      <4>5. Len(d) \in 0..2
        BY <2>1
      <4> DEFINE nn == n + c
      <4>8. /\ Len(d) \in 0..2 /\ \A i \in 1..Len(d) : d[i].call \in 1..nn
            /\ \A k \in n..(nn - 1) : \E i \in 1..Len(d) : d[i].call = k + 1
        BY <4>1, <4>4, <4>5, <3>3, <2>3
      <4> HIDE DEF nn
      <4>9. Delta(d, n, nn)
        BY <1>0, <1>3, <1>5a, <4>8, MakeDelta
      <4> QED BY <4>9 DEF nn
    <3> QED BY <2>1, <2>2, <3>3, <3>4
  <2>7. CASE ~(d[1].call > n) /\ d[2].call > n
    <3>1. Opens(d) = {2}
      BY <1>5, <2>2, <2>3, <2>7
    <3>2. {j \in Opens(d) : j =< 2} = {2} /\ 2 \in Opens(d)
      BY <3>1
    <3>3. c = 1 /\ d[2].call = n + 1
      <4>1. d[2].call = n + Cardinality({j \in Opens(d) : j =< 2})
        BY <1>4, <3>2
      <4> QED BY <3>1, <3>2, <4>1, SmallSets
    <3> HIDE DEF c
    <3>4. Delta(d, n, n + c)
      <4>1. \A i \in 1..Len(d) : d[i].call \in 1..(n + c)
        BY <2>2, <2>3, <2>4, <3>3
      <4>2. \A k \in n..(n + c - 1) : k = n
        BY <2>3, <3>3
      <4>4. \A k \in n..(n + c - 1) : \E i \in 1..Len(d) : d[i].call = k + 1
        BY <2>3, <3>3, <4>2
      <4>5. Len(d) \in 0..2
        BY <2>1
      <4> DEFINE nn == n + c
      <4>8. /\ Len(d) \in 0..2 /\ \A i \in 1..Len(d) : d[i].call \in 1..nn
            /\ \A k \in n..(nn - 1) : \E i \in 1..Len(d) : d[i].call = k + 1
        BY <4>1, <4>4, <4>5, <3>3, <2>3
      <4> HIDE DEF nn
      <4>9. Delta(d, n, nn)
        BY <1>0, <1>3, <1>5a, <4>8, MakeDelta
      <4> QED BY <4>9 DEF nn
    <3>5. 1 \in DOMAIN d /\ 1 \notin Opens(d)
      BY <1>0, <2>3, <3>1
    <3> QED BY <3>3, <3>4, <3>5
  <2>8. CASE ~(d[1].call > n) /\ ~(d[2].call > n)
    <3>1. Opens(d) = {}
      BY <1>5, <2>2, <2>8
    <3>2. c = 0
      BY <3>1, SmallSets
    <3> HIDE DEF c
    <3>3. Delta(d, n, n + c)
      <4>1. Len(d) \in 0..2
        BY <2>1
      <4>2. \A i \in 1..Len(d) : d[i].call \in 1..(n + c)
        BY <2>2, <2>3, <2>4, <2>8, <3>2
      <4>3. \A k \in n..(n + c - 1) : FALSE
        BY <2>3, <3>2
      <4> DEFINE nn == n + c
      <4>8. /\ Len(d) \in 0..2 /\ \A i \in 1..Len(d) : d[i].call \in 1..nn
            /\ \A k \in n..(nn - 1) : \E i \in 1..Len(d) : d[i].call = k + 1
        BY <4>1, <4>2, <4>3, <3>2, <2>3
      <4> HIDE DEF nn
      <4>9. Delta(d, n, nn)
        BY <1>0, <1>3, <1>5a, <4>8, MakeDelta
      <4> QED BY <4>9 DEF nn
    <3>4. 1 \in DOMAIN d /\ 1 \notin Opens(d)
      BY <1>0, <2>3, <3>1
    <3> QED BY <3>2, <3>3, <3>4
  <2> QED BY <2>6, <2>7, <2>8
<1> QED BY <1>1, <1>6, <1>7, <1>8 DEF n

\* Arguments have a number, and only they.
LEMMA NumberSays ==
    ASSUME NEW d, IsSeq(d), frags \in Nat, NEW t \in {0, 1}, NEW i \in 1..Len(d), d[i].args \in BOOLEAN
    PROVE  Number(t, d, i) # Nothing <=> d[i].args
<1> DEFINE S == {j \in 1..i : d[j].args}
<1>1. CASE d[i].args
  <2>0. i \in Nat /\ i \in 1..i
    BY DEF IsSeq
  <2>1. IsFiniteSet(1..i)
    BY <2>0, FS_Interval
  <2>2. S \subseteq 1..i
    OBVIOUS
  <2>3. IsFiniteSet(S) /\ S # {}
    BY <1>1, <2>0, <2>1, <2>2, FS_Subset
  <2>4. Cardinality(S) \in Nat /\ Cardinality(S) # 0
    BY <2>3, FS_CardinalityType, FS_EmptySet
  <2>5. Number(t, d, i) = frags + t + Cardinality(S)
    BY <1>1 DEF Number
  <2> HIDE DEF S
  <2> QED BY <1>1, <2>4, <2>5 DEF Nothing
<1>2. CASE ~d[i].args
  BY <1>2 DEF Number
<1> QED BY <1>1, <1>2

\* What a delta adds to the calls.
SaidMore(t, d) ==
    /\ frags' \in Nat /\ IsSeq(saidText')
    /\ saidText' = saidText \o (IF t = 0 THEN <<>> ELSE <<frags + 1>>)
    /\ IsSeq(saidCalls') /\ Len(saidCalls') >= Len(saidCalls)
    /\ Len(saidCalls') = Len(saidCalls) + Cardinality(Opens(d))
    /\ Delta(d, Len(saidCalls), Len(saidCalls'))
    /\ \A k \in 0..(Len(saidCalls') - 1) :
         /\ IsSaid(saidCalls'[k + 1])
         /\ \A i \in 1..Len(d) : d[i].call = k + 1 =>
              /\ saidCalls'[k + 1].args = OldArgs(k) \o Bringing(Number(t, d, i))
              /\ saidCalls'[k + 1].head <=> OldHead(k) \/ d[i].head
         /\ (\A i \in 1..Len(d) : d[i].call # k + 1) =>
              /\ saidCalls'[k + 1].args = OldArgs(k)
              /\ saidCalls'[k + 1].head <=> OldHead(k)

LEMMA SaySays ==
    ASSUME SaidOK, NEW t \in {0, 1}, NEW d \in Pieces, Sensible(d), Say(t, d)
    PROVE  SaidMore(t, d)
<1> DEFINE n == Len(saidCalls)
<1> DEFINE c == Cardinality(Opens(d))
<1>0. n \in Nat /\ IsSeq(saidCalls) /\ \A k \in 0..(n - 1) : IsSaid(saidCalls[k + 1])
  BY DEF SaidOK, CallsSaid, IsSeq
<1>1. c \in Nat /\ Delta(d, n, n + c)
  BY <1>0, DeltaOpens
<1>2. frags \in Nat /\ IsSeq(saidText)
  BY DEF SaidOK, TextSaid
<1>3. IsSeq(d) /\ DOMAIN d = 1..Len(d) /\ Len(d) \in Nat
  BY <1>1 DEF Delta
<1>4. frags' \in Nat
  <2>1. IsFiniteSet(1..Len(d))
    BY <1>3, FS_Interval
  <2>2. {i \in DOMAIN d : d[i].args} \subseteq 1..Len(d)
    BY <1>3
  <2>3. Cardinality({i \in DOMAIN d : d[i].args}) \in Nat
    BY <2>1, <2>2, FS_Subset, FS_CardinalityType
  <2>4. frags' = frags + t + Cardinality({i \in DOMAIN d : d[i].args})
    BY DEF Say
  <2> QED BY <1>2, <2>3, <2>4
<1>5. IsSeq(saidText') /\ saidText' = saidText \o (IF t = 0 THEN <<>> ELSE <<frags + 1>>)
  <2>1. CASE t = 0
    BY <1>2, <2>1, JoinedNone DEF Say
  <2>2. CASE t # 0
    BY <1>2, <2>2, Appended DEF Say
  <2> QED BY <2>1, <2>2
<1> DEFINE old(k) == IF k =< n THEN saidCalls[k] ELSE [head |-> FALSE, args |-> <<>>]
<1> DEFINE at(k) == {i \in DOMAIN d : d[i].call = k}
<1> DEFINE now(k) == [head |-> old(k).head \/ \E i \in at(k) : d[i].head,
                      args |-> IF \E i \in at(k) : d[i].args
                               THEN Append(old(k).args, Number(t, d, CHOOSE i \in at(k) : TRUE))
                               ELSE old(k).args]
<1>6. saidCalls' = [k \in 1..(n + c) |-> now(k)]
  BY DEF Say
<1>7. IsSeq(saidCalls') /\ Len(saidCalls') = n + c
  <2>1. saidCalls' = [k \in 1..(n + c) |-> saidCalls'[k]]
    <3> HIDE DEF now
    <3> QED BY <1>6
  <2> QED BY <1>0, <1>1, <2>1, MappedIsSeq
<1>8. \A k \in 1..(n + c) : saidCalls'[k] = now(k)
  <2> HIDE DEF now
  <2> QED BY <1>6
<1>9. ASSUME NEW k \in 0..(n + c - 1)
      PROVE  /\ IsSaid(saidCalls'[k + 1])
             /\ \A i \in 1..Len(d) : d[i].call = k + 1 =>
                  /\ saidCalls'[k + 1].args = OldArgs(k) \o Bringing(Number(t, d, i))
                  /\ saidCalls'[k + 1].head <=> OldHead(k) \/ d[i].head
             /\ (\A i \in 1..Len(d) : d[i].call # k + 1) =>
                  /\ saidCalls'[k + 1].args = OldArgs(k)
                  /\ saidCalls'[k + 1].head <=> OldHead(k)
  <2>1. k + 1 \in 1..(n + c) /\ k \in Nat
    BY <1>0, <1>1
  <2>2. saidCalls'[k + 1] = now(k + 1)
    BY <1>8, <2>1
  <2>3. /\ old(k + 1).head \in BOOLEAN /\ IsSeq(old(k + 1).args)
        /\ old(k + 1).args = OldArgs(k) /\ (old(k + 1).head <=> OldHead(k))
    <3>1. CASE k < n
      <4>1. k + 1 =< n /\ k \in 0..(n - 1)
        BY <1>0, <2>1, <3>1
      <4>2. IsSaid(saidCalls[k + 1])
        BY <1>0, <4>1
      <4> QED BY <3>1, <4>1, <4>2 DEF OldArgs, OldHead, IsSaid
    <3>2. CASE ~(k < n)
      <4>1. ~(k + 1 =< n)
        BY <1>0, <2>1, <3>2
      <4> QED BY <3>2, <4>1, Tuples DEF OldArgs, OldHead
    <3> QED BY <3>1, <3>2
  <2> DEFINE o == old(k + 1)
  <2> DEFINE z == at(k + 1)
  <2>4. now(k + 1) = [head |-> o.head \/ \E i \in z : d[i].head,
                      args |-> IF \E i \in z : d[i].args
                               THEN Append(o.args, Number(t, d, CHOOSE i \in z : TRUE))
                               ELSE o.args]
    OBVIOUS
  <2>5. \A i \in z : i \in 1..Len(d) /\ d[i].call = k + 1
    BY <1>3
  <2>6. \A i \in 1..Len(d) : d[i].call = k + 1 => i \in z
    BY <1>3
  <2>7. o.head \in BOOLEAN /\ IsSeq(o.args) /\ o.args = OldArgs(k) /\ (o.head <=> OldHead(k))
    BY <2>3
  <2> HIDE DEF now, old, o, at, z
  <2>8. ASSUME NEW i \in 1..Len(d), d[i].call = k + 1
        PROVE  /\ IsSaid(saidCalls'[k + 1])
               /\ saidCalls'[k + 1].args = OldArgs(k) \o Bringing(Number(t, d, i))
               /\ saidCalls'[k + 1].head <=> OldHead(k) \/ d[i].head
    <3>1. ASSUME NEW j \in z PROVE j = i
      <4>1. j \in 1..Len(d) /\ d[j].call = k + 1
        BY <2>5
      <4>2. ~(i < j) /\ ~(j < i)
        BY <1>1, <2>1, <2>8, <4>1 DEF Delta
      <4> QED BY <1>3, <4>1, <4>2
    <3>2. z = {i} /\ (CHOOSE x \in z : TRUE) = i
      BY <2>6, <2>8, <3>1
    <3>3. now(k + 1) = [head |-> o.head \/ d[i].head,
                        args |-> IF d[i].args THEN Append(o.args, Number(t, d, i)) ELSE o.args]
      BY <2>4, <3>2
    <3>4. d[i].head \in BOOLEAN /\ d[i].args \in BOOLEAN
      BY <1>1 DEF Delta, Flags
    <3>5. Number(t, d, i) # Nothing <=> d[i].args
      BY <1>2, <1>3, <3>4, NumberSays
    <3> DEFINE g == IF d[i].args THEN Append(o.args, Number(t, d, i)) ELSE o.args
    <3>6. IsSeq(g) /\ g = o.args \o Bringing(Number(t, d, i))
      <4>1. CASE d[i].args
        BY <2>7, <3>5, <4>1, Appended DEF Bringing
      <4>2. CASE ~d[i].args
        BY <2>7, <3>5, <4>2, JoinedNone DEF Bringing
      <4> QED BY <4>1, <4>2
    <3>7. saidCalls'[k + 1] = [head |-> o.head \/ d[i].head, args |-> g]
      BY <2>2, <3>3
    <3> HIDE DEF g
    <3>8. saidCalls'[k + 1].args = g /\ (saidCalls'[k + 1].head <=> o.head \/ d[i].head)
          /\ saidCalls'[k + 1].head \in BOOLEAN
      BY <3>4, <3>7, <2>7
    <3>9. IsSaid(saidCalls'[k + 1])
      BY <3>6, <3>7, <3>8 DEF IsSaid
    <3>10. saidCalls'[k + 1].args = OldArgs(k) \o Bringing(Number(t, d, i))
      BY <2>7, <3>6, <3>8
    <3>11. saidCalls'[k + 1].head <=> OldHead(k) \/ d[i].head
      BY <2>7, <3>8, Zenon
    <3> QED BY <3>9, <3>10, <3>11
  <2>9. ASSUME \A i \in 1..Len(d) : d[i].call # k + 1
        PROVE  /\ IsSaid(saidCalls'[k + 1])
               /\ saidCalls'[k + 1].args = OldArgs(k)
               /\ saidCalls'[k + 1].head <=> OldHead(k)
    <3>1. z = {}
      BY <2>5, <2>9
    <3>2. now(k + 1) = [head |-> o.head, args |-> o.args]
      BY <2>4, <2>7, <3>1
    <3> QED BY <2>2, <2>7, <3>2 DEF IsSaid
  <2> QED BY <2>8, <2>9, Zenon
<1>10. Len(saidCalls') >= n /\ Delta(d, n, Len(saidCalls'))
  BY <1>0, <1>1, <1>7
<1>11. \A k \in 0..(Len(saidCalls') - 1) :
         /\ IsSaid(saidCalls'[k + 1])
         /\ \A i \in 1..Len(d) : d[i].call = k + 1 =>
              /\ saidCalls'[k + 1].args = OldArgs(k) \o Bringing(Number(t, d, i))
              /\ saidCalls'[k + 1].head <=> OldHead(k) \/ d[i].head
         /\ (\A i \in 1..Len(d) : d[i].call # k + 1) =>
              /\ saidCalls'[k + 1].args = OldArgs(k)
              /\ saidCalls'[k + 1].head <=> OldHead(k)
  <2>0. n \in Nat /\ c \in Nat
    BY <1>0, <1>1
  <2> HIDE DEF n, c, now, old, at
  <2>1. 0..(Len(saidCalls') - 1) = 0..(n + c - 1)
    BY <1>7, <2>0
  <2> QED BY <1>9, <2>1, Zenon
<1> QED BY <1>4, <1>5, <1>7, <1>10, <1>11, Zenon DEF SaidMore

\* The pieces a delta becomes, when each is recognised as a fragment of its call.
LEMMA ChunkSpoken ==
    ASSUME SaidOK, NEW t \in {0, 1}, NEW d, SaidMore(t, d), NEW f,
           IsSeq(f), Len(f) = Len(d),
           \A i \in 1..Len(f) : /\ f[i].kind = "tool" /\ CallOf(f[i]) = d[i].call - 1
                                /\ f[i].head = Brings(d[i]) /\ f[i].frag = Number(t, d, i),
           pending' = <<Begin>> \o TextPieces(t) \o f
    PROVE  Spoken
<1> DEFINE n == Len(saidCalls)
<1> DEFINE nn == Len(saidCalls')
<1> DEFINE ps == pending'
<1>0. /\ Delta(d, n, nn) /\ nn >= n /\ IsSeq(saidCalls') /\ IsSeq(saidText') /\ frags' \in Nat
      /\ saidText' = saidText \o (IF t = 0 THEN <<>> ELSE <<frags + 1>>)
  BY DEF SaidMore
<1>1. n \in Nat /\ nn \in Nat /\ IsSeq(saidCalls)
  BY <1>0 DEF SaidOK, CallsSaid, IsSeq
<1>2. /\ \A i \in 1..Len(d) : d[i].call \in 1..nn /\ d[i].head \in BOOLEAN
      /\ \A i, j \in 1..Len(d) : i < j => d[i].call < d[j].call
      /\ \A k \in n..(nn - 1) : \E i \in 1..Len(d) : d[i].call = k + 1
  BY <1>0 DEF Delta, Flags
<1>3. Shifted(ps, f, 1 + t) /\ TextIn(ps) = IF t = 0 THEN <<>> ELSE <<frags + 1>>
  BY ChunkShape
<1>4. Fragments(f, n, nn)
  <2>1. \A i \in 1..Len(f) : CallOf(f[i]) \in 0..(nn - 1) /\ f[i].head \in {Nothing, CallOf(f[i]) + 1}
    <3> TAKE i \in 1..Len(f)
    <3>1. CallOf(f[i]) = d[i].call - 1 /\ f[i].head = Brings(d[i]) /\ d[i].call \in 1..nn
      BY <1>2
    <3>2. CallOf(f[i]) + 1 = d[i].call
      BY <1>1, <3>1
    <3> QED BY <1>1, <3>1, <3>2 DEF Brings
  <2>2. \A i, j \in 1..Len(f) : i < j => CallOf(f[i]) < CallOf(f[j])
    <3> TAKE i, j \in 1..Len(f)
    <3> HAVE i < j
    <3>1. d[i].call < d[j].call /\ d[i].call \in 1..nn /\ d[j].call \in 1..nn
      BY <1>2
    <3> QED BY <1>1, <3>1, SMTT(60)
  <2>3. \A k \in n..(nn - 1) : \E i \in 1..Len(f) : CallOf(f[i]) = k
    <3> TAKE k \in n..(nn - 1)
    <3>1. PICK i \in 1..Len(d) : d[i].call = k + 1
      BY <1>2
    <3>2. CallOf(f[i]) = k
      BY <1>1, <3>1
    <3> QED BY <3>2
  <2> QED BY <2>1, <2>2, <2>3 DEF Fragments
<1> HIDE DEF ps
<1>5. /\ Arriving(ps, n, nn)
      /\ \A k : /\ \A i \in 1..Len(f) : CallOf(f[i]) = k =>
                      /\ ArgsIn(ps, k) = Bringing(f[i].frag)
                      /\ Named(ps, k) <=> f[i].head # Nothing
                /\ (\A i \in 1..Len(f) : CallOf(f[i]) # k) => ArgsIn(ps, k) = <<>> /\ ~Named(ps, k)
  BY <1>1, <1>3, <1>4, ShiftedArrives
<1>6. ASSUME NEW k \in 0..(nn - 1)
      PROVE  /\ IsSaid(saidCalls'[k + 1])
             /\ saidCalls'[k + 1].args = OldArgs(k) \o ArgsIn(ps, k)
             /\ saidCalls'[k + 1].head <=> OldHead(k) \/ Named(ps, k)
  <2>1. /\ IsSaid(saidCalls'[k + 1])
        /\ \A i \in 1..Len(d) : d[i].call = k + 1 =>
             /\ saidCalls'[k + 1].args = OldArgs(k) \o Bringing(Number(t, d, i))
             /\ saidCalls'[k + 1].head <=> OldHead(k) \/ d[i].head
        /\ (\A i \in 1..Len(d) : d[i].call # k + 1) =>
             /\ saidCalls'[k + 1].args = OldArgs(k)
             /\ saidCalls'[k + 1].head <=> OldHead(k)
    BY DEF SaidMore
  <2>2. CASE \E i \in 1..Len(d) : d[i].call = k + 1
    <3>1. PICK i \in 1..Len(d) : d[i].call = k + 1
      BY <2>2
    <3>2. CallOf(f[i]) = k /\ f[i].frag = Number(t, d, i) /\ f[i].head = Brings(d[i]) /\ i \in 1..Len(f)
      BY <1>1, <3>1
    <3>3. ArgsIn(ps, k) = Bringing(f[i].frag) /\ (Named(ps, k) <=> f[i].head # Nothing)
      BY <1>5, <3>2
    <3>4. d[i].call \in 1..nn /\ d[i].head \in BOOLEAN
      BY <1>2
    <3>5. f[i].head # Nothing <=> d[i].head
      BY <1>1, <3>2, <3>4 DEF Brings, Nothing
    <3> QED BY <2>1, <3>1, <3>2, <3>3, <3>5
  <2>3. CASE \A i \in 1..Len(d) : d[i].call # k + 1
    <3>1. \A i \in 1..Len(f) : CallOf(f[i]) # k
      <4> TAKE i \in 1..Len(f)
      <4>1. d[i].call \in 1..nn /\ d[i].call # k + 1 /\ CallOf(f[i]) = d[i].call - 1
        BY <1>2, <2>3
      <4> QED BY <1>1, <4>1
    <3>2. ArgsIn(ps, k) = <<>> /\ ~Named(ps, k)
      BY <1>5, <3>1
    <3>3. IsSeq(OldArgs(k))
      BY <2>1, <2>3 DEF IsSaid
    <3>4. OldArgs(k) \o <<>> = OldArgs(k)
      BY <3>3, JoinedNone
    <3> QED BY <2>1, <2>3, <3>2, <3>4
  <2> QED BY <2>2, <2>3
<1> QED BY <1>0, <1>3, <1>5, <1>6 DEF Spoken, ps

(***************************************************************************)
(* The decoders number the calls in the order the provider makes them.     *)
(***************************************************************************)

\* The blocks of an Anthropic answer that are calls.
Count(s) == Cardinality({b \in DOMAIN s : s[b] # NoCall})

\* The decoders' own counts are those of the calls.
DecoderOK ==
    /\ IsSeq(toolIndex)
    /\ adapter = "google" => calls = Len(saidCalls)
    /\ adapter = "anthropic" =>
         /\ Count(toolIndex) = Len(saidCalls)
         /\ toolIndex # <<>> => toolIndex[Len(toolIndex)] \in {NoCall, Len(saidCalls) - 1}
    /\ phase = "dialling" => ~sent /\ calls = 0 /\ toolIndex = <<>>

LEMMA CountOneMore ==
    ASSUME NEW s, IsSeq(s), NEW x
    PROVE  /\ Count(s) \in Nat
           /\ Count(Append(s, x)) = IF x = NoCall THEN Count(s) ELSE Count(s) + 1
<1> DEFINE S == {b \in DOMAIN s : s[b] # NoCall}
<1> DEFINE t == Append(s, x)
<1> DEFINE T == {b \in DOMAIN t : t[b] # NoCall}
<1>1. Len(s) \in Nat /\ DOMAIN s = 1..Len(s)
  BY DEF IsSeq
<1>2. /\ IsSeq(t) /\ Len(t) = Len(s) + 1 /\ t[Len(s) + 1] = x /\ \A i \in 1..Len(s) : t[i] = s[i]
  BY Appended, ZenonT(60)
<1> HIDE DEF t
<1>3. DOMAIN t = 1..(Len(s) + 1)
  BY <1>2 DEF IsSeq
<1>4. IsFiniteSet(S)
  <2>1. IsFiniteSet(1..Len(s)) /\ S \subseteq 1..Len(s)
    BY <1>1, FS_Interval
  <2> QED BY <2>1, FS_Subset
<1>5. Cardinality(S) \in Nat
  BY <1>4, FS_CardinalityType
<1>6. CASE x = NoCall
  <2>1. T = S
    <3>1. \A b \in 1..(Len(s) + 1) : b \in 1..Len(s) \/ b = Len(s) + 1
      BY <1>1
    <3>2. \A b \in 1..Len(s) : b \in 1..(Len(s) + 1)
      BY <1>1
    <3> QED BY <1>1, <1>2, <1>3, <1>6, <3>1, <3>2
  <2> QED BY <1>5, <1>6, <2>1 DEF Count, t
<1>7. CASE x # NoCall
  <2>1. T = S \cup {Len(s) + 1}
    <3>1. \A b \in 1..(Len(s) + 1) : b \in 1..Len(s) \/ b = Len(s) + 1
      BY <1>1
    <3>2. (\A b \in 1..Len(s) : b \in 1..(Len(s) + 1)) /\ Len(s) + 1 \in 1..(Len(s) + 1)
      BY <1>1
    <3> QED BY <1>1, <1>2, <1>3, <1>7, <3>1, <3>2
  <2>2. Len(s) + 1 \notin S
    BY <1>1
  <2> HIDE DEF S, T
  <2>3. Cardinality(T) = Cardinality(S) + 1
    BY <1>4, <2>1, <2>2, FS_AddElement
  <2> QED BY <1>5, <1>7, <2>3 DEF Count, t, S, T
<1> QED BY <1>6, <1>7

\* What emitDelta relays.
LEMMA EmittedShape ==
    ASSUME NEW p, EmitDelta(p)
    PROVE  /\ p.kind = "tool" => \E m \in Nat : Shifted(pending', <<p>>, m) /\ TextIn(pending') = <<>>
           /\ p.kind = "text" => \E m \in Nat : Shifted(pending', <<>>, m) /\ TextIn(pending') = <<p.frag>>
<1> DEFINE ps == pending'
<1>0. Begin.kind = "begin"
  BY DEF Begin
<1>1. \E m \in {1, 2} : IsSeq(ps) /\ Len(ps) = m + 1 /\ ps[m + 1] = p /\ \A i \in 1..m : ps[i] = Begin
  <2>1. CASE first
    <3>1. ps = <<Begin>> \o <<Begin, p>>
      BY <2>1 DEF EmitDelta
    <3> DEFINE a == <<Begin>>
    <3> DEFINE b == <<Begin, p>>
    <3>2. IsSeq(a) /\ Len(a) = 1 /\ a[1] = Begin /\ IsSeq(b) /\ Len(b) = 2 /\ b[1] = Begin /\ b[2] = p
      BY Tuples
    <3> HIDE DEF a, b
    <3>3. IsSeq(a) /\ IsSeq(b)
      BY <3>2
    <3>4. /\ IsSeq(a \o b) /\ Len(a \o b) = Len(a) + Len(b) /\ (\A i \in 1..Len(a) : (a \o b)[i] = a[i])
          /\ \A i \in 1..Len(b) : (a \o b)[Len(a) + i] = b[i]
      BY <3>3, Joined
    <3> DEFINE q == a \o b
    <3>5. IsSeq(q) /\ Len(q) = 3 /\ q[1] = Begin /\ q[2] = Begin /\ q[3] = p
      <4>1. Len(q) = 3 /\ IsSeq(q)
        BY <3>2, <3>4
      <4>2. 1 \in 1..Len(a) /\ 1 \in 1..Len(b) /\ 2 \in 1..Len(b) /\ Len(a) + 1 = 2 /\ Len(a) + 2 = 3
        BY <3>2
      <4> QED BY <3>2, <3>4, <4>1, <4>2
    <3>6. ps = q
      BY <3>1 DEF a, b
    <3> HIDE DEF q, ps
    <3>7. \A i \in 1..2 : i = 1 \/ i = 2
      OBVIOUS
    <3> QED BY <3>5, <3>6, <3>7
  <2>2. CASE ~first
    <3>1. ps = <<>> \o <<Begin, p>>
      BY <2>2 DEF EmitDelta
    <3>2. ps = <<Begin, p>>
      BY <3>1, Tuples, JoinedNone
    <3>3. IsSeq(ps) /\ Len(ps) = 2 /\ ps[1] = Begin /\ ps[2] = p
      BY <3>2, Tuples
    <3>4. \A i \in 1..1 : i = 1
      OBVIOUS
    <3> QED BY <3>3, <3>4
  <2> QED BY <2>1, <2>2
<1> HIDE DEF ps
<1>2. PICK m \in {1, 2} : IsSeq(ps) /\ Len(ps) = m + 1 /\ ps[m + 1] = p /\ \A i \in 1..m : ps[i] = Begin
  BY <1>1
<1>3. m \in Nat /\ m + 1 \in 1..Len(ps) /\ \A i \in 1..Len(ps) : i # m + 1 => ps[i] = Begin
  <2>1. \A i \in 1..(m + 1) : i # m + 1 => i \in 1..m
    OBVIOUS
  <2> QED BY <1>2, <2>1
<1>4. ASSUME p.kind = "tool" PROVE Shifted(ps, <<p>>, m) /\ TextIn(ps) = <<>>
  <2> DEFINE f == <<p>>
  <2>1. IsSeq(f) /\ Len(f) = 1 /\ f[1] = p
    BY Tuples
  <2> HIDE DEF f
  <2>2. \A i \in 1..Len(f) : i = 1
    BY <2>1
  <2>3. \A i \in 1..Len(f) : ps[m + i] = f[i] /\ f[i].kind = "tool"
    BY <1>2, <1>4, <2>1, <2>2
  <2>4. \A i \in 1..m : ps[i].kind # "tool"
    BY <1>0, <1>2
  <2>5. Shifted(ps, f, m)
    BY <1>2, <1>3, <2>1, <2>3, <2>4 DEF Shifted
  <2>6. \A i \in 1..Len(ps) : ps[i].kind # "text"
    BY <1>0, <1>2, <1>3, <1>4
  <2>7. TextIn(ps) = <<>>
    BY <1>2, <2>6, NoTextIn
  <2> QED BY <2>5, <2>7 DEF f
<1>5. ASSUME p.kind = "text" PROVE Shifted(ps, <<>>, m + 1) /\ TextIn(ps) = <<p.frag>>
  <2> DEFINE f == <<>>
  <2>1. IsSeq(f) /\ Len(f) = 0
    BY Tuples
  <2> HIDE DEF f
  <2>2. \A i \in 1..(m + 1) : ps[i].kind # "tool"
    BY <1>0, <1>2, <1>3, <1>5
  <2>3. Shifted(ps, f, m + 1)
    BY <1>2, <1>3, <2>1, <2>2 DEF Shifted
  <2>4. m + 1 \in 1..Len(ps) /\ ps[m + 1].kind = "text" /\ \A i \in 1..Len(ps) : i # m + 1 => ps[i].kind # "text"
    BY <1>0, <1>2, <1>3, <1>5
  <2>5. TextIn(ps) = <<ps[m + 1].frag>>
    BY <1>2, <2>4, OneTextIn
  <2> QED BY <1>2, <2>3, <2>5 DEF f
<1>6. m + 1 \in Nat
  BY <1>3
<1> QED BY <1>3, <1>4, <1>5, <1>6 DEF ps

\* A chunk that brings nothing of a call.
LEMMA CallsUnspoken ==
    ASSUME SaidOK, UNCHANGED saidCalls, NEW m \in Nat, Shifted(pending', <<>>, m),
           frags' \in Nat, IsSeq(saidText'), saidText' = saidText \o TextIn(pending')
    PROVE  Spoken
<1> DEFINE n == Len(saidCalls)
<1> DEFINE f == <<>>
<1> DEFINE ps == pending'
<1>0. n \in Nat /\ IsSeq(saidCalls) /\ \A k \in 0..(n - 1) : IsSaid(saidCalls[k + 1])
  BY DEF SaidOK, CallsSaid, IsSeq
<1>1. Len(f) = 0 /\ Shifted(ps, f, m)
  BY Tuples
<1> HIDE DEF f, ps
<1>2. Fragments(f, n, n)
  <2>1. \A k \in n..(n - 1) : FALSE
    BY <1>0
  <2> QED BY <1>1, <2>1 DEF Fragments
<1>3. Arriving(ps, n, n) /\ \A k : (\A i \in 1..Len(f) : CallOf(f[i]) # k) => ArgsIn(ps, k) = <<>> /\ ~Named(ps, k)
  BY <1>0, <1>1, <1>2, ShiftedArrives
<1>4. \A k : ArgsIn(ps, k) = <<>> /\ ~Named(ps, k)
  BY <1>1, <1>3
<1>5. ASSUME NEW k \in 0..(n - 1)
      PROVE  /\ IsSaid(saidCalls[k + 1])
             /\ saidCalls[k + 1].args = OldArgs(k) \o ArgsIn(ps, k)
             /\ saidCalls[k + 1].head <=> OldHead(k) \/ Named(ps, k)
  <2>1. IsSaid(saidCalls[k + 1])
    BY <1>0
  <2>2. k < n
    BY <1>0
  <2>3. OldArgs(k) = saidCalls[k + 1].args /\ (OldHead(k) <=> saidCalls[k + 1].head)
    BY <2>1, <2>2 DEF OldArgs, OldHead, IsSaid
  <2>4. IsSeq(OldArgs(k))
    BY <2>1, <2>3 DEF IsSaid
  <2>5. OldArgs(k) \o <<>> = OldArgs(k)
    BY <2>4, JoinedNone
  <2> QED BY <1>4, <2>1, <2>3, <2>5
<1>6. n >= n
  BY <1>0
<1> QED BY <1>0, <1>3, <1>5, <1>6 DEF Spoken, ps

\* A chunk with a fragment of one call, new or the last.
LEMMA CallSpoken ==
    ASSUME SaidOK, NEW p, p.kind = "tool", NEW m \in Nat, Shifted(pending', <<p>>, m),
           IsSeq(saidCalls'), Len(saidCalls') \in {Len(saidCalls), Len(saidCalls) + 1},
           Len(saidCalls') > 0, CallOf(p) = Len(saidCalls') - 1, p.head \in {Nothing, Len(saidCalls')},
           \A k \in 0..(Len(saidCalls') - 2) : saidCalls'[k + 1] = saidCalls[k + 1],
           IsSaid(saidCalls'[Len(saidCalls')]),
           saidCalls'[Len(saidCalls')].args = OldArgs(Len(saidCalls') - 1) \o Bringing(p.frag),
           saidCalls'[Len(saidCalls')].head <=> OldHead(Len(saidCalls') - 1) \/ p.head # Nothing,
           frags' \in Nat, UNCHANGED saidText, TextIn(pending') = <<>>
    PROVE  Spoken
<1> DEFINE n == Len(saidCalls)
<1> DEFINE nn == Len(saidCalls')
<1> DEFINE f == <<p>>
<1> DEFINE ps == pending'
<1>0. n \in Nat /\ IsSeq(saidCalls) /\ \A k \in 0..(n - 1) : IsSaid(saidCalls[k + 1])
  BY DEF SaidOK, CallsSaid, IsSeq
<1>1. Len(f) = 1 /\ f[1] = p /\ Shifted(ps, f, m)
  BY Tuples
<1>2. nn \in Nat /\ nn > 0 /\ nn >= n /\ nn =< n + 1
  BY <1>0
<1> HIDE DEF f, ps
<1>3. \A i \in 1..Len(f) : i = 1
  BY <1>1
<1>4. Fragments(f, n, nn)
  <2>1. \A k \in n..(nn - 1) : k = nn - 1
    BY <1>0, <1>2
  <2>2. CallOf(p) + 1 = nn /\ CallOf(p) \in 0..(nn - 1)
    BY <1>2
  <2>3. \A k \in n..(nn - 1) : \E i \in 1..Len(f) : CallOf(f[i]) = k
    BY <1>1, <2>1
  <2>4. \A i \in 1..Len(f) : CallOf(f[i]) \in 0..(nn - 1) /\ f[i].head \in {Nothing, CallOf(f[i]) + 1}
    BY <1>1, <1>3, <2>2
  <2>5. \A i, j \in 1..Len(f) : i < j => CallOf(f[i]) < CallOf(f[j])
    BY <1>3
  <2> QED BY <2>3, <2>4, <2>5 DEF Fragments
<1>5. /\ Arriving(ps, n, nn)
      /\ \A k : /\ \A i \in 1..Len(f) : CallOf(f[i]) = k =>
                      /\ ArgsIn(ps, k) = Bringing(f[i].frag)
                      /\ Named(ps, k) <=> f[i].head # Nothing
                /\ (\A i \in 1..Len(f) : CallOf(f[i]) # k) => ArgsIn(ps, k) = <<>> /\ ~Named(ps, k)
  BY <1>0, <1>1, <1>2, <1>4, ShiftedArrives
<1>6. ASSUME NEW k \in 0..(nn - 1)
      PROVE  /\ IsSaid(saidCalls'[k + 1])
             /\ saidCalls'[k + 1].args = OldArgs(k) \o ArgsIn(ps, k)
             /\ saidCalls'[k + 1].head <=> OldHead(k) \/ Named(ps, k)
  <2>1. CASE k = nn - 1
    <3>1. k + 1 = nn /\ 1 \in 1..Len(f) /\ CallOf(f[1]) = k
      BY <1>1, <1>2, <2>1
    <3>2. ArgsIn(ps, k) = Bringing(p.frag) /\ (Named(ps, k) <=> p.head # Nothing)
      BY <1>1, <1>5, <3>1
    <3> QED BY <2>1, <3>1, <3>2
  <2>2. CASE k # nn - 1
    <3>1. k \in 0..(nn - 2) /\ k \in 0..(n - 1) /\ k < n
      BY <1>0, <1>2, <2>2
    <3>2. saidCalls'[k + 1] = saidCalls[k + 1] /\ IsSaid(saidCalls[k + 1])
      BY <1>0, <3>1
    <3>3. OldArgs(k) = saidCalls[k + 1].args /\ (OldHead(k) <=> saidCalls[k + 1].head)
      BY <3>1, <3>2 DEF OldArgs, OldHead, IsSaid
    <3>4. \A i \in 1..Len(f) : CallOf(f[i]) # k
      BY <1>1, <1>3, <2>2
    <3>5. ArgsIn(ps, k) = <<>> /\ ~Named(ps, k)
      BY <1>5, <3>4
    <3>6. IsSeq(OldArgs(k))
      BY <3>2, <3>3 DEF IsSaid
    <3>7. OldArgs(k) \o <<>> = OldArgs(k)
      BY <3>6, JoinedNone
    <3> QED BY <3>2, <3>3, <3>5, <3>7
  <2> QED BY <2>1, <2>2
<1>7. IsSeq(saidText') /\ saidText' = saidText \o TextIn(ps)
  <2>1. IsSeq(saidText)
    BY DEF SaidOK, TextSaid
  <2>2. TextIn(ps) = <<>>
    BY DEF ps
  <2> QED BY <2>1, <2>2, JoinedNone
<1> QED BY <1>2, <1>5, <1>6, <1>7 DEF Spoken, ps

\* The decoder of each dialect says what the provider said.
LEMMA OpenAISpoken ==
    ASSUME SaidOK, DecoderOK, NEW t \in {0, 1}, NEW d \in Pieces, OpenAIChunk(t, d)
    PROVE  Spoken /\ UNCHANGED <<toolIndex, calls>> /\ adapter \notin {"google", "anthropic"}
<1> DEFINE n == Len(saidCalls)
<1>1. /\ adapter \in {"openai", "indexless"} /\ Sensible(d) /\ Say(t, d)
      /\ adapter = "indexless" => \A i \in DOMAIN d : i \in Opens(d)
      /\ adapter = "indexless" /\ d # <<>> => saidCalls = <<>>
      /\ UNCHANGED <<toolIndex, calls>>
  BY DEF OpenAIChunk, decoder
<1>2. SaidMore(t, d)
  BY <1>1, SaySays
<1>3. n \in Nat
  BY DEF SaidOK, CallsSaid, IsSeq
<1>4. /\ DOMAIN d = 1..Len(d) /\ Len(d) \in Nat
      /\ \A i \in 1..Len(d) : d[i].call \in 1..Len(saidCalls')
      /\ Len(saidCalls') \in Nat
  BY <1>2 DEF SaidMore, Delta, IsSeq
<1> DEFINE g(i) == ToolPiece(IF adapter = "openai" THEN d[i].call - 1 ELSE NoIndex,
                             i - 1, Brings(d[i]), Number(t, d, i))
<1> DEFINE f == [i \in DOMAIN d |-> g(i)]
<1>5. pending' = <<Begin>> \o TextPieces(t) \o f
  BY DEF OpenAIChunk
<1>6. f = [i \in 1..Len(d) |-> f[i]] /\ \A i \in 1..Len(d) : f[i] = g(i)
  BY <1>4
<1>7. ASSUME NEW i \in 1..Len(d)
      PROVE  /\ g(i).kind = "tool" /\ CallOf(g(i)) = d[i].call - 1
             /\ g(i).head = Brings(d[i]) /\ g(i).frag = Number(t, d, i)
  <2>1. /\ g(i).kind = "tool" /\ g(i).head = Brings(d[i]) /\ g(i).frag = Number(t, d, i)
        /\ g(i).index = IF adapter = "openai" THEN d[i].call - 1 ELSE NoIndex
        /\ g(i).pos = i - 1
    BY DEF ToolPiece
  <2> HIDE DEF g
  <2>2. CASE adapter = "openai"
    <3>1. d[i].call - 1 # NoIndex
      BY <1>4 DEF NoIndex
    <3> QED BY <2>1, <2>2, <3>1 DEF CallOf
  <2>3. CASE adapter = "indexless"
    <3>1. d # <<>>
      BY <1>4, Tuples
    <3>2. n = 0
      BY <1>1, <2>3, <3>1, Tuples
    <3>3. d[i].call = n + i
      BY <1>1, <1>3, <2>3, DeltaOpens
    <3>4. d[i].call - 1 = i - 1
      BY <1>4, <3>2, <3>3
    <3> QED BY <2>1, <2>3, <3>4 DEF CallOf
  <2> QED BY <1>1, <2>1, <2>2, <2>3
<1> HIDE DEF g, f
<1>8. IsSeq(f) /\ Len(f) = Len(d)
  BY <1>4, <1>6, MappedIsSeq
<1>9. \A i \in 1..Len(f) : /\ f[i].kind = "tool" /\ CallOf(f[i]) = d[i].call - 1
                           /\ f[i].head = Brings(d[i]) /\ f[i].frag = Number(t, d, i)
  BY <1>6, <1>7, <1>8
<1>10. Spoken
  BY <1>2, <1>5, <1>8, <1>9, ChunkSpoken
<1> QED BY <1>1, <1>10

LEMMA GoogleSpoken ==
    ASSUME SaidOK, DecoderOK, NEW t \in {0, 1}, NEW d \in Pieces, GoogleChunk(t, d)
    PROVE  Spoken /\ UNCHANGED toolIndex /\ calls' = Len(saidCalls') /\ adapter = "google"
<1> DEFINE n == Len(saidCalls)
<1>1. /\ adapter = "google" /\ Sensible(d) /\ Say(t, d)
      /\ \A i \in DOMAIN d : i \in Opens(d)
      /\ UNCHANGED toolIndex /\ calls' = calls + Len(d)
  BY DEF GoogleChunk
<1>2. SaidMore(t, d)
  BY <1>1, SaySays
<1>3. n \in Nat /\ calls = n
  BY <1>1 DEF SaidOK, CallsSaid, IsSeq, DecoderOK
<1>4. /\ DOMAIN d = 1..Len(d) /\ Len(d) \in Nat
      /\ \A i \in 1..Len(d) : d[i].call \in 1..Len(saidCalls')
      /\ Len(saidCalls') \in Nat
  BY <1>2 DEF SaidMore, Delta, IsSeq
<1>5. /\ Cardinality(Opens(d)) = Len(d)
      /\ \A i \in 1..Len(d) : d[i].call = n + i
  BY <1>1, <1>3, DeltaOpens
<1>6. Len(saidCalls') = n + Len(d)
  BY <1>2, <1>5 DEF SaidMore
<1> DEFINE g(i) == ToolPiece(calls + i - 1, i - 1, Brings(d[i]), Number(t, d, i))
<1> DEFINE f == [i \in DOMAIN d |-> g(i)]
<1>7. pending' = <<Begin>> \o TextPieces(t) \o f
  BY DEF GoogleChunk
<1>8. f = [i \in 1..Len(d) |-> f[i]] /\ \A i \in 1..Len(d) : f[i] = g(i)
  BY <1>4
<1>9. ASSUME NEW i \in 1..Len(d)
      PROVE  /\ g(i).kind = "tool" /\ CallOf(g(i)) = d[i].call - 1
             /\ g(i).head = Brings(d[i]) /\ g(i).frag = Number(t, d, i)
  <2>1. /\ g(i).kind = "tool" /\ g(i).head = Brings(d[i]) /\ g(i).frag = Number(t, d, i)
        /\ g(i).index = calls + i - 1
    BY DEF ToolPiece
  <2> HIDE DEF g
  <2>2. d[i].call = n + i
    BY <1>5
  <2>3. calls + i - 1 = d[i].call - 1 /\ calls + i - 1 # NoIndex
    BY <1>3, <1>4, <2>2 DEF NoIndex
  <2> QED BY <2>1, <2>3 DEF CallOf
<1> HIDE DEF g, f
<1>10. IsSeq(f) /\ Len(f) = Len(d)
  BY <1>4, <1>8, MappedIsSeq
<1>11. \A i \in 1..Len(f) : /\ f[i].kind = "tool" /\ CallOf(f[i]) = d[i].call - 1
                           /\ f[i].head = Brings(d[i]) /\ f[i].frag = Number(t, d, i)
  BY <1>8, <1>9, <1>10
<1>12. Spoken
  BY <1>2, <1>7, <1>10, <1>11, ChunkSpoken
<1> QED BY <1>1, <1>3, <1>6, <1>12

\* A block of text is only counted,
LEMMA TextBlockSpoken ==
    ASSUME SaidOK, DecoderOK, Reading, TextBlock
    PROVE  /\ Spoken /\ adapter = "anthropic" /\ UNCHANGED calls /\ IsSeq(toolIndex')
           /\ Count(toolIndex') = Len(saidCalls')
           /\ toolIndex'[Len(toolIndex')] \in {NoCall, Len(saidCalls') - 1}
<1>1. /\ adapter = "anthropic" /\ toolIndex' = Append(toolIndex, NoCall)
      /\ UNCHANGED <<frags, saidText, saidCalls, pending, calls>> /\ pending = <<>>
  BY DEF TextBlock, provider, Reading
<1>2. IsSeq(toolIndex) /\ Count(toolIndex) = Len(saidCalls)
  BY <1>1 DEF DecoderOK
<1>3. Count(toolIndex') = Len(saidCalls')
  BY <1>1, <1>2, CountOneMore
<1>4. /\ IsSeq(toolIndex') /\ Len(toolIndex') = Len(toolIndex) + 1
      /\ toolIndex'[Len(toolIndex) + 1] = NoCall
  BY <1>1, <1>2, Appended
<1>5. Spoken
  <2>1. frags' \in Nat /\ IsSeq(saidText') /\ saidText' = saidText /\ TextIn(pending') = <<>>
    BY <1>1, NoPieces DEF SaidOK, TextSaid
  <2>2. saidText' = saidText \o TextIn(pending')
    BY <2>1, JoinedNone
  <2>3. Shifted(pending', <<>>, 0)
    <3> DEFINE e == <<>>
    <3>1. IsSeq(e) /\ Len(e) = 0 /\ pending' = e
      BY <1>1, Tuples
    <3> HIDE DEF e
    <3>2. Shifted(e, e, 0)
      BY <3>1 DEF Shifted
    <3> QED BY <3>1, <3>2 DEF e
  <2>4. 0 \in Nat /\ saidCalls' = saidCalls
    BY <1>1
  <2> QED BY <2>1, <2>2, <2>3, <2>4, CallsUnspoken
<1> QED BY <1>1, <1>3, <1>4, <1>5

\* the end of the message brings nothing,
LEMMA MessageDeltaSpoken ==
    ASSUME SaidOK, MessageDelta
    PROVE  Spoken /\ UNCHANGED <<toolIndex, calls, saidCalls>>
<1>1. pending' = <<Begin>> /\ UNCHANGED <<frags, saidText, saidCalls, toolIndex, calls>>
  BY DEF MessageDelta, provider, decoder
<1> DEFINE e == <<>>
<1>2. /\ IsSeq(pending') /\ Len(pending') = 1 /\ pending'[1] = Begin
      /\ IsSeq(e) /\ Len(e) = 0 /\ Begin.kind = "begin"
  BY <1>1, Tuples DEF Begin
<1> HIDE DEF e
<1>3. \A i \in 1..1 : pending'[i].kind = "begin"
  <2>1. \A i \in 1..1 : i = 1
    OBVIOUS
  <2> QED BY <1>2, <2>1
<1>4. Shifted(pending', e, 1)
  BY <1>2, <1>3 DEF Shifted
<1>5. TextIn(pending') = <<>>
  BY <1>2, <1>3, NoTextIn
<1>6. frags' \in Nat /\ IsSeq(saidText') /\ saidText' = saidText \o TextIn(pending')
  <2>1. frags' \in Nat /\ IsSeq(saidText) /\ saidText' = saidText
    BY <1>1 DEF SaidOK, TextSaid
  <2> QED BY <1>5, <2>1, JoinedNone
<1>7. Spoken
  <2>1. Shifted(pending', <<>>, 1) /\ 1 \in Nat /\ saidCalls' = saidCalls
    BY <1>1, <1>4 DEF e
  <2> QED BY <1>6, <2>1, CallsUnspoken
<1> QED BY <1>1, <1>7

\* a tool_use block opens the next call,
LEMMA ToolBlockSpoken ==
    ASSUME SaidOK, DecoderOK, ToolBlock
    PROVE  /\ Spoken /\ adapter = "anthropic" /\ UNCHANGED calls /\ IsSeq(toolIndex')
           /\ Count(toolIndex') = Len(saidCalls')
           /\ toolIndex'[Len(toolIndex')] \in {NoCall, Len(saidCalls') - 1}
<1> DEFINE n == Len(saidCalls)
<1> DEFINE c == [head |-> TRUE, args |-> <<>>]
<1> DEFINE p == ToolPiece(n, 0, n + 1, Nothing)
<1>0. ToolCount = Count(toolIndex)
  BY DEF ToolCount, Count
<1>1. /\ adapter = "anthropic" /\ IsSeq(toolIndex) /\ Count(toolIndex) = n
      /\ IsSeq(saidCalls) /\ n \in Nat /\ frags \in Nat
  BY DEF ToolBlock, DecoderOK, SaidOK, CallsSaid, IsSeq
<1>2. /\ toolIndex' = Append(toolIndex, n) /\ saidCalls' = Append(saidCalls, c)
      /\ EmitDelta(p) /\ UNCHANGED <<frags, saidText, calls>>
  BY <1>0, <1>1 DEF ToolBlock
<1>3. n # NoCall /\ n # NoIndex /\ n + 1 # Nothing
  BY <1>1 DEF NoCall, NoIndex, Nothing
<1>4. p.kind = "tool" /\ CallOf(p) = n /\ p.head = n + 1 /\ p.frag = Nothing
  BY <1>3 DEF ToolPiece, CallOf
<1>5. c.head = TRUE /\ c.args = <<>> /\ IsSaid(c)
  BY Tuples DEF IsSaid
<1> HIDE DEF p, c
<1>6. /\ IsSeq(saidCalls') /\ Len(saidCalls') = n + 1 /\ saidCalls'[n + 1] = c
      /\ \A i \in 1..n : saidCalls'[i] = saidCalls[i]
  BY <1>1, <1>2, Appended, ZenonT(60)
<1>7. /\ IsSeq(toolIndex') /\ Len(toolIndex') = Len(toolIndex) + 1 /\ toolIndex'[Len(toolIndex) + 1] = n
  BY <1>1, <1>2, Appended
<1>8. Count(toolIndex') = n + 1
  BY <1>1, <1>2, <1>3, CountOneMore
<1>9. PICK m \in Nat : Shifted(pending', <<p>>, m) /\ TextIn(pending') = <<>>
  BY <1>2, <1>4, EmittedShape
<1> DEFINE nn == Len(saidCalls')
<1>10. nn = n + 1 /\ nn - 1 = n
  BY <1>1, <1>6
<1> HIDE DEF nn
<1>11. OldArgs(n) = <<>> /\ ~OldHead(n)
  BY <1>1 DEF OldArgs, OldHead
<1>12. saidCalls'[nn].args = OldArgs(nn - 1) \o Bringing(p.frag)
  <2>1. Bringing(p.frag) = <<>>
    BY <1>4 DEF Bringing
  <2>2. <<>> \o <<>> = <<>>
    BY Tuples, JoinedNone
  <2> QED BY <1>5, <1>6, <1>10, <1>11, <2>1, <2>2
<1>13. saidCalls'[nn].head <=> OldHead(nn - 1) \/ p.head # Nothing
  BY <1>3, <1>4, <1>5, <1>6, <1>10
<1>14. \A k \in 0..(nn - 2) : saidCalls'[k + 1] = saidCalls[k + 1]
  <2> TAKE k \in 0..(nn - 2)
  <2>1. k + 1 \in 1..n
    BY <1>1, <1>10
  <2> QED BY <1>6, <2>1
<1>15. /\ nn \in {n, n + 1} /\ nn > 0 /\ CallOf(p) = nn - 1 /\ p.head \in {Nothing, nn}
       /\ IsSaid(saidCalls'[nn]) /\ frags' \in Nat /\ saidText' = saidText
  BY <1>1, <1>2, <1>4, <1>5, <1>6, <1>10
<1>16. Spoken
  BY <1>4, <1>6, <1>9, <1>12, <1>13, <1>14, <1>15, CallSpoken DEF nn
<1>17. toolIndex'[Len(toolIndex')] = Len(saidCalls') - 1
  BY <1>7, <1>10 DEF nn
<1> QED BY <1>1, <1>2, <1>6, <1>7, <1>8, <1>16, <1>17

\* and a delta belongs to the block that is open.
LEMMA BlockDeltaSpoken ==
    ASSUME SaidOK, DecoderOK, BlockDelta
    PROVE  /\ Spoken /\ adapter = "anthropic" /\ UNCHANGED <<calls, toolIndex>>
           /\ Len(saidCalls') = Len(saidCalls)
<1> DEFINE n == Len(saidCalls)
<1> DEFINE at == toolIndex[Len(toolIndex)]
<1>1. /\ adapter = "anthropic" /\ toolIndex # <<>> /\ frags' = frags + 1
      /\ UNCHANGED <<toolIndex, calls>>
  BY DEF BlockDelta
<1>2. /\ at \in {NoCall, n - 1} /\ IsSeq(saidCalls) /\ n \in Nat /\ frags \in Nat /\ IsSeq(saidText)
      /\ \A k \in 0..(n - 1) : IsSaid(saidCalls[k + 1])
  BY <1>1 DEF DecoderOK, SaidOK, CallsSaid, TextSaid, IsSeq
<1>3. frags' \in Nat
  BY <1>1, <1>2
<1>4. CASE at = NoCall
  <2> DEFINE p == TextPiece(frags + 1)
  <2>1. saidText' = Append(saidText, frags + 1) /\ EmitDelta(p) /\ UNCHANGED saidCalls
    BY <1>4 DEF BlockDelta
  <2>2. p.kind = "text" /\ p.frag = frags + 1
    BY DEF TextPiece, Begin
  <2> HIDE DEF p
  <2>3. PICK m \in Nat : Shifted(pending', <<>>, m) /\ TextIn(pending') = <<p.frag>>
    BY <2>1, <2>2, EmittedShape
  <2>4. IsSeq(saidText') /\ saidText' = saidText \o <<frags + 1>>
    BY <1>2, <2>1, Appended
  <2>5. saidText' = saidText \o TextIn(pending')
    BY <2>2, <2>3, <2>4
  <2>6. Spoken
    BY <1>3, <2>1, <2>3, <2>4, <2>5, CallsUnspoken
  <2> QED BY <1>1, <2>1, <2>6
<1>5. CASE at # NoCall
  <2> DEFINE p == ToolPiece(at, 0, Nothing, frags + 1)
  <2>1. /\ saidCalls' = [saidCalls EXCEPT ![n].args = Append(@, frags + 1)]
        /\ EmitDelta(p) /\ UNCHANGED saidText
    BY <1>5 DEF BlockDelta
  <2>2. at = n - 1 /\ n > 0 /\ at # NoIndex
    BY <1>2, <1>5 DEF NoCall, NoIndex
  <2>3. p.kind = "tool" /\ CallOf(p) = n - 1 /\ p.head = Nothing /\ p.frag = frags + 1
    BY <2>2 DEF ToolPiece, CallOf
  <2>4. IsSaid(saidCalls[n]) /\ n \in 1..n
    <3>1. n - 1 \in 0..(n - 1) /\ (n - 1) + 1 = n /\ n \in 1..n
      BY <1>2, <2>2
    <3> QED BY <1>2, <3>1
  <2> DEFINE c == [saidCalls[n] EXCEPT !.args = Append(@, frags + 1)]
  <2>5. c.head = saidCalls[n].head /\ c.args = Append(saidCalls[n].args, frags + 1) /\ IsSaid(c)
    <3> DEFINE h == saidCalls[n].head
    <3> DEFINE a == saidCalls[n].args
    <3>1. saidCalls[n] = [head |-> h, args |-> a] /\ h \in BOOLEAN /\ IsSeq(a)
      BY <2>4 DEF IsSaid
    <3> DEFINE b == Append(a, frags + 1)
    <3>2. IsSeq(b)
      BY <3>1, Appended
    <3>3. c = [head |-> h, args |-> b]
      <4> HIDE DEF h, a
      <4> QED BY <3>1, SMTT(60)
    <3> HIDE DEF h, a, b, c
    <3>4. c.head = h /\ c.args = b /\ IsSaid(c)
      BY <3>1, <3>2, <3>3 DEF IsSaid
    <3> QED BY <3>4 DEF h, a, b
  <2>6. saidCalls' = [saidCalls EXCEPT ![n] = c]
    BY <2>1
  <2> HIDE DEF c, p
  <2>7. /\ IsSeq(saidCalls') /\ Len(saidCalls') = n /\ saidCalls'[n] = c
        /\ \A i \in 1..n : i # n => saidCalls'[i] = saidCalls[i]
    <3>1. DOMAIN saidCalls = 1..n
      BY <1>2 DEF IsSeq
    <3>2. saidCalls' = [i \in 1..n |-> saidCalls'[i]]
      BY <2>6, <3>1
    <3>3. IsSeq(saidCalls') /\ Len(saidCalls') = n
      BY <1>2, <3>2, MappedIsSeq
    <3> QED BY <2>4, <2>6, <3>1, <3>3
  <2>8. PICK m \in Nat : Shifted(pending', <<p>>, m) /\ TextIn(pending') = <<>>
    BY <2>1, <2>3, EmittedShape
  <2>9. frags + 1 # Nothing /\ Bringing(p.frag) = <<frags + 1>>
    BY <1>2, <2>3 DEF Bringing, Nothing
  <2>10. (n - 1) + 1 = n /\ n - 1 < n
    BY <1>2
  <2>11. OldArgs(n - 1) = saidCalls[n].args /\ (OldHead(n - 1) <=> saidCalls[n].head)
    BY <2>4, <2>10 DEF OldArgs, OldHead, IsSaid
  <2>12. c.args = OldArgs(n - 1) \o Bringing(p.frag)
    <3>1. IsSeq(saidCalls[n].args)
      BY <2>4 DEF IsSaid
    <3> DEFINE a == saidCalls[n].args
    <3> DEFINE x == frags + 1
    <3> HIDE DEF a, x
    <3>2. Append(a, x) = a \o <<x>>
      BY <3>1, Appended DEF a
    <3> QED BY <2>5, <2>9, <2>11, <3>2 DEF a, x
  <2>13. c.head <=> OldHead(n - 1) \/ p.head # Nothing
    BY <2>3, <2>5, <2>11
  <2>14. \A k \in 0..(n - 2) : saidCalls'[k + 1] = saidCalls[k + 1]
    <3> TAKE k \in 0..(n - 2)
    <3>1. k + 1 \in 1..n /\ k + 1 # n
      BY <1>2
    <3> QED BY <2>7, <3>1
  <2> DEFINE nn == Len(saidCalls')
  <2>15. nn = n
    BY <2>7
  <2> HIDE DEF nn
  <2>16. /\ nn \in {n, n + 1} /\ nn > 0 /\ CallOf(p) = nn - 1 /\ p.head \in {Nothing, nn}
         /\ IsSaid(saidCalls'[nn]) /\ saidText' = saidText
         /\ saidCalls'[nn].args = OldArgs(nn - 1) \o Bringing(p.frag)
         /\ saidCalls'[nn].head <=> OldHead(nn - 1) \/ p.head # Nothing
         /\ \A k \in 0..(nn - 2) : saidCalls'[k + 1] = saidCalls[k + 1]
    BY <2>1, <2>2, <2>3, <2>5, <2>7, <2>12, <2>13, <2>14, <2>15
  <2>17. Spoken
    BY <1>3, <2>3, <2>7, <2>8, <2>16, CallSpoken DEF nn
  <2> QED BY <1>1, <2>7, <2>17
<1> QED BY <1>4, <1>5

(***************************************************************************)
(* Every step keeps what was said, held and pending in line.               *)
(***************************************************************************)

\* Whatever the dialect.
LEMMA SpeakSaid ==
    ASSUME StreamOK, LogSays, SaidOK, DecoderOK, Speak
    PROVE  SaidOK' /\ DecoderOK'
<1>1. /\ Reading /\ sent' = (sent \/ pending' # <<>>) /\ UNCHANGED <<phase, itemVars, adapter>>
      /\ phase' = "reading"
  BY DEF Speak, Reading
<1>2. ASSUME Spoken PROVE SaidOK'
  BY <1>1, <1>2, SpokenSaid
<1>3. IsSeq(toolIndex)
  BY DEF DecoderOK
<1>4. ASSUME NEW t \in {0, 1}, NEW d \in Pieces, OpenAIChunk(t, d) PROVE SaidOK' /\ DecoderOK'
  <2>1. Spoken /\ UNCHANGED <<toolIndex, calls>> /\ adapter \notin {"google", "anthropic"}
    BY <1>4, OpenAISpoken
  <2> QED BY <1>1, <1>2, <1>3, <2>1 DEF DecoderOK
<1>5. ASSUME NEW t \in {0, 1}, NEW d \in Pieces, GoogleChunk(t, d) PROVE SaidOK' /\ DecoderOK'
  <2>1. Spoken /\ UNCHANGED toolIndex /\ calls' = Len(saidCalls') /\ adapter = "google"
    BY <1>5, GoogleSpoken
  <2> QED BY <1>1, <1>2, <1>3, <2>1 DEF DecoderOK
<1>6. CASE TextBlock
  <2>1. /\ Spoken /\ adapter = "anthropic" /\ UNCHANGED calls /\ IsSeq(toolIndex')
        /\ Count(toolIndex') = Len(saidCalls')
        /\ toolIndex'[Len(toolIndex')] \in {NoCall, Len(saidCalls') - 1}
    BY <1>1, <1>6, TextBlockSpoken
  <2> QED BY <1>1, <1>2, <2>1 DEF DecoderOK
<1>7. CASE ToolBlock
  <2>1. /\ Spoken /\ adapter = "anthropic" /\ UNCHANGED calls /\ IsSeq(toolIndex')
        /\ Count(toolIndex') = Len(saidCalls')
        /\ toolIndex'[Len(toolIndex')] \in {NoCall, Len(saidCalls') - 1}
    BY <1>7, ToolBlockSpoken
  <2> QED BY <1>1, <1>2, <2>1 DEF DecoderOK
<1>8. CASE BlockDelta
  <2>1. /\ Spoken /\ adapter = "anthropic" /\ UNCHANGED <<calls, toolIndex>>
        /\ Len(saidCalls') = Len(saidCalls)
    BY <1>8, BlockDeltaSpoken
  <2>2. /\ Count(toolIndex) = Len(saidCalls)
        /\ toolIndex # <<>> => toolIndex[Len(toolIndex)] \in {NoCall, Len(saidCalls) - 1}
    BY <2>1 DEF DecoderOK
  <2>3. DecoderOK'
    BY <1>1, <1>3, <2>1, <2>2 DEF DecoderOK
  <2> QED BY <1>2, <2>1, <2>3
<1>9. CASE MessageDelta
  <2>1. Spoken /\ UNCHANGED <<toolIndex, calls, saidCalls>> /\ adapter = "anthropic"
    BY <1>9, MessageDeltaSpoken DEF MessageDelta
  <2>2. /\ Count(toolIndex) = Len(saidCalls)
        /\ toolIndex # <<>> => toolIndex[Len(toolIndex)] \in {NoCall, Len(saidCalls) - 1}
    BY <2>1 DEF DecoderOK
  <2>3. DecoderOK'
    BY <1>1, <1>3, <2>1, <2>2 DEF DecoderOK
  <2> QED BY <1>2, <2>1, <2>3
<1> QED BY <1>4, <1>5, <1>6, <1>7, <1>8, <1>9 DEF Speak

\* A step that consumes nothing and is said nothing.
LEMMA KeptSaid ==
    ASSUME SaidOK, UNCHANGED <<frags, saidText, saidCalls, pending, text, tools, toolOrder, sent>>,
           phase' # "reading" => pending = <<>>
    PROVE  SaidOK'
<1>1. TextSaid'
  BY DEF SaidOK, TextSaid
<1>2. CallsSaid'
  BY SameCallsSaid DEF SaidOK
<1>3. CallsNumbered'
  BY DEF SaidOK, CallsNumbered
<1>4. NothingWaits'
  BY DEF SaidOK, NothingWaits
<1>5. Arriving(pending', Len(toolOrder'), Len(saidCalls'))
  BY DEF SaidOK
<1>6. (frags \in Nat)' /\ (sent \in BOOLEAN)'
  BY DEF SaidOK
<1> QED BY <1>1, <1>2, <1>3, <1>4, <1>5, <1>6 DEF SaidOK

\* A step that leaves the decoder and what was said alone.
LEMMA KeptDecoder ==
    ASSUME DecoderOK, UNCHANGED <<toolIndex, calls, saidCalls, adapter>>, phase' # "dialling"
    PROVE  DecoderOK'
<1>1. Count(toolIndex') = Count(toolIndex) /\ IsSeq(toolIndex')
  BY DEF DecoderOK
<1> QED BY <1>1 DEF DecoderOK

LEMMA DialSaid == ASSUME SaidOK, DecoderOK, Dial PROVE SaidOK' /\ DecoderOK'
<1>1. /\ phase = "dialling" /\ phase' = "reading"
      /\ UNCHANGED <<frags, saidText, saidCalls, pending, text, tools, toolOrder, sent, toolIndex, calls>>
  BY DEF Dial, provider, decoder, itemVars
<1>2. SaidOK'
  BY <1>1, KeptSaid
<1>3. ~sent /\ calls = 0 /\ toolIndex = <<>>
  BY <1>1 DEF DecoderOK
<1>4. saidCalls = <<>> /\ Len(saidCalls) = 0
  BY <1>3, Tuples DEF SaidOK, NothingWaits
<1>5. Count(toolIndex) = 0
  <2>1. {b \in DOMAIN <<>> : <<>>[b] # NoCall} = {}
    OBVIOUS
  <2> QED BY <1>3, <2>1, SmallSets DEF Count
<1>6. DecoderOK'
  BY <1>1, <1>3, <1>4, <1>5, Tuples DEF DecoderOK
<1> QED BY <1>2, <1>6

\* Nothing was said: the next attempt starts afresh.
LEMMA UpstreamFailsSaid == ASSUME SaidOK, DecoderOK, UpstreamFails PROVE SaidOK' /\ DecoderOK'
<1>1. /\ pending = <<>> /\ UNCHANGED <<frags, pending, text, tools, toolOrder, sent>>
  BY DEF UpstreamFails, Reading, itemVars
<1>2. CASE sent \/ attempt = MaxAttempts
  <2>1. UNCHANGED <<saidText, saidCalls, toolIndex, calls, adapter>> /\ phase' \in {"failing", "refused"}
    BY <1>2 DEF UpstreamFails, decoder
  <2> QED BY <1>1, <2>1, KeptSaid, KeptDecoder
<1>3. CASE ~(sent \/ attempt = MaxAttempts)
  <2>1. /\ saidText' = <<>> /\ saidCalls' = <<>> /\ toolIndex' = <<>> /\ calls' = 0
        /\ phase' = "dialling" /\ adapter' = NoAdapter
    BY <1>3 DEF UpstreamFails, NewDecoder
  <2>2. saidText = <<>> /\ saidCalls = <<>>
    BY <1>3 DEF SaidOK, NothingWaits
  <2>3. SaidOK'
    BY <1>1, <2>1, <2>2, KeptSaid
  <2>4. DecoderOK'
    BY <1>1, <1>3, <2>1, Tuples DEF DecoderOK, NoAdapter
  <2> QED BY <2>3, <2>4
<1> QED BY <1>2, <1>3

\* Every step keeps what was said, what is held and what is on its way alike.
LEMMA NextSaid ==
    ASSUME StreamOK, LogSays, SaidOK, DecoderOK, [Next]_vars
    PROVE  SaidOK' /\ DecoderOK'
<1>1. CASE UNCHANGED vars
  <2>1. UNCHANGED <<frags, saidText, saidCalls, pending, text, tools, toolOrder, sent, phase,
                    toolIndex, calls, adapter>>
    BY <1>1 DEF vars, provider, decoder, gateway, itemVars
  <2>2. SaidOK'
    BY <2>1, KeptSaid DEF SaidOK, NothingWaits
  <2>3. DecoderOK'
    <3>1. CASE phase # "dialling"
      BY <2>1, <3>1, KeptDecoder
    <3>2. CASE phase = "dialling"
      <4>1. Count(toolIndex') = Count(toolIndex) /\ IsSeq(toolIndex')
        BY <2>1 DEF DecoderOK
      <4> QED BY <2>1, <4>1 DEF DecoderOK
    <3> QED BY <3>1, <3>2
  <2> QED BY <2>2, <2>3
<1>2. CASE Dial
  BY <1>2, DialSaid
<1>3. CASE Speak
  BY <1>3, SpeakSaid
<1>4. CASE UpstreamFails
  BY <1>4, UpstreamFailsSaid
<1>5. CASE Consume
  <2>1. UNCHANGED <<toolIndex, calls, saidCalls, adapter>> /\ phase' = "reading"
    BY <1>5 DEF Consume, ConsumeBegin, AppendText, AppendToolCall, decoder, provider, gateway
  <2>2. DecoderOK'
    BY <2>1, KeptDecoder
  <2> QED BY <1>5, <2>2, ConsumeBeginSaid, AppendTextSaid, AppendToolCallSaid DEF Consume
<1>6. CASE UpstreamEnds \/ Finish \/ Fail
  <2>1. UNCHANGED <<frags, saidText, saidCalls, pending, text, tools, toolOrder, sent, toolIndex,
                    calls, adapter>>
    BY <1>6 DEF UpstreamEnds, Finish, FinishOpen, CloseText, CloseCall, Complete, Fail,
                provider, decoder, gateway, itemVars
  <2>2. phase' # "dialling" /\ pending = <<>>
    <3>1. CASE UpstreamEnds
      BY <3>1 DEF UpstreamEnds, Reading
    <3>2. CASE Finish \/ Fail
      <4>1. phase' # "dialling" /\ phase # "reading"
        BY <3>2 DEF Finish, FinishOpen, CloseText, CloseCall, Complete, Fail, gateway
      <4> QED BY <4>1 DEF SaidOK, NothingWaits
    <3> QED BY <1>6, <3>1, <3>2
  <2> QED BY <2>1, <2>2, KeptSaid, KeptDecoder
<1> QED BY <1>1, <1>2, <1>3, <1>4, <1>5, <1>6 DEF Next

\* Nothing said and nothing held.
LEMMA InitSaid == Init => SaidOK /\ DecoderOK
<1> SUFFICES ASSUME Init PROVE SaidOK /\ DecoderOK
  OBVIOUS
<1>1. /\ frags = 0 /\ sent = FALSE /\ saidText = <<>> /\ saidCalls = <<>> /\ pending = <<>>
      /\ text = <<>> /\ tools = <<>> /\ toolOrder = <<>> /\ toolIndex = <<>> /\ calls = 0
      /\ adapter = NoAdapter
  BY DEF Init
<1>2. TextIn(pending) = <<>> /\ ToolsOf(pending) = {} /\ IsSeq(pending)
  BY <1>1, NoPieces
<1>3. IsSeq(saidText) /\ IsSeq(saidCalls) /\ Len(saidCalls) = 0 /\ Len(toolOrder) = 0 /\ IsSeq(toolIndex)
  BY <1>1, Tuples
<1>4. TextSaid
  <2>1. <<>> \o <<>> = <<>>
    BY Tuples, JoinedNone
  <2> QED BY <1>1, <1>2, <1>3, <2>1 DEF TextSaid
<1>5. CallsSaid
  BY <1>3 DEF CallsSaid
<1>6. CallsNumbered /\ NothingWaits
  BY <1>1, <1>3 DEF CallsNumbered, NothingWaits
<1>7. Arriving(pending, Len(toolOrder), Len(saidCalls))
  <2>1. \A k \in Len(toolOrder)..(Len(saidCalls) - 1) : FALSE
    BY <1>3
  <2> QED BY <1>2, <2>1 DEF Arriving
<1>8. SaidOK
  BY <1>1, <1>4, <1>5, <1>6, <1>7 DEF SaidOK
<1> QED BY <1>1, <1>3, <1>8 DEF DecoderOK, NoAdapter

LEMMA StartOverSaid == StartOver => SaidOK' /\ DecoderOK'
<1> SUFFICES ASSUME StartOver PROVE SaidOK' /\ DecoderOK'
  OBVIOUS
<1>1. /\ frags' = 0 /\ sent' = FALSE /\ saidText' = <<>> /\ saidCalls' = <<>> /\ pending' = <<>>
      /\ text' = <<>> /\ tools' = <<>> /\ toolOrder' = <<>> /\ toolIndex' = <<>> /\ calls' = 0
      /\ adapter' = NoAdapter
  BY DEF StartOver, NewDecoder
<1>2. TextIn(pending') = <<>> /\ ToolsOf(pending') = {} /\ IsSeq(pending')
  BY <1>1, NoPieces
<1>3. IsSeq(saidText') /\ IsSeq(saidCalls') /\ Len(saidCalls') = 0 /\ Len(toolOrder') = 0 /\ IsSeq(toolIndex')
  BY <1>1, Tuples
<1>4. TextSaid'
  <2>1. <<>> \o <<>> = <<>>
    BY Tuples, JoinedNone
  <2> QED BY <1>1, <1>2, <1>3, <2>1 DEF TextSaid
<1>5. CallsSaid'
  BY <1>3 DEF CallsSaid
<1>6. CallsNumbered' /\ NothingWaits'
  BY <1>1, <1>3 DEF CallsNumbered, NothingWaits
<1>7. Arriving(pending', Len(toolOrder'), Len(saidCalls'))
  <2>1. \A k \in Len(toolOrder')..(Len(saidCalls') - 1) : FALSE
    BY <1>3
  <2> QED BY <1>2, <2>1 DEF Arriving
<1>8. SaidOK'
  BY <1>1, <1>4, <1>5, <1>6, <1>7 DEF SaidOK
<1> QED BY <1>1, <1>3, <1>8 DEF DecoderOK, NoAdapter

\* Reassembled and Items read the log the client has.
LEMMA AsTheClientReads ==
    /\ \A x : Reassembled(x) = DeltasIn(events, x)
    /\ \A kind : Items(kind) = ItemsIn(events, kind)
BY DEF Reassembled, DeltasIn, Brought, Items, ItemsIn, Added

\* What is held, once a chunk is consumed.
LEMMA AllConsumed ==
    ASSUME StreamOK, LogSays, SaidOK, pending = <<>>
    PROVE  /\ saidText = text /\ Len(toolOrder) = Len(saidCalls) /\ Len(saidCalls) \in Nat
           /\ \A i \in 1..Len(saidCalls) :
                /\ toolOrder[i] = i - 1 /\ i - 1 \in DOMAIN tools /\ IsSaid(saidCalls[i])
                /\ saidCalls[i].args = tools[i - 1].args
                /\ tools[i - 1].head = IF saidCalls[i].head THEN i ELSE Nothing
<1> DEFINE n == Len(saidCalls)
<1>1. /\ Len(toolOrder) \in Nat /\ DOMAIN tools = 0..(Len(toolOrder) - 1) /\ n \in Nat
      /\ Len(toolOrder) =< n
  BY KnownCalls
<1>2. Len(toolOrder) = n
  <2>1. \A k \in Len(toolOrder)..(n - 1) : \E i \in ToolsOf(pending) : CallOf(pending[i]) = k
    BY DEF SaidOK, Arriving
  <2>2. ToolsOf(pending) = {}
    BY NoPieces
  <2> QED BY <1>1, <2>1, <2>2
<1>3. saidText = text
  <2>1. saidText = text \o TextIn(pending) /\ TextIn(pending) = <<>> /\ IsSeq(text)
    BY NoPieces DEF SaidOK, TextSaid, LogSays, TextSays
  <2> QED BY <2>1, JoinedNone
<1>4. ASSUME NEW i \in 1..n
      PROVE  /\ toolOrder[i] = i - 1 /\ i - 1 \in DOMAIN tools /\ IsSaid(saidCalls[i])
             /\ saidCalls[i].args = tools[i - 1].args
             /\ tools[i - 1].head = IF saidCalls[i].head THEN i ELSE Nothing
  <2> DEFINE k == i - 1
  <2>1. k \in 0..(n - 1) /\ k + 1 = i /\ i # Nothing
    BY <1>1 DEF Nothing
  <2>2. k \in DOMAIN tools
    BY <1>1, <1>2, <2>1
  <2> HIDE DEF k
  <2>3. /\ IsSaid(saidCalls[k + 1])
        /\ saidCalls[k + 1].args = HeldArgs(k) \o ArgsIn(pending, k)
        /\ HeldHead(k) \in {Nothing, k + 1}
        /\ saidCalls[k + 1].head <=> HeldHead(k) # Nothing \/ Named(pending, k)
    BY <2>1 DEF SaidOK, CallsSaid
  <2>4. ArgsIn(pending, k) = <<>> /\ ~Named(pending, k)
    BY NoPieces
  <2>5. HeldArgs(k) = tools[k].args /\ HeldHead(k) = tools[k].head /\ IsSeq(tools[k].args)
    BY <2>2 DEF HeldArgs, HeldHead, LogSays, CallsSay
  <2>6. saidCalls[i].args = tools[k].args
    BY <2>1, <2>3, <2>4, <2>5, JoinedNone
  <2>7. tools[k].head = IF saidCalls[i].head THEN i ELSE Nothing
    BY <2>1, <2>3, <2>4, <2>5 DEF IsSaid
  <2>8. toolOrder[i] = i - 1
    BY <1>2 DEF SaidOK, CallsNumbered
  <2> QED BY <2>1, <2>2, <2>3, <2>6, <2>7, <2>8 DEF k
<1> QED BY <1>1, <1>2, <1>3, <1>4

LEMMA WhatWasSaid == StreamOK /\ LogSays /\ SaidOK => DeltasAreWhatWasSaid
<1> SUFFICES ASSUME StreamOK, LogSays, SaidOK, pending = <<>>
             PROVE  /\ Len(Items("added_message")) = IF saidText = <<>> THEN 0 ELSE 1
                    /\ \A i \in DOMAIN Items("added_message") :
                          Reassembled(Items("added_message")[i]) = saidText
                    /\ Len(Items("added_call")) = Len(saidCalls)
                    /\ \A i \in DOMAIN Items("added_call") :
                          Reassembled(Items("added_call")[i]) = saidCalls[i].args
                    /\ \A i \in DOMAIN toolOrder : toolOrder[i] = i - 1
  BY DEF DeltasAreWhatWasSaid
<1>1. /\ \A x : Reassembled(x) = DeltasIn(events, x)
      /\ \A kind : Items(kind) = ItemsIn(events, kind)
  BY AsTheClientReads
<1>2. /\ saidText = text /\ Len(toolOrder) = Len(saidCalls) /\ Len(saidCalls) \in Nat
      /\ \A i \in 1..Len(saidCalls) :
           /\ toolOrder[i] = i - 1 /\ i - 1 \in DOMAIN tools
           /\ saidCalls[i].args = tools[i - 1].args
  BY AllConsumed
<1> DEFINE ms == Items("added_message")
<1> DEFINE cs == Items("added_call")
<1>3. ms = IF textIdx = NoItem THEN <<>> ELSE <<textIdx>>
  BY <1>1 DEF LogSays, ItemsSay
<1>4. cs = [i \in 1..Len(toolOrder) |-> tools[toolOrder[i]].idx]
  BY <1>1 DEF LogSays, ItemsSay
<1>5. /\ textIdx = NoItem => text = <<>>
      /\ textIdx # NoItem => text # <<>> /\ DeltasIn(events, textIdx) = text
  BY DEF LogSays, TextSays
<1> HIDE DEF ms, cs
<1>6. /\ Len(ms) = IF saidText = <<>> THEN 0 ELSE 1
      /\ \A i \in DOMAIN ms : Reassembled(ms[i]) = saidText
  <2>1. CASE textIdx = NoItem
    <3>1. ms = <<>>
      BY <1>3, <2>1
    <3>2. DOMAIN ms = {} /\ Len(ms) = 0
      BY <3>1, Tuples
    <3> QED BY <1>2, <1>5, <2>1, <3>2
  <2>2. CASE textIdx # NoItem
    <3>1. ms = <<textIdx>>
      BY <1>3, <2>2
    <3>2. Len(ms) = 1 /\ ms[1] = textIdx /\ IsSeq(ms)
      BY <3>1, Tuples
    <3>3. \A i \in DOMAIN ms : i = 1
      BY <3>2 DEF IsSeq
    <3> QED BY <1>1, <1>2, <1>5, <2>2, <3>2, <3>3
  <2> QED BY <2>1, <2>2
<1>7. Len(cs) = Len(saidCalls) /\ DOMAIN cs = 1..Len(saidCalls)
  <2>1. cs = [i \in 1..Len(saidCalls) |-> cs[i]]
    BY <1>2, <1>4
  <2> QED BY <1>2, <2>1, MappedIsSeq
<1>8. ASSUME NEW i \in DOMAIN cs PROVE Reassembled(cs[i]) = saidCalls[i].args
  <2>1. i \in 1..Len(saidCalls) /\ cs[i] = tools[i - 1].idx
    BY <1>2, <1>4, <1>7
  <2>2. i - 1 \in DOMAIN tools /\ saidCalls[i].args = tools[i - 1].args
    BY <1>2, <2>1
  <2>3. DeltasIn(events, tools[i - 1].idx) = tools[i - 1].args
    BY <2>2 DEF LogSays, CallsSay
  <2> QED BY <1>1, <2>1, <2>2, <2>3
<1>9. \A i \in DOMAIN toolOrder : toolOrder[i] = i - 1
  <2>1. DOMAIN toolOrder = 1..Len(toolOrder)
    BY DEF StreamOK, OrderOK, IsSeq
  <2> QED BY <1>2, <2>1
<1> QED BY <1>6, <1>7, <1>8, <1>9 DEF ms, cs

\* One response: the client is told what the provider said, whatever its
\* dialect, whatever order and grouping its fragments come in, and whichever
\* providers failed before it (consume, appendText, appendToolCall, the three
\* DecodeStreams, attemptChain).
THEOREM OneStreamSaysWhatWasSaid == Spec => []DeltasAreWhatWasSaid
<1>1. Init => StreamOK /\ LogSays /\ SaidOK /\ DecoderOK
  BY InitOK, InitSays, InitSaid
<1>2. StreamOK /\ LogSays /\ SaidOK /\ DecoderOK /\ [Next]_vars
        => StreamOK' /\ LogSays' /\ SaidOK' /\ DecoderOK'
  BY NextOK, NextSays, NextSaid
<1> QED BY <1>1, <1>2, WhatWasSaid, PTL DEF Spec

\* A step of an agent is one of its stream, the start of another stream, or none.
LEMMA AgentStreams ==
    ASSUME [AgentNext]_allVars PROVE [Next]_vars \/ StartOver
BY DEF AgentNext, Stream, TurnEnds, Says, HandleResponses, ToolReturns, allVars

\* So is every response of a client that asks again and again.
THEOREM EveryStreamSaysWhatWasSaid == AgentSpec => []DeltasAreWhatWasSaid
<1>1. AgentInit => StreamOK /\ LogSays /\ SaidOK /\ DecoderOK
  BY InitOK, InitSays, InitSaid DEF AgentInit
<1>2. StreamOK /\ LogSays /\ SaidOK /\ DecoderOK /\ [AgentNext]_allVars
        => StreamOK' /\ LogSays' /\ SaidOK' /\ DecoderOK'
  BY AgentStreams, NextOK, NextSays, NextSaid, StartOverOK, StartOverSays, StartOverSaid
<1> QED BY <1>1, <1>2, WhatWasSaid, PTL DEF AgentSpec

(***************************************************************************)
(* The done events and the output of finish.                               *)
(***************************************************************************)

\* What an item's done events say: what its deltas said, and what the output
\* holds.
Dones == {"text_done", "args_done", "item_done"}

DoneSays(e, L, out) ==
    /\ e.kind \in {"text_done", "args_done"} => e.data = DeltasIn(L, e.at)
    /\ e.kind = "item_done" => /\ e.data[1].data = DeltasIn(L, e.at)
                               /\ \E k \in 1..Len(out) : e.data[1] = out[k]

DonesSay(L, out) == \A i \in 1..Len(L) : DoneSays(L[i], L, out)

\* A log that closes nothing.
Plain(L) == IsSeq(L) /\ \A i \in 1..Len(L) : L[i].kind \notin Dones

\* How the output begins, and what finish writes of the j-th call.
Texts == IF textIdx # NoItem THEN 1 ELSE 0
Written(j) == FunctionCall(tools[toolOrder[j]].head, tools[toolOrder[j]].args)

OutputSays ==
    /\ textIdx # NoItem => Len(output) >= 1 /\ output[1] = Message(text)
    /\ \A j \in 1..Closed : output[Texts + j] = Written(j)

Closing == {"closing_calls", "completed"}

FinishOK ==
    /\ phase \notin Closing => Plain(events)
    /\ DonesSay(events, output)
    /\ phase \in Closing => OutputSays
    /\ phase = "completed" => Closed = Len(toolOrder)

LEMMA PlainSays == ASSUME NEW L, NEW out, Plain(L) PROVE DonesSay(L, out)
BY DEF Plain, DonesSay, DoneSays, Dones

LEMMA PlainJoined == ASSUME NEW p, NEW q, Plain(p), Plain(q) PROVE Plain(p \o q)
<1> DEFINE r == p \o q
<1>1. /\ IsSeq(r) /\ Len(r) = Len(p) + Len(q)
      /\ \A i \in 1..Len(p) : r[i] = p[i]
      /\ \A i \in 1..Len(q) : r[Len(p) + i] = q[i]
  BY Joined DEF Plain
<1>2. Len(p) \in Nat /\ Len(q) \in Nat
  BY DEF Plain, IsSeq
<1> HIDE DEF r
<1>3. ASSUME NEW i \in 1..Len(r) PROVE r[i].kind \notin Dones
  <2>1. CASE i \in 1..Len(p)
    BY <1>1, <2>1 DEF Plain
  <2>2. CASE i \notin 1..Len(p)
    <3> DEFINE j == i - Len(p)
    <3>1. j \in 1..Len(q) /\ i = Len(p) + j
      BY <1>1, <1>2, <2>2
    <3> HIDE DEF j
    <3>2. r[i] = q[j]
      BY <1>1, <3>1
    <3> QED BY <3>1, <3>2 DEF Plain
  <2> QED BY <2>1, <2>2
<1> QED BY <1>1, <1>3 DEF Plain, r

LEMMA PlainTuples ==
    /\ Plain(<<>>)
    /\ \A a : a.kind \notin Dones => Plain(<<a>>)
    /\ \A a, b : a.kind \notin Dones /\ b.kind \notin Dones => Plain(<<a, b>>)
<1>1. Plain(<<>>)
  BY Tuples DEF Plain
<1>2. ASSUME NEW a, a.kind \notin Dones PROVE Plain(<<a>>)
  BY <1>2, Tuples DEF Plain
<1>3. ASSUME NEW a, NEW b, a.kind \notin Dones, b.kind \notin Dones PROVE Plain(<<a, b>>)
  <2>1. <<a, b>> = <<a>> \o <<b>>
    BY OneAndOne
  <2>2. Plain(<<a>>) /\ Plain(<<b>>)
    BY <1>2, <1>3, Tuples DEF Plain
  <2> QED BY <2>1, <2>2, PlainJoined
<1> QED BY <1>1, <1>2, <1>3

\* Sending what closes nothing.
LEMMA PlainSent ==
    ASSUME StreamOK, NEW es, Plain(events), Plain(es), Send(es)
    PROVE  Plain(events')
<1>1. IsSeq(events) /\ IsSeq(es) /\ seq = Len(events) /\ Len(events) \in Nat /\ Len(es) \in Nat
  BY DEF StreamOK, Plain, IsSeq
<1>2. /\ IsSeq(events') /\ Len(events') = Len(events) + Len(es)
      /\ \A i \in 1..Len(events) : events'[i] = events[i]
      /\ \A i \in 1..Len(es) : events'[Len(events) + i].kind = es[i].kind
  BY <1>1, Sent
<1>3. ASSUME NEW i \in 1..Len(events') PROVE events'[i].kind \notin Dones
  <2>1. CASE i \in 1..Len(events)
    BY <1>2, <2>1 DEF Plain
  <2>2. CASE i \notin 1..Len(events)
    <3> DEFINE j == i - Len(events)
    <3>1. j \in 1..Len(es) /\ i = Len(events) + j
      BY <1>1, <1>2, <2>2
    <3> HIDE DEF j
    <3> QED BY <1>2, <3>1 DEF Plain
  <2> QED BY <2>1, <2>2
<1> QED BY <1>2, <1>3 DEF Plain

\* begin closes nothing,
LEMMA PlainOpening == Plain(Opening)
<1>1. CASE started
  BY <1>1, PlainTuples DEF Opening
<1>2. CASE ~started
  <2> DEFINE a == Event("created", NoItem, <<>>)
  <2> DEFINE b == Event("in_progress", NoItem, <<>>)
  <2>1. Opening = <<a, b>>
    BY <1>2 DEF Opening
  <2>2. a.kind \notin Dones /\ b.kind \notin Dones
    BY EventParts DEF Dones
  <2> HIDE DEF a, b
  <2> QED BY <2>1, <2>2, PlainTuples
<1> QED BY <1>1, <1>2

\* nor does what consume sends, nor a failure.
LEMMA ConsumePlain ==
    ASSUME StreamOK, LogSays, Plain(events), Consume \/ Fail
    PROVE  Plain(events')
<1>1. CASE ConsumeBegin
  BY <1>1, PlainOpening, PlainSent DEF ConsumeBegin
<1>2. CASE AppendText
  <2> DEFINE at == IF textIdx = NoItem THEN nextIdx ELSE textIdx
  <2> DEFINE a == Event("added_message", at, <<>>)
  <2> DEFINE b == Event("part_added", at, <<>>)
  <2> DEFINE c == Event("text_delta", at, <<Head(pending).frag>>)
  <2>1. Send((IF textIdx = NoItem THEN <<a, b>> ELSE <<>>) \o <<c>>)
    BY <1>2 DEF AppendText
  <2>2. a.kind \notin Dones /\ b.kind \notin Dones /\ c.kind \notin Dones
    BY EventParts DEF Dones
  <2> HIDE DEF a, b, c
  <2> DEFINE p == IF textIdx = NoItem THEN <<a, b>> ELSE <<>>
  <2> DEFINE q == <<c>>
  <2>3. Send(p \o q)
    BY <2>1
  <2>4. Plain(p) /\ Plain(q)
    BY <2>2, PlainTuples
  <2> HIDE DEF p, q
  <2>5. Plain(p \o q)
    BY <2>4, PlainJoined
  <2> QED BY <2>3, <2>5, PlainSent
<1>3. CASE AppendToolCall
  <2> DEFINE a == Event("added_call", Call.idx, <<Piece.head>>)
  <2> DEFINE b == Event("args_delta", Call.idx, <<Piece.frag>>)
  <2>1. Send(CallEvents(IsNew, a, Piece.frag, b))
    BY <1>3 DEF AppendToolCall, CallEvents, Key, Piece, Call, IsNew
  <2>2. a.kind \notin Dones /\ b.kind \notin Dones
    BY EventParts DEF Dones
  <2> HIDE DEF a, b
  <2> DEFINE p == IF IsNew THEN <<a>> ELSE <<>>
  <2> DEFINE q == IF Piece.frag # Nothing THEN <<b>> ELSE <<>>
  <2>3. Send(p \o q)
    BY <2>1 DEF CallEvents
  <2>4. Plain(p) /\ Plain(q)
    BY <2>2, PlainTuples
  <2> HIDE DEF p, q
  <2>5. Plain(p \o q)
    BY <2>4, PlainJoined
  <2> QED BY <2>3, <2>5, PlainSent
<1>4. CASE Fail
  <2> DEFINE a == Event("failed", NoItem, output)
  <2>1. Send(<<a>>)
    BY <1>4 DEF Fail
  <2>2. a.kind \notin Dones
    BY EventParts DEF Dones
  <2> HIDE DEF a
  <2>3. Plain(<<a>>)
    BY <2>2, PlainTuples
  <2> QED BY <2>1, <2>3, PlainSent
<1> QED BY <1>1, <1>2, <1>3, <1>4 DEF Consume

\* A log that goes on, without deltas, beside an output that grows.
LEMMA DonesFollow ==
    ASSUME NEW L, NEW es, NEW M, NEW out, NEW more, Followed(L, es, M), DonesSay(L, out),
           \A x : DeltasIn(M, x) = DeltasIn(L, x),
           \A k \in 1..Len(out) : k \in 1..Len(more) /\ more[k] = out[k],
           \A i \in 1..Len(es) : DoneSays(es[i], L, more)
    PROVE  DonesSay(M, more)
<1> SUFFICES ASSUME NEW i \in 1..Len(M)
             PROVE  DoneSays(M[i], M, more)
  BY DEF DonesSay
<1>1. Len(L) \in Nat /\ Len(es) \in Nat /\ Len(M) = Len(L) + Len(es)
  BY DEF Followed, DataSeqs, IsSeq
<1>2. CASE i \in 1..Len(L)
  <2>1. M[i] = L[i] /\ DoneSays(L[i], L, out)
    BY <1>2 DEF Followed, DonesSay
  <2> DEFINE e == L[i]
  <2>2. DoneSays(e, L, out) /\ M[i] = e
    BY <2>1
  <2> HIDE DEF e
  <2>3. DoneSays(e, M, more)
    BY <2>2 DEF DoneSays
  <2> QED BY <2>2, <2>3
<1>3. CASE i \notin 1..Len(L)
  <2> DEFINE j == i - Len(L)
  <2>1. j \in 1..Len(es) /\ i = Len(L) + j
    BY <1>1, <1>3
  <2> HIDE DEF j
  <2>2. M[i].kind = es[j].kind /\ M[i].at = es[j].at /\ M[i].data = es[j].data
    BY <2>1 DEF Followed
  <2>3. DoneSays(es[j], L, more)
    BY <2>1
  <2> QED BY <2>2, <2>3 DEF DoneSays
<1> QED BY <1>2, <1>3

\* A step before the items are closed, or after a failure.
LEMMA PlainFinish == ASSUME Plain(events'), phase' \notin Closing PROVE FinishOK'
<1>1. DonesSay(events', output')
  BY PlainSays
<1>2. phase' # "completed"
  BY DEF Closing
<1> QED BY <1>1, <1>2 DEF FinishOK

\* finish, first step: nothing is closed yet.
LEMMA FinishOpenFinish == ASSUME StreamOK, FinishOK, FinishOpen PROVE FinishOK'
<1>1. /\ phase = "opening" /\ Send(Opening) /\ UNCHANGED itemVars
      /\ phase' = IF textIdx # NoItem THEN "closing_text" ELSE "closing_calls"
  BY DEF FinishOpen
<1>2. Plain(events) /\ Len(output) = 0
  BY <1>1 DEF FinishOK, Closing, StreamOK, DoneOK
<1>3. Plain(events')
  BY <1>1, <1>2, PlainOpening, PlainSent
<1>4. CASE textIdx # NoItem
  BY <1>1, <1>3, <1>4, PlainFinish DEF Closing
<1>5. CASE textIdx = NoItem
  <2>1. phase' = "closing_calls" /\ textIdx' = NoItem /\ output' = output
    BY <1>1, <1>5 DEF itemVars
  <2>2. Closed' = 0
    BY <1>2, <2>1 DEF Closed
  <2>3. OutputSays'
    BY <2>1, <2>2 DEF OutputSays
  <2>4. DonesSay(events', output')
    BY <1>3, PlainSays
  <2> QED BY <2>1, <2>3, <2>4 DEF FinishOK, Closing
<1> QED BY <1>4, <1>5

\* The text item is closed with the text.
LEMMA CloseTextFinish == ASSUME StreamOK, LogSays, FinishOK, CloseText PROVE FinishOK'
<1> DEFINE m == Message(text)
<1> DEFINE a == Event("text_done", textIdx, text)
<1> DEFINE b == Event("part_done", textIdx, text)
<1> DEFINE c == Event("item_done", textIdx, <<m>>)
<1>1. /\ phase = "closing_text" /\ phase' = "closing_calls" /\ output' = Append(output, m)
      /\ Send(<<a, b, c>>) /\ UNCHANGED <<textIdx, text, tools, toolOrder>>
  BY DEF CloseText
<1>2. textIdx # NoItem /\ Len(output) = 0 /\ IsSeq(output)
  BY <1>1 DEF StreamOK, DoneOK, OrderOK
<1>3. DeltasIn(events, textIdx) = text /\ IsSeq(text) /\ DataSeqs(events)
  BY <1>2 DEF LogSays, TextSays
<1>4. m.data = text
  BY DEF Message
<1> HIDE DEF m
<1>5. /\ a.kind = "text_done" /\ a.at = textIdx /\ a.data = text
      /\ b.kind = "part_done" /\ b.data = text
      /\ c.kind = "item_done" /\ c.at = textIdx /\ c.data = <<m>> /\ c.data[1] = m /\ IsSeq(c.data)
  BY EventParts, Tuples
<1> HIDE DEF a, b, c
<1> DEFINE es == <<a, b, c>>
<1>6. Send(es) /\ DataSeqs(es) /\ Len(es) = 3 /\ es[1] = a /\ es[2] = b /\ es[3] = c
  BY <1>1, <1>3, <1>5, ShortLogs, Tuples
<1> HIDE DEF es
<1>7. \A i \in 1..Len(es) : es[i] = a \/ es[i] = b \/ es[i] = c
  BY <1>6
<1>8. Followed(events, es, events')
  BY <1>3, <1>6, SentData
<1>9. \A x : DeltasIn(events', x) = DeltasIn(events, x)
  <2>1. \A i \in 1..Len(es) : es[i].kind \notin Deltas
    BY <1>5, <1>7 DEF Deltas
  <2> QED BY <1>3, <1>6, <2>1, DeltasKept
<1>10. Len(output') = 1 /\ output'[1] = m
  BY <1>1, <1>2, Appended
<1>11. \A i \in 1..Len(es) : DoneSays(es[i], events, output')
  <2>1. DoneSays(a, events, output')
    BY <1>3, <1>5 DEF DoneSays
  <2>2. DoneSays(b, events, output')
    BY <1>5 DEF DoneSays
  <2>3. DoneSays(c, events, output')
    BY <1>3, <1>4, <1>5, <1>10 DEF DoneSays
  <2> QED BY <1>7, <2>1, <2>2, <2>3
<1>12. DonesSay(events', output')
  <2>1. \A k \in 1..Len(output) : k \in 1..Len(output') /\ output'[k] = output[k]
    BY <1>2
  <2>2. DonesSay(events, output)
    BY DEF FinishOK
  <2> QED BY <1>8, <1>9, <1>11, <2>1, <2>2, DonesFollow
<1>13. OutputSays'
  <2>1. Closed' = 0 /\ Message(text') = m
    BY <1>1, <1>2, <1>10 DEF Closed, m
  <2> QED BY <1>10, <2>1 DEF OutputSays
<1> QED BY <1>1, <1>12, <1>13 DEF FinishOK, Closing

\* A call is closed with its arguments, after those before it.
LEMMA CloseCallFinish == ASSUME StreamOK, LogSays, FinishOK, CloseCall PROVE FinishOK'
<1> DEFINE n == Closed + 1
<1> DEFINE k == toolOrder[n]
<1> DEFINE m == FunctionCall(tools[k].head, tools[k].args)
<1> DEFINE a == Event("args_done", tools[k].idx, tools[k].args)
<1> DEFINE b == Event("item_done", tools[k].idx, <<m>>)
<1>1. /\ phase = "closing_calls" /\ phase' = phase /\ output' = Append(output, m)
      /\ Send(<<a, b>>) /\ UNCHANGED <<textIdx, text, tools, toolOrder>>
  BY DEF CloseCall, gateway
<1>2. /\ Closed \in 0..Len(toolOrder) /\ Closed < Len(toolOrder) /\ Len(toolOrder) \in Nat /\ IsSeq(output)
  BY DEF StreamOK, DoneOK, OrderOK, IsSeq, CloseCall
<1>3. n \in 1..Len(toolOrder) /\ Closed \in Nat
  BY <1>2
<1>4. k \in DOMAIN tools
  BY <1>3 DEF StreamOK, OrderOK
<1>5. IsSeq(tools[k].args) /\ DeltasIn(events, tools[k].idx) = tools[k].args /\ DataSeqs(events)
  BY <1>4 DEF LogSays, CallsSay
<1>6. m.data = tools[k].args
  BY DEF FunctionCall
<1>7. m = Written(n)
  BY DEF Written
<1> DEFINE at == tools[k].idx
<1> DEFINE args == tools[k].args
<1> HIDE DEF m, k, n
<1>8. /\ a.kind = "args_done" /\ a.at = at /\ a.data = args
      /\ b.kind = "item_done" /\ b.at = at /\ b.data = <<m>> /\ b.data[1] = m /\ IsSeq(b.data)
  BY EventParts, Tuples
<1>9. IsSeq(args) /\ DeltasIn(events, at) = args /\ m.data = args
  BY <1>5, <1>6
<1> HIDE DEF a, b, at, args
<1> DEFINE es == <<a, b>>
<1>10. Send(es) /\ DataSeqs(es) /\ Len(es) = 2 /\ es[1] = a /\ es[2] = b
  BY <1>1, <1>8, <1>9, ShortLogs, Tuples
<1> HIDE DEF es
<1>11. \A i \in 1..Len(es) : es[i] = a \/ es[i] = b
  BY <1>10
<1>12. Followed(events, es, events')
  BY <1>5, <1>10, SentData
<1>13. \A x : DeltasIn(events', x) = DeltasIn(events, x)
  <2>1. \A i \in 1..Len(es) : es[i].kind \notin Deltas
    BY <1>8, <1>11 DEF Deltas
  <2> QED BY <1>5, <1>10, <2>1, DeltasKept
<1>14. /\ Len(output') = Len(output) + 1 /\ output'[Len(output) + 1] = m /\ Len(output) \in Nat
       /\ \A i \in 1..Len(output) : output'[i] = output[i]
  BY <1>1, <1>2, Appended DEF IsSeq
<1>15. \A i \in 1..Len(es) : DoneSays(es[i], events, output')
  <2>1. DoneSays(a, events, output')
    BY <1>8, <1>9 DEF DoneSays
  <2>2. Len(output) + 1 \in 1..Len(output')
    BY <1>14
  <2>3. DoneSays(b, events, output')
    BY <1>8, <1>9, <1>14, <2>2 DEF DoneSays
  <2> QED BY <1>11, <2>1, <2>3
<1>16. DonesSay(events', output')
  <2>1. \A i \in 1..Len(output) : i \in 1..Len(output') /\ output'[i] = output[i]
    BY <1>14
  <2>2. DonesSay(events, output)
    BY DEF FinishOK
  <2> QED BY <1>12, <1>13, <1>15, <2>1, <2>2, DonesFollow
<1>17. OutputSays'
  <2>1. OutputSays
    BY <1>1 DEF FinishOK, Closing
  <2>2. Texts' = Texts /\ Texts \in {0, 1} /\ Closed = Len(output) - Texts /\ Closed' = Len(output') - Texts
    BY <1>1 DEF Texts, Closed
  <2>3. Closed' = n /\ n = Closed + 1 /\ Texts + n = Len(output) + 1
    BY <1>3, <1>14, <2>2 DEF n
  <2>4. ASSUME NEW j \in 1..n PROVE output'[Texts + j] = Written(j)
    <3>1. CASE j = n
      BY <1>7, <1>14, <2>3, <3>1
    <3>2. CASE j # n
      <4>1. j \in 1..Closed /\ Texts + j \in 1..Len(output)
        BY <1>3, <2>2, <2>3, <3>2
      <4>2. output[Texts + j] = Written(j)
        BY <2>1, <4>1 DEF OutputSays
      <4> QED BY <1>14, <4>1, <4>2
    <3> QED BY <3>1, <3>2
  <2>5. \A j : Written(j)' = Written(j)
    BY <1>1 DEF Written
  <2>6. textIdx # NoItem => Len(output') >= 1 /\ output'[1] = Message(text)
    <3>1. textIdx # NoItem => Len(output) >= 1 /\ output[1] = Message(text)
      BY <2>1 DEF OutputSays
    <3> QED BY <1>14, <3>1
  <2>7. UNCHANGED <<textIdx, text>>
    BY <1>1
  <2> QED BY <2>2, <2>3, <2>4, <2>5, <2>6, <2>7 DEF OutputSays
<1> QED BY <1>1, <1>16, <1>17 DEF FinishOK, Closing

\* The response ends when every call is closed.
LEMMA CompleteFinish == ASSUME StreamOK, LogSays, FinishOK, Complete PROVE FinishOK'
<1> DEFINE a == Event("completed", NoItem, output)
<1>1. /\ phase = "closing_calls" /\ phase' = "completed" /\ Send(<<a>>) /\ Closed = Len(toolOrder)
      /\ UNCHANGED <<textIdx, text, tools, toolOrder, output>>
  BY DEF Complete, itemVars
<1>2. a.kind = "completed" /\ IsSeq(a.data)
  BY EventParts DEF StreamOK, OrderOK
<1> HIDE DEF a
<1> DEFINE es == <<a>>
<1>3. Send(es) /\ DataSeqs(es) /\ Len(es) = 1 /\ es[1] = a
  BY <1>1, <1>2, ShortLogs, Tuples
<1> HIDE DEF es
<1>4. \A i \in 1..Len(es) : es[i].kind = "completed"
  BY <1>2, <1>3
<1>5. DataSeqs(events) /\ DonesSay(events, output) /\ OutputSays
  BY <1>1 DEF LogSays, FinishOK, Closing
<1>6. Followed(events, es, events')
  BY <1>3, <1>5, SentData
<1>7. \A x : DeltasIn(events', x) = DeltasIn(events, x)
  <2>1. \A i \in 1..Len(es) : es[i].kind \notin Deltas
    BY <1>4 DEF Deltas
  <2> QED BY <1>3, <1>5, <2>1, DeltasKept
<1>8. \A i \in 1..Len(es) : DoneSays(es[i], events, output)
  BY <1>4 DEF DoneSays
<1>9. DonesSay(events', output)
  BY <1>5, <1>6, <1>7, <1>8, DonesFollow
<1>10. OutputSays' /\ (Closed = Len(toolOrder))'
  BY <1>1, <1>5 DEF OutputSays, Closed, Texts, Written
<1> QED BY <1>1, <1>9, <1>10 DEF FinishOK, Closing

LEMMA NextFinish ==
    ASSUME StreamOK, LogSays, FinishOK, [Next]_vars
    PROVE  FinishOK'
<1>1. CASE UNCHANGED vars
  <2>1. UNCHANGED <<phase, events, output, textIdx, text, tools, toolOrder>>
    BY <1>1 DEF vars, gateway, itemVars
  <2>2. DonesSay(events', output') /\ (phase' \notin Closing => Plain(events'))
    BY <2>1 DEF FinishOK
  <2>3. (phase' \in Closing => OutputSays') /\ (phase' = "completed" => (Closed = Len(toolOrder))')
    BY <2>1 DEF FinishOK, OutputSays, Closed, Texts, Written
  <2> QED BY <2>2, <2>3 DEF FinishOK
<1>2. CASE Dial \/ Speak \/ UpstreamEnds \/ UpstreamFails
  <2>1. events' = events /\ phase \notin Closing /\ phase' \notin Closing
    BY <1>2 DEF Dial, Speak, UpstreamEnds, UpstreamFails, Reading, Closing
  <2>2. Plain(events')
    BY <2>1 DEF FinishOK
  <2> QED BY <2>1, <2>2, PlainFinish
<1>3. CASE Consume \/ Fail
  <2>1. phase \notin Closing /\ phase' \notin Closing
    BY <1>3 DEF Consume, ConsumeBegin, AppendText, AppendToolCall, Fail, gateway, Closing
  <2>2. Plain(events)
    BY <2>1 DEF FinishOK
  <2>3. Plain(events')
    BY <1>3, <2>2, ConsumePlain
  <2> QED BY <2>1, <2>3, PlainFinish
<1> QED BY <1>1, <1>2, <1>3, FinishOpenFinish, CloseTextFinish, CloseCallFinish, CompleteFinish
        DEF Next, Finish

LEMMA InitFinish == /\ Init => FinishOK
                    /\ StartOver => FinishOK'
<1>1. ASSUME Init PROVE FinishOK
  <2>1. events = <<>> /\ phase = "dialling"
    BY <1>1 DEF Init
  <2>2. Plain(events)
    BY <2>1, PlainTuples
  <2>3. DonesSay(events, output)
    BY <2>2, PlainSays
  <2> QED BY <2>1, <2>2, <2>3 DEF FinishOK, Closing
<1>2. ASSUME StartOver PROVE FinishOK'
  <2>1. events' = <<>> /\ phase' = "dialling"
    BY <1>2 DEF StartOver
  <2>2. Plain(events')
    BY <2>1, PlainTuples
  <2> QED BY <2>1, <2>2, PlainFinish DEF Closing
<1> QED BY <1>1, <1>2

\* The answer given whole: the text, then the calls.
WholeText == IF saidText = <<>> THEN <<>> ELSE <<Message(saidText)>>
WholeArgs(k) ==
    IF saidCalls[k].args = <<>> /\ adapter \in {"anthropic", "google"}
    THEN EmptyObject ELSE saidCalls[k].args
WholeCall(k) == FunctionCall(IF saidCalls[k].head THEN k ELSE Nothing, WholeArgs(k))
WholeCalls == [k \in DOMAIN saidCalls |-> WholeCall(k)]

LEMMA WholeParts ==
    ASSUME SaidOK, LogSays, saidText = text
    PROVE  /\ Len(ResponsesFromChat) = Texts + Len(saidCalls) /\ Texts \in {0, 1} /\ Len(saidCalls) \in Nat
           /\ Texts = 1 => textIdx # NoItem /\ ResponsesFromChat[1] = Message(text)
           /\ \A j \in 1..Len(saidCalls) : ResponsesFromChat[Texts + j] = WholeCall(j)
<1>1. ResponsesFromChat = WholeText \o WholeCalls
  BY DEF ResponsesFromChat, WholeText, WholeCalls, WholeCall, WholeArgs
<1>2. Len(saidCalls) \in Nat /\ DOMAIN saidCalls = 1..Len(saidCalls)
  BY DEF SaidOK, CallsSaid, IsSeq
<1> DEFINE p == WholeText
<1> DEFINE q == WholeCalls
<1>3. IsSeq(q) /\ Len(q) = Len(saidCalls) /\ \A j \in 1..Len(saidCalls) : q[j] = WholeCall(j)
  <2>1. \A j \in 1..Len(saidCalls) : q[j] = WholeCall(j)
    BY <1>2 DEF WholeCalls
  <2>2. q = [j \in 1..Len(saidCalls) |-> q[j]]
    BY <1>2 DEF WholeCalls
  <2> HIDE DEF q
  <2> QED BY <1>2, <2>1, <2>2, MappedIsSeq
<1>4. /\ textIdx = NoItem => text = <<>>
      /\ textIdx # NoItem => text # <<>>
  BY DEF LogSays, TextSays
<1>5. IsSeq(p) /\ Len(p) = Texts /\ Texts \in {0, 1} /\ (Texts = 1 => textIdx # NoItem /\ p[1] = Message(text))
  <2>1. CASE textIdx = NoItem
    <3>1. p = <<>> /\ Texts = 0
      BY <1>4, <2>1 DEF WholeText, Texts
    <3> QED BY <3>1, Tuples
  <2>2. CASE textIdx # NoItem
    <3>1. p = <<Message(text)>> /\ Texts = 1
      BY <1>4, <2>2 DEF WholeText, Texts
    <3> QED BY <2>2, <3>1, Tuples
  <2> QED BY <2>1, <2>2
<1> HIDE DEF p, q
<1>6. /\ Len(p \o q) = Len(p) + Len(q)
      /\ \A i \in 1..Len(p) : (p \o q)[i] = p[i]
      /\ \A i \in 1..Len(q) : (p \o q)[Len(p) + i] = q[i]
  BY <1>3, <1>5, Joined
<1>7. ResponsesFromChat = p \o q
  BY <1>1 DEF p, q
<1>8. Texts = 1 => ResponsesFromChat[1] = Message(text)
  <2> HAVE Texts = 1
  <2>1. 1 \in 1..Len(p)
    BY <1>5
  <2> QED BY <1>5, <1>6, <1>7, <2>1
<1> QED BY <1>2, <1>3, <1>5, <1>6, <1>7, <1>8

LEMMA AsWhole == StreamOK /\ LogSays /\ SaidOK /\ FinishOK => StreamedAsWhole
<1> SUFFICES ASSUME StreamOK, LogSays, SaidOK, FinishOK, phase = "completed"
             PROVE  /\ Len(output) = Len(ResponsesFromChat)
                    /\ \A i \in DOMAIN output :
                          \/ output[i] = ResponsesFromChat[i]
                          \/ /\ ResponsesFromChat[i].data = EmptyObject
                             /\ output[i] = [ResponsesFromChat[i] EXCEPT !.data = <<>>]
                    /\ \A i \in At({"text_done", "args_done"}) :
                          events[i].data = Reassembled(events[i].at)
                    /\ \A i \in At({"item_done"}) :
                          /\ events[i].data[1].data = Reassembled(events[i].at)
                          /\ \E k \in DOMAIN output : events[i].data[1] = output[k]
  BY DEF StreamedAsWhole
<1>1. pending = <<>>
  BY DEF SaidOK, NothingWaits
<1>2. /\ saidText = text /\ Len(toolOrder) = Len(saidCalls) /\ Len(saidCalls) \in Nat
      /\ \A i \in 1..Len(saidCalls) :
           /\ toolOrder[i] = i - 1 /\ IsSaid(saidCalls[i])
           /\ saidCalls[i].args = tools[i - 1].args
           /\ tools[i - 1].head = IF saidCalls[i].head THEN i ELSE Nothing
  BY <1>1, AllConsumed
<1>3. /\ Len(ResponsesFromChat) = Texts + Len(saidCalls) /\ Texts \in {0, 1}
      /\ Texts = 1 => textIdx # NoItem /\ ResponsesFromChat[1] = Message(text)
      /\ \A j \in 1..Len(saidCalls) : ResponsesFromChat[Texts + j] = WholeCall(j)
  BY <1>2, WholeParts
<1>4. /\ OutputSays /\ DonesSay(events, output) /\ Closed = Len(toolOrder)
  BY DEF FinishOK, Closing
<1>5. /\ DOMAIN output = 1..Len(output) /\ Len(output) \in Nat
      /\ DOMAIN events = 1..Len(events)
  BY DEF StreamOK, OrderOK, LogOK, Numbered, IsSeq
<1>6. Closed = Len(output) - Texts
  BY DEF Closed, Texts
<1>7. Len(output) = Texts + Len(saidCalls)
  BY <1>2, <1>3, <1>4, <1>5, <1>6
<1>8. \A x : Reassembled(x) = DeltasIn(events, x)
  BY AsTheClientReads
<1>9. ASSUME NEW j \in 1..Len(saidCalls)
      PROVE  \/ Written(j) = WholeCall(j)
             \/ WholeCall(j).data = EmptyObject /\ Written(j) = [WholeCall(j) EXCEPT !.data = <<>>]
  <2> DEFINE h == tools[j - 1].head
  <2> DEFINE a == tools[j - 1].args
  <2>1. Written(j) = FunctionCall(h, a)
    BY <1>2 DEF Written
  <2>2. WholeCall(j) = FunctionCall(h, WholeArgs(j))
    BY <1>2 DEF WholeCall
  <2>3. WholeArgs(j) = a \/ (WholeArgs(j) = EmptyObject /\ a = <<>>)
    BY <1>2 DEF WholeArgs
  <2> HIDE DEF h, a
  <2>4. CASE WholeArgs(j) = a
    BY <2>1, <2>2, <2>4
  <2>5. CASE WholeArgs(j) = EmptyObject /\ a = <<>>
    <3>1. /\ FunctionCall(h, EmptyObject).data = EmptyObject
          /\ FunctionCall(h, <<>>) = [FunctionCall(h, EmptyObject) EXCEPT !.data = <<>>]
      BY DEF FunctionCall
    <3> QED BY <2>1, <2>2, <2>5, <3>1
  <2> QED BY <2>3, <2>4, <2>5
<1>10. ASSUME NEW i \in DOMAIN output
       PROVE  \/ output[i] = ResponsesFromChat[i]
              \/ /\ ResponsesFromChat[i].data = EmptyObject
                 /\ output[i] = [ResponsesFromChat[i] EXCEPT !.data = <<>>]
  <2>1. CASE Texts = 1 /\ i = 1
    BY <1>3, <1>4, <2>1 DEF OutputSays
  <2>2. CASE ~(Texts = 1 /\ i = 1)
    <3> DEFINE j == i - Texts
    <3>1. j \in 1..Len(saidCalls) /\ i = Texts + j /\ j \in 1..Closed
      BY <1>2, <1>3, <1>4, <1>5, <1>7, <2>2
    <3> HIDE DEF j
    <3>2. output[i] = Written(j) /\ ResponsesFromChat[i] = WholeCall(j)
      BY <1>3, <1>4, <3>1 DEF OutputSays
    <3> QED BY <1>9, <3>1, <3>2
  <2> QED BY <2>1, <2>2
<1>11. ASSUME NEW i \in At({"text_done", "args_done"})
       PROVE  events[i].data = Reassembled(events[i].at)
  <2>1. i \in 1..Len(events) /\ events[i].kind \in {"text_done", "args_done"}
    BY <1>5 DEF At
  <2>2. DoneSays(events[i], events, output)
    BY <1>4, <2>1 DEF DonesSay
  <2> QED BY <1>8, <2>1, <2>2 DEF DoneSays
<1>12. ASSUME NEW i \in At({"item_done"})
       PROVE  /\ events[i].data[1].data = Reassembled(events[i].at)
              /\ \E k \in DOMAIN output : events[i].data[1] = output[k]
  <2>1. i \in 1..Len(events) /\ events[i].kind = "item_done"
    BY <1>5 DEF At
  <2>2. DoneSays(events[i], events, output)
    BY <1>4, <2>1 DEF DonesSay
  <2> QED BY <1>5, <1>8, <2>1, <2>2 DEF DoneSays
<1> QED BY <1>3, <1>7, <1>10, <1>11, <1>12

\* One response: what response.completed carries is what the same answer would
\* have given without streaming, and every item is closed with what its own
\* deltas said (finish against responsesFromChat).
THEOREM OneStreamAsWhole == Spec => []StreamedAsWhole
<1>1. Init => StreamOK /\ LogSays /\ SaidOK /\ DecoderOK /\ FinishOK
  BY InitOK, InitSays, InitSaid, InitFinish
<1>2. StreamOK /\ LogSays /\ SaidOK /\ DecoderOK /\ FinishOK /\ [Next]_vars
        => StreamOK' /\ LogSays' /\ SaidOK' /\ DecoderOK' /\ FinishOK'
  BY NextOK, NextSays, NextSaid, NextFinish
<1> QED BY <1>1, <1>2, AsWhole, PTL DEF Spec

\* So is every response of a client that asks again and again.
THEOREM EveryStreamAsWhole == AgentSpec => []StreamedAsWhole
<1>1. AgentInit => StreamOK /\ LogSays /\ SaidOK /\ DecoderOK /\ FinishOK
  BY InitOK, InitSays, InitSaid, InitFinish DEF AgentInit
<1>2. StreamOK /\ LogSays /\ SaidOK /\ DecoderOK /\ FinishOK /\ [AgentNext]_allVars
        => StreamOK' /\ LogSays' /\ SaidOK' /\ DecoderOK' /\ FinishOK'
  BY AgentStreams, NextOK, NextSays, NextSaid, NextFinish, StartOverOK, StartOverSays,
     StartOverSaid, InitFinish
<1> QED BY <1>1, <1>2, AsWhole, PTL DEF AgentSpec
=============================================================================
