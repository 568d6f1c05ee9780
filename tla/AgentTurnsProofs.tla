-------------------------- MODULE AgentTurnsProofs --------------------------
(***************************************************************************)
(* What is proved of a client that asks again and again with what it was   *)
(* given, for any number of turns, items, calls and results:               *)
(*                                                                         *)
(*   NothingLost           what it replays reaches the provider            *)
(*   DialectRulesKept      and is a request each dialect accepts           *)
(*                                                                         *)
(* Both follow from ClientOK, about the conversation alone: its messages   *)
(* are in order, and only the last that calls may have calls left to       *)
(* answer.  Each loop of the translation keeps that order.  What an answer *)
(* adds to the conversation is known from ResponsesStreamProofs: text, if  *)
(* any, comes first in the output.                                         *)
(***************************************************************************)
EXTENDS ResponsesStreamProofs

(***************************************************************************)
(* The translation's loops, one step at a time.                            *)
(***************************************************************************)

\* One step of each of the translation's loops, and the results of all of
\* them.
StepOf(loop, out, x) ==
    CASE loop = "items" -> AddItem(out, x)
      [] loop = "turns" -> AddTurn(out, x)
      [] loop = "roles" -> JoinRole(out, x)
      [] OTHER -> out

LoopTo(loop, start, list, k, f) ==
    f = [n \in 0..k |-> IF n = 0 THEN start ELSE StepOf(loop, f[n - 1], list[n])]

LEMMA LoopExists ==
    ASSUME NEW loop, NEW start, NEW list, NEW n \in Nat
    PROVE  \E f : LoopTo(loop, start, list, n, f)
<1> DEFINE T == {k \in Nat : \E f : LoopTo(loop, start, list, k, f)}
<1>1. 0 \in T
  <2> DEFINE f == [i \in 0..0 |-> start]
  <2>1. f = [i \in 0..0 |-> IF i = 0 THEN start ELSE StepOf(loop, f[i - 1], list[i])]
    OBVIOUS
  <2> HIDE DEF f
  <2>2. LoopTo(loop, start, list, 0, f)
    BY <2>1 DEF LoopTo
  <2> QED BY <2>2
<1>2. ASSUME NEW k \in Nat, k \in T PROVE k + 1 \in T
  <2>1. PICK g : LoopTo(loop, start, list, k, g)
    BY <1>2
  <2> DEFINE h == [i \in 0..(k + 1) |-> IF i = k + 1 THEN StepOf(loop, g[k], list[k + 1]) ELSE g[i]]
  <2>2. ASSUME NEW i \in 0..(k + 1)
        PROVE  h[i] = IF i = 0 THEN start ELSE StepOf(loop, h[i - 1], list[i])
    <3>1. CASE i = k + 1
      <4>1. h[k] = g[k] /\ h[i] = StepOf(loop, g[k], list[k + 1]) /\ i # 0 /\ i - 1 = k
        BY <3>1
      <4> HIDE DEF h
      <4> QED BY <3>1, <4>1
    <3>2. CASE i # k + 1
      <4>1. i \in 0..k /\ h[i] = g[i] /\ (i # 0 => h[i - 1] = g[i - 1])
        BY <3>2
      <4>2. g[i] = IF i = 0 THEN start ELSE StepOf(loop, g[i - 1], list[i])
        BY <2>1, <4>1 DEF LoopTo
      <4> HIDE DEF h
      <4> QED BY <4>1, <4>2
    <3> QED BY <3>1, <3>2
  <2>3. h = [i \in 0..(k + 1) |-> h[i]]
    OBVIOUS
  <2> HIDE DEF h
  <2>4. h = [i \in 0..(k + 1) |-> IF i = 0 THEN start ELSE StepOf(loop, h[i - 1], list[i])]
    BY <2>2, <2>3
  <2>5. LoopTo(loop, start, list, k + 1, h)
    BY <2>4 DEF LoopTo
  <2> QED BY <2>5
<1>3. n \in T
  <2> HIDE DEF T
  <2> QED BY <1>1, <1>2, ByNat
<1> QED BY <1>3

\* What one loop goes through.
Goes(loop, start, list, f) ==
    /\ f[0] = start
    /\ \A n \in 1..Len(list) : f[n] = StepOf(loop, f[n - 1], list[n])

LEMMA MessagesLoop ==
    ASSUME NEW ins, NEW list, Len(list) \in Nat
    PROVE  \E f : /\ Goes("items", Briefing(ins), list, f)
                  /\ ResponsesMessages(ins, list) = f[Len(list)]
<1> DEFINE f == CHOOSE f : f = [n \in 0..Len(list) |-> IF n = 0 THEN Briefing(ins)
                                                       ELSE AddItem(f[n - 1], list[n])]
<1>1. \E g : g = [n \in 0..Len(list) |-> IF n = 0 THEN Briefing(ins) ELSE AddItem(g[n - 1], list[n])]
  <2>1. \A a, x : StepOf("items", a, x) = AddItem(a, x)
    BY DEF StepOf
  <2>2. PICK g : LoopTo("items", Briefing(ins), list, Len(list), g)
    BY LoopExists
  <2>3. g = [n \in 0..Len(list) |-> IF n = 0 THEN Briefing(ins) ELSE AddItem(g[n - 1], list[n])]
    BY <2>1, <2>2 DEF LoopTo
  <2> QED BY <2>3
<1>2. f = [n \in 0..Len(list) |-> IF n = 0 THEN Briefing(ins) ELSE AddItem(f[n - 1], list[n])]
  BY <1>1
<1>3. ResponsesMessages(ins, list) = f[Len(list)]
  BY DEF ResponsesMessages
<1> HIDE DEF f
<1>4. f[0] = Briefing(ins) /\ \A n \in 1..Len(list) : f[n] = AddItem(f[n - 1], list[n])
  BY <1>2
<1>5. Goes("items", Briefing(ins), list, f)
  BY <1>4 DEF Goes, StepOf
<1> QED BY <1>3, <1>5

LEMMA TurnsLoop ==
    ASSUME NEW msgs, Len(msgs) \in Nat
    PROVE  \E f : /\ Goes("turns", <<>>, msgs, f)
                  /\ SystemAndTurns(msgs).turns = f[Len(msgs)]
<1> DEFINE f == CHOOSE f : f = [n \in 0..Len(msgs) |-> IF n = 0 THEN <<>> ELSE AddTurn(f[n - 1], msgs[n])]
<1>1. \E g : g = [n \in 0..Len(msgs) |-> IF n = 0 THEN <<>> ELSE AddTurn(g[n - 1], msgs[n])]
  <2>1. \A a, x : StepOf("turns", a, x) = AddTurn(a, x)
    BY DEF StepOf
  <2>2. PICK g : LoopTo("turns", <<>>, msgs, Len(msgs), g)
    BY LoopExists
  <2>3. g = [n \in 0..Len(msgs) |-> IF n = 0 THEN <<>> ELSE AddTurn(g[n - 1], msgs[n])]
    BY <2>1, <2>2 DEF LoopTo
  <2> QED BY <2>3
<1>2. f = [n \in 0..Len(msgs) |-> IF n = 0 THEN <<>> ELSE AddTurn(f[n - 1], msgs[n])]
  BY <1>1
<1>3. SystemAndTurns(msgs).turns = f[Len(msgs)]
  BY DEF SystemAndTurns
<1> HIDE DEF f
<1>4. f[0] = <<>> /\ \A n \in 1..Len(msgs) : f[n] = AddTurn(f[n - 1], msgs[n])
  BY <1>2
<1>5. Goes("turns", <<>>, msgs, f)
  BY <1>4 DEF Goes, StepOf
<1> QED BY <1>3, <1>5

LEMMA RolesLoop ==
    ASSUME NEW list, Len(list) \in Nat
    PROVE  \E f : /\ Goes("roles", <<>>, list, f)
                  /\ JoinRoles(list) = f[Len(list)]
<1> DEFINE f == CHOOSE f : f = [n \in 0..Len(list) |-> IF n = 0 THEN <<>> ELSE JoinRole(f[n - 1], list[n])]
<1>1. \E g : g = [n \in 0..Len(list) |-> IF n = 0 THEN <<>> ELSE JoinRole(g[n - 1], list[n])]
  <2>1. \A a, x : StepOf("roles", a, x) = JoinRole(a, x)
    BY DEF StepOf
  <2>2. PICK g : LoopTo("roles", <<>>, list, Len(list), g)
    BY LoopExists
  <2>3. g = [n \in 0..Len(list) |-> IF n = 0 THEN <<>> ELSE JoinRole(g[n - 1], list[n])]
    BY <2>1, <2>2 DEF LoopTo
  <2> QED BY <2>3
<1>2. f = [n \in 0..Len(list) |-> IF n = 0 THEN <<>> ELSE JoinRole(f[n - 1], list[n])]
  BY <1>1
<1>3. JoinRoles(list) = f[Len(list)]
  BY DEF JoinRoles
<1> HIDE DEF f
<1>4. f[0] = <<>> /\ \A n \in 1..Len(list) : f[n] = JoinRole(f[n - 1], list[n])
  BY <1>2
<1>5. Goes("roles", <<>>, list, f)
  BY <1>4 DEF Goes, StepOf
<1> QED BY <1>3, <1>5

\* t is s with more at the end of its last element.
Grown(s, t, x) ==
    /\ IsSeqs(s) /\ IsSeq(t) /\ Len(s) # 0 /\ Len(t) = Len(s) /\ IsSeq(x)
    /\ \A i \in 1..Len(s) : i # Len(s) => t[i] = s[i]
    /\ t[Len(s)] = s[Len(s)] \o x

LEMMA FlatGrown ==
    ASSUME NEW s, NEW t, NEW x, Grown(s, t, x)
    PROVE  FlattenSeq(t) = FlattenSeq(s) \o x /\ IsSeqs(t)
<1> DEFINE n == Len(s)
<1> DEFINE r == UpTo(s, n - 1)
<1> DEFINE a == s[n]
<1> DEFINE b == t[n]
<1>0. n \in Nat /\ n # 0 /\ n - 1 \in 0..Len(s) /\ n - 1 \in Nat /\ n \in 1..n
  BY DEF Grown, IsSeqs, IsSeq
<1>1. IsSeq(a) /\ IsSeq(x) /\ b = a \o x
  BY <1>0 DEF Grown, IsSeqs
<1>2. IsSeq(r) /\ Len(r) = n - 1 /\ \A i \in 1..(n - 1) : r[i] = s[i]
  BY <1>0, FirstPart DEF Grown, IsSeqs
<1>3. IsSeq(b)
  <2> HIDE DEF a, b
  <2> QED BY <1>1, Joined
<1>4. IsSeqs(t)
  <2>1. \A i \in 1..Len(s) : IsSeq(t[i])
    BY <1>3 DEF Grown, IsSeqs
  <2> QED BY <2>1 DEF Grown, IsSeqs
<1>5. Longer(r, s, a) /\ Longer(r, t, b)
  BY <1>0, <1>2, SMTT(60) DEF Longer, Grown, IsSeqs
<1>6. IsSeqs(s)
  BY DEF Grown
<1> HIDE DEF n, r, a, b
<1>7. FlattenSeq(s) = FlattenSeq(r) \o a /\ FlattenSeq(t) = FlattenSeq(r) \o b /\ IsSeqs(r)
  BY <1>4, <1>5, <1>6, FlatLonger
<1> DEFINE p == FlattenSeq(r)
<1>8. IsSeq(p)
  BY <1>7, FlatIsSeq
<1>9. FlattenSeq(s) = p \o a /\ FlattenSeq(t) = p \o (a \o x)
  BY <1>1, <1>7
<1> HIDE DEF p
<1>10. (p \o a) \o x = p \o (a \o x)
  BY <1>1, <1>8, JoinedThrice
<1> QED BY <1>4, <1>9, <1>10

(***************************************************************************)
(* What the messages of a chat request say.                                *)
(***************************************************************************)

\* What is put together one element at a time is what FlattenSeq gives.
LEMMA FlatSteps ==
    ASSUME NEW P, IsSeqs(P), NEW g, IsSeq(g[0]),
           \A n \in 1..Len(P) : g[n] = g[n - 1] \o P[n]
    PROVE  g[Len(P)] = g[0] \o FlattenSeq(P)
<1>0. Len(P) \in Nat /\ IsSeq(P) /\ \A i \in 1..Len(P) : IsSeq(P[i])
  BY DEF IsSeqs, IsSeq
<1> DEFINE T == {n \in Nat : n =< Len(P) => g[n] = g[0] \o FlattenSeq(UpTo(P, n)) /\ IsSeqs(UpTo(P, n))}
<1>1. 0 \in T
  <2> DEFINE e == UpTo(P, 0)
  <2>1. IsSeq(e) /\ Len(e) = 0
    BY <1>0, FirstPart
  <2> HIDE DEF e
  <2>2. FlattenSeq(e) = <<>> /\ IsSeqs(e)
    BY <2>1, FlatNothing DEF IsSeqs
  <2>3. g[0] \o <<>> = g[0]
    BY JoinedNone
  <2> QED BY <2>2, <2>3 DEF e
<1>2. ASSUME NEW n \in Nat, n \in T, n + 1 =< Len(P)
      PROVE  g[n + 1] = g[0] \o FlattenSeq(UpTo(P, n + 1)) /\ IsSeqs(UpTo(P, n + 1))
  <2> DEFINE s == UpTo(P, n)
  <2> DEFINE t == UpTo(P, n + 1)
  <2> DEFINE x == P[n + 1]
  <2>1. n + 1 \in 1..Len(P) /\ n \in 0..Len(P) /\ n + 1 \in 0..Len(P) /\ (n + 1) - 1 = n
    BY <1>0, <1>2
  <2>2. g[n] = g[0] \o FlattenSeq(s) /\ IsSeqs(s)
    BY <1>0, <1>2
  <2>3. g[n + 1] = g[n] \o x /\ IsSeq(x)
    BY <1>0, <2>1
  <2>4. IsSeq(s) /\ Len(s) = n /\ \A i \in 1..n : s[i] = P[i]
    BY <1>0, <2>1, FirstPart
  <2>5. IsSeq(t) /\ Len(t) = n + 1 /\ \A i \in 1..(n + 1) : t[i] = P[i]
    BY <1>0, <2>1, FirstPart
  <2>6. IsSeqs(t)
    BY <1>0, <2>1, <2>5 DEF IsSeqs
  <2>7. Longer(s, t, x)
    BY <2>4, <2>5 DEF Longer
  <2> HIDE DEF s, t, x
  <2>8. FlattenSeq(t) = FlattenSeq(s) \o x
    BY <2>6, <2>7, FlatLonger
  <2> DEFINE p == FlattenSeq(s)
  <2> DEFINE b == g[0]
  <2>9. IsSeq(p)
    BY <2>2, FlatIsSeq
  <2>10. g[n + 1] = (b \o p) \o x /\ FlattenSeq(t) = p \o x /\ IsSeq(b)
    BY <2>2, <2>3, <2>8
  <2> HIDE DEF p, b
  <2>11. (b \o p) \o x = b \o (p \o x)
    BY <2>3, <2>9, <2>10, JoinedThrice, SMTT(60)
  <2>12. g[n + 1] = g[0] \o FlattenSeq(t) /\ IsSeqs(t)
    BY <2>6, <2>10, <2>11 DEF b
  <2> QED BY <2>12 DEF t
<1>3. Len(P) \in T
  <2>1. ASSUME NEW n \in Nat, n \in T PROVE n + 1 \in T
    <3>1. n + 1 \in Nat
      OBVIOUS
    <3> QED BY <1>2, <2>1, <3>1
  <2> HIDE DEF T
  <2> QED BY <1>0, <1>1, <2>1, ByNat
<1>4. UpTo(P, Len(P)) = P
  BY <1>0 DEF UpTo, IsSeq
<1> QED BY <1>0, <1>3, <1>4

\* What a message brings.
OfMsg(m, what) ==
    CASE what = "system" -> SystemText(m)
      [] what = "words" -> IF IsSystem(m) THEN <<>> ELSE m.text
      [] what = "ids" -> m.calls \o (IF m.answers = NoId THEN <<>> ELSE <<m.answers>>)

Matters == {"system", "words", "ids"}

\* The messages the translation makes: only an assistant calls, only a tool
\* answers, and it does.
GoodMsg(m) ==
    /\ IsSeq(m.text) /\ IsSeq(m.calls) /\ \A i \in 1..Len(m.calls) : m.calls[i] # NoId
    /\ m = [role |-> m.role, text |-> m.text, calls |-> m.calls, answers |-> m.answers]
    /\ m.role \in {"system", "developer", "user", "assistant", "tool"}
    /\ m.role # "assistant" => m.calls = <<>>
    /\ m.role # "tool" => m.answers = NoId
    /\ m.role = "tool" => m.answers # NoId

GoodMsgs(L) == IsSeq(L) /\ \A i \in 1..Len(L) : GoodMsg(L[i])

MsgParts(L, what) == [i \in DOMAIN L |-> OfMsg(L[i], what)]
Told(L, what) == FlattenSeq(MsgParts(L, what))

LEMMA OfMsgSeq == ASSUME NEW m, GoodMsg(m), NEW what \in Matters PROVE IsSeq(OfMsg(m, what))
<1>1. IsSeq(m.text) /\ IsSeq(m.calls) /\ IsSeq(<<>>)
  BY Tuples DEF GoodMsg
<1>2. CASE what = "system"
  BY <1>1, <1>2 DEF OfMsg, SystemText
<1>3. CASE what = "words"
  BY <1>1, <1>3 DEF OfMsg
<1>4. CASE what = "ids"
  <2> DEFINE a == m.calls
  <2> DEFINE b == IF m.answers = NoId THEN <<>> ELSE <<m.answers>>
  <2>1. IsSeq(a) /\ IsSeq(b)
    BY <1>1, Tuples
  <2>2. OfMsg(m, what) = a \o b
    BY <1>4 DEF OfMsg
  <2> HIDE DEF a, b
  <2> QED BY <2>1, <2>2, Joined
<1> QED BY <1>2, <1>3, <1>4 DEF Matters

LEMMA PartsAreSeqs ==
    ASSUME NEW L, GoodMsgs(L), NEW what \in Matters
    PROVE  /\ IsSeqs(MsgParts(L, what)) /\ Len(MsgParts(L, what)) = Len(L)
           /\ \A i \in 1..Len(L) : MsgParts(L, what)[i] = OfMsg(L[i], what)
           /\ IsSeq(Told(L, what))
<1> DEFINE p == MsgParts(L, what)
<1>1. DOMAIN L = 1..Len(L) /\ Len(L) \in Nat
  BY DEF GoodMsgs, IsSeq
<1>2. \A i \in 1..Len(L) : p[i] = OfMsg(L[i], what)
  BY <1>1 DEF MsgParts
<1>3. p = [i \in 1..Len(L) |-> p[i]]
  BY <1>1 DEF MsgParts
<1>4. Told(L, what) = FlattenSeq(p)
  BY DEF Told
<1> HIDE DEF p
<1>5. IsSeq(p) /\ Len(p) = Len(L)
  BY <1>1, <1>3, MappedIsSeq
<1>6. IsSeqs(p)
  BY <1>2, <1>5, OfMsgSeq DEF IsSeqs, GoodMsgs
<1> QED BY <1>2, <1>4, <1>5, <1>6, FlatIsSeq DEF p

\* One message more.
LEMMA ToldMore ==
    ASSUME NEW L, GoodMsgs(L), NEW m, GoodMsg(m)
    PROVE  /\ GoodMsgs(Append(L, m))
           /\ \A what \in Matters : Told(Append(L, m), what) = Told(L, what) \o OfMsg(m, what)
<1> DEFINE M == Append(L, m)
<1>0. IsSeq(L) /\ Len(L) \in Nat
  BY DEF GoodMsgs, IsSeq
<1>1. /\ IsSeq(M) /\ Len(M) = Len(L) + 1 /\ M[Len(L) + 1] = m /\ Len(L) \in Nat
      /\ \A i \in 1..Len(L) : M[i] = L[i]
  BY <1>0, Appended, ZenonT(60)
<1> HIDE DEF M
<1>2. GoodMsgs(M)
  <2>1. \A i \in 1..Len(M) : i \in 1..Len(L) \/ i = Len(L) + 1
    BY <1>1
  <2> QED BY <1>1, <2>1 DEF GoodMsgs
<1>3. ASSUME NEW what \in Matters PROVE Told(M, what) = Told(L, what) \o OfMsg(m, what)
  <2> DEFINE s == MsgParts(L, what)
  <2> DEFINE t == MsgParts(M, what)
  <2> DEFINE x == OfMsg(m, what)
  <2>1. IsSeqs(s) /\ Len(s) = Len(L) /\ \A i \in 1..Len(L) : s[i] = OfMsg(L[i], what)
    BY PartsAreSeqs
  <2>2. IsSeqs(t) /\ Len(t) = Len(M) /\ \A i \in 1..Len(M) : t[i] = OfMsg(M[i], what)
    BY <1>2, PartsAreSeqs
  <2>3. Told(M, what) = FlattenSeq(t) /\ Told(L, what) = FlattenSeq(s)
    BY DEF Told
  <2>4. Len(L) + 1 \in 1..Len(M) /\ \A i \in 1..Len(L) : i \in 1..Len(M)
    BY <1>1
  <2>5. t[Len(t)] = x /\ \A i \in 1..Len(s) : t[i] = s[i]
    BY <1>1, <2>1, <2>2, <2>4
  <2> HIDE DEF s, t, x
  <2>6. Longer(s, t, x)
    BY <1>1, <2>1, <2>2, <2>5 DEF Longer, IsSeqs
  <2>7. FlattenSeq(t) = FlattenSeq(s) \o x
    BY <2>2, <2>6, FlatLonger
  <2> QED BY <2>3, <2>7 DEF x
<1> QED BY <1>2, <1>3 DEF M

\* More in the last one.
LastGrew(L, M, what, x) ==
    /\ Len(L) # 0 /\ Len(M) = Len(L) /\ IsSeq(x)
    /\ \A i \in 1..Len(L) : i # Len(L) => M[i] = L[i]
    /\ OfMsg(M[Len(L)], what) = OfMsg(L[Len(L)], what) \o x

LEMMA ToldGrown ==
    ASSUME NEW L, GoodMsgs(L), NEW M, GoodMsgs(M), NEW what \in Matters, NEW x, LastGrew(L, M, what, x)
    PROVE  Told(M, what) = Told(L, what) \o x
<1> DEFINE s == MsgParts(L, what)
<1> DEFINE t == MsgParts(M, what)
<1>1. IsSeqs(s) /\ Len(s) = Len(L) /\ \A i \in 1..Len(L) : s[i] = OfMsg(L[i], what)
  BY PartsAreSeqs
<1>2. IsSeqs(t) /\ Len(t) = Len(M) /\ \A i \in 1..Len(M) : t[i] = OfMsg(M[i], what)
  BY PartsAreSeqs
<1>3. Told(M, what) = FlattenSeq(t) /\ Told(L, what) = FlattenSeq(s)
  BY DEF Told
<1>4. Len(L) \in Nat /\ Len(L) # 0 /\ Len(M) = Len(L) /\ Len(L) \in 1..Len(L)
  BY DEF GoodMsgs, IsSeq, LastGrew
<1>5. t[Len(s)] = s[Len(s)] \o x /\ \A i \in 1..Len(s) : i # Len(s) => t[i] = s[i]
  BY <1>1, <1>2, <1>4 DEF LastGrew
<1> HIDE DEF s, t
<1>6. Grown(s, t, x)
  BY <1>1, <1>2, <1>4, <1>5 DEF Grown, IsSeqs, LastGrew
<1> QED BY <1>3, <1>6, FlatGrown

(***************************************************************************)
(* From the items of input to messages: responsesMessages.                 *)
(***************************************************************************)

\* The items a client sends.
GoodItem(it) ==
    /\ IsSeq(it.text)
    /\ \/ it.type = "" /\ it.role = "user" /\ it.call = NoId
       \/ it.type = "message" /\ it.role \in {"developer", "assistant"} /\ it.call = NoId
       \/ it.type = "reasoning" /\ it.role = "" /\ it.call = NoId
       \/ it.type = "function_call_output" /\ it.role = ""
       \/ it.type = "function_call" /\ it.role = "" /\ it.text = <<>> /\ it.call # NoId

\* m is the message of an item.
Makes(it, m) ==
    /\ MessageFromItem(it) = <<m>> /\ GoodMsg(m)
    /\ \A what \in Matters : OfMsg(m, what) = OfItem(it, what)
    /\ it.type = "function_call" => m.role = "assistant" /\ m.calls = <<it.call>> /\ m.text = <<>>
    /\ it.type # "function_call" => m.calls = <<>>
    /\ it.type = "function_call_output" => m.role = "tool" /\ m.answers = it.call
    /\ it.type # "function_call_output" => m.role # "tool"

LEMMA MsgFields ==
    \A r, w, c, a : LET m == Msg(r, w, c, a) IN
      /\ m.role = r /\ m.text = w /\ m.calls = c /\ m.answers = a
      /\ m = [role |-> m.role, text |-> m.text, calls |-> m.calls, answers |-> m.answers]
BY DEF Msg

LEMMA ItemMakes ==
    ASSUME NEW it, GoodItem(it), ~Malformed(it), it.type # "reasoning"
    PROVE  \E m : Makes(it, m)
<1>0. IsSeq(it.text) /\ IsSeq(<<>>) /\ IsSeq(<<it.call>>)
  BY Tuples DEF GoodItem
<1>1. CASE it.type \in {"", "message"}
  <2> DEFINE m == Msg(it.role, it.text, <<>>, NoId)
  <2>1. it.role \in {"user", "developer", "assistant"} /\ it.call = NoId
    BY <1>1 DEF GoodItem
  <2>2. Kind(it) = "message"
    BY <1>1, <2>1 DEF Kind, GoodItem
  <2>3. MessageFromItem(it) = <<m>>
    BY <2>1, <2>2 DEF MessageFromItem
  <2>4. m.role = it.role /\ m.text = it.text /\ m.calls = <<>> /\ m.answers = NoId
        /\ m = [role |-> m.role, text |-> m.text, calls |-> m.calls, answers |-> m.answers]
    BY MsgFields
  <2> HIDE DEF m
  <2>5. GoodMsg(m)
    BY <1>0, <2>1, <2>4, Tuples DEF GoodMsg
  <2>6. \A what \in Matters : OfMsg(m, what) = OfItem(it, what)
    <3>1. IsSystem(m) <=> it.role = "developer"
      BY <2>1, <2>4 DEF IsSystem
    <3>2. OfMsg(m, "system") = OfItem(it, "system")
      BY <2>4, <3>1 DEF OfMsg, OfItem, SystemText
    <3>3. OfMsg(m, "words") = OfItem(it, "words")
      BY <1>1, <2>4, <3>1 DEF OfMsg, OfItem
    <3>4. OfMsg(m, "ids") = OfItem(it, "ids")
      <4>1. <<>> \o <<>> = <<>>
        BY <1>0, JoinedNone
      <4> QED BY <2>1, <2>4, <4>1 DEF OfMsg, OfItem
    <3> QED BY <3>2, <3>3, <3>4 DEF Matters
  <2>7. Makes(it, m)
    BY <1>1, <2>1, <2>3, <2>4, <2>5, <2>6 DEF Makes
  <2> QED BY <2>7
<1>2. CASE it.type = "function_call"
  <2> DEFINE c == <<it.call>>
  <2> DEFINE m == Msg("assistant", <<>>, c, NoId)
  <2>1. it.role = "" /\ it.text = <<>> /\ it.call # NoId
    BY <1>2 DEF GoodItem
  <2>2. Kind(it) = "function_call"
    BY <1>2, <2>1 DEF Kind
  <2>3. MessageFromItem(it) = <<m>>
    BY <2>2 DEF MessageFromItem
  <2>4. m.role = "assistant" /\ m.text = <<>> /\ m.calls = c /\ m.answers = NoId
        /\ m = [role |-> m.role, text |-> m.text, calls |-> m.calls, answers |-> m.answers]
    <3> HIDE DEF c
    <3> QED BY MsgFields
  <2> HIDE DEF m
  <2>5. GoodMsg(m)
    <3>1. IsSeq(c) /\ Len(c) = 1 /\ c[1] # NoId
      BY <2>1, Tuples
    <3>2. \A i \in 1..Len(c) : c[i] # NoId
      BY <3>1
    <3> HIDE DEF c
    <3> QED BY <1>0, <2>4, <3>1, <3>2 DEF GoodMsg
  <2>6. \A what \in Matters : OfMsg(m, what) = OfItem(it, what)
    <3>1. ~IsSystem(m)
      BY <2>4 DEF IsSystem
    <3>2. OfMsg(m, "system") = OfItem(it, "system")
      BY <2>1, <2>4, <3>1 DEF OfMsg, OfItem, SystemText
    <3>3. OfMsg(m, "words") = OfItem(it, "words")
      BY <1>2, <2>1, <2>4, <3>1 DEF OfMsg, OfItem
    <3>4. OfMsg(m, "ids") = OfItem(it, "ids")
      <4>1. c \o <<>> = c
        <5>1. IsSeq(c)
          BY <1>0
        <5> HIDE DEF c
        <5> QED BY <5>1, JoinedNone
      <4>2. OfMsg(m, "ids") = c \o <<>>
        BY <2>4 DEF OfMsg
      <4>3. OfItem(it, "ids") = c
        BY <2>1 DEF OfItem
      <4> QED BY <4>1, <4>2, <4>3
    <3> QED BY <3>2, <3>3, <3>4 DEF Matters
  <2>7. Makes(it, m)
    BY <1>2, <2>1, <2>3, <2>4, <2>5, <2>6 DEF Makes
  <2> QED BY <2>7
<1>3. CASE it.type = "function_call_output"
  <2> DEFINE m == Msg("tool", it.text, <<>>, it.call)
  <2>1. it.role = ""
    BY <1>3 DEF GoodItem
  <2>2. Kind(it) = "function_call_output" /\ it.call # NoId
    BY <1>3, <2>1 DEF Kind, Malformed
  <2>3. MessageFromItem(it) = <<m>>
    BY <2>2 DEF MessageFromItem
  <2>4. m.role = "tool" /\ m.text = it.text /\ m.calls = <<>> /\ m.answers = it.call
        /\ m = [role |-> m.role, text |-> m.text, calls |-> m.calls, answers |-> m.answers]
    BY MsgFields
  <2> HIDE DEF m
  <2>5. GoodMsg(m)
    BY <1>0, <2>2, <2>4, Tuples DEF GoodMsg
  <2>6. \A what \in Matters : OfMsg(m, what) = OfItem(it, what)
    <3>1. ~IsSystem(m)
      BY <2>4 DEF IsSystem
    <3>2. OfMsg(m, "system") = OfItem(it, "system")
      BY <2>1, <2>4, <3>1 DEF OfMsg, OfItem, SystemText
    <3>3. OfMsg(m, "words") = OfItem(it, "words")
      BY <1>3, <2>1, <2>4, <3>1 DEF OfMsg, OfItem
    <3>4. OfMsg(m, "ids") = OfItem(it, "ids")
      <4> DEFINE c == <<it.call>>
      <4>1. <<>> \o c = c
        <5>1. IsSeq(c)
          BY <1>0
        <5> HIDE DEF c
        <5> QED BY <5>1, JoinedNone
      <4>2. OfMsg(m, "ids") = <<>> \o c
        BY <2>2, <2>4 DEF OfMsg
      <4>3. OfItem(it, "ids") = c
        BY <2>2 DEF OfItem
      <4> QED BY <4>1, <4>2, <4>3
    <3> QED BY <3>2, <3>3, <3>4 DEF Matters
  <2>7. Makes(it, m)
    BY <1>3, <2>1, <2>3, <2>4, <2>5, <2>6 DEF Makes
  <2> QED BY <2>7
<1> QED BY <1>1, <1>2, <1>3 DEF GoodItem

\* Reasoning makes none.
LEMMA ReasoningMakesNone ==
    ASSUME NEW it, GoodItem(it), it.type = "reasoning"
    PROVE  MessageFromItem(it) = <<>> /\ \A what \in Matters : OfItem(it, what) = <<>>
<1>1. it.role = "" /\ it.call = NoId /\ Kind(it) = "reasoning"
  BY DEF GoodItem, Kind
<1>2. MessageFromItem(it) = <<>>
  BY <1>1 DEF MessageFromItem
<1>3. OfItem(it, "system") = <<>> /\ OfItem(it, "words") = <<>> /\ OfItem(it, "ids") = <<>>
  BY <1>1 DEF OfItem
<1> QED BY <1>2, <1>3 DEF Matters

\* What one item does to the messages.
CallJoins(out, it, new) ==
    LET n == Len(out) IN
    /\ it.type = "function_call" /\ n # 0 /\ out[n].role = "assistant" /\ Len(new) = n
    /\ \A i \in 1..n : i # n => new[i] = out[i]
    /\ new[n] = [role |-> "assistant", text |-> out[n].text,
                 calls |-> Append(out[n].calls, it.call), answers |-> NoId]

Adds1(out, it, new) ==
    /\ it.type # "reasoning" /\ \E m : Makes(it, m) /\ new = Append(out, m)
    /\ it.type = "function_call" => Len(out) = 0 \/ out[Len(out)].role # "assistant"

LEMMA ItemAdded ==
    ASSUME NEW out, GoodMsgs(out), NEW it, GoodItem(it), ~Malformed(it)
    PROVE  \/ it.type = "reasoning" /\ AddItem(out, it) = out
           \/ IsSeq(AddItem(out, it)) /\ CallJoins(out, it, AddItem(out, it))
           \/ Adds1(out, it, AddItem(out, it))
<1>0. IsSeq(out) /\ Len(out) \in Nat
  BY DEF GoodMsgs, IsSeq
<1>1. CASE it.type = "reasoning"
  <2>1. MessageFromItem(it) = <<>>
    BY <1>1, ReasoningMakesNone
  <2>2. AddItem(out, it) = out \o <<>>
    BY <2>1 DEF AddItem
  <2>3. out \o <<>> = out
    BY <1>0, JoinedNone
  <2> QED BY <1>1, <2>2, <2>3
<1>2. CASE it.type # "reasoning"
  <2>1. PICK m : Makes(it, m)
    BY <1>2, ItemMakes
  <2>2. MessageFromItem(it) = <<m>> /\ <<m>> # <<>> /\ <<m>>[1] = m
    BY <2>1, Tuples DEF Makes
  <2> DEFINE n == Len(out)
  <2> DEFINE l == out[n]
  <2>3. Last(out) = l
    BY DEF Last
  <2> DEFINE cond == out # <<>> /\ m.calls # <<>> /\ l.role = "assistant" /\ l.answers = NoId
  <2>4. AddItem(out, it) = IF cond THEN [out EXCEPT ![n].calls = @ \o m.calls] ELSE out \o <<m>>
    BY <2>2, <2>3 DEF AddItem
  <2>5. out = <<>> <=> n = 0
    BY <1>0, FlatNothing, Tuples
  <2>6. CASE cond
    <3>1. it.type = "function_call" /\ m.calls = <<it.call>>
      BY <2>1, <2>6 DEF Makes
    <3>2. n # 0 /\ n \in 1..n
      BY <1>0, <2>5, <2>6
    <3>3. GoodMsg(l)
      BY <3>2 DEF GoodMsgs
    <3> DEFINE c == l.calls
    <3> DEFINE w == l.text
    <3>4. l = [role |-> "assistant", text |-> w, calls |-> c, answers |-> NoId] /\ IsSeq(c)
      BY <2>6, <3>3 DEF GoodMsg
    <3> DEFINE new == [out EXCEPT ![n].calls = @ \o m.calls]
    <3> DEFINE k == [l EXCEPT !.calls = c \o m.calls]
    <3>5. out = [i \in 1..n |-> out[i]]
      BY <1>0 DEF IsSeq
    <3>6. new = [i \in 1..n |-> IF i = n THEN k ELSE out[i]]
      BY <3>2, <3>5
    <3> HIDE DEF c, w
    <3>7. k = [role |-> "assistant", text |-> w, calls |-> c \o m.calls, answers |-> NoId]
      <4> DEFINE x == c \o m.calls
      <4> HIDE DEF l, x
      <4>1. [l EXCEPT !.calls = x] = [role |-> "assistant", text |-> w, calls |-> x, answers |-> NoId]
        BY <3>4
      <4> QED BY <4>1 DEF x
    <3>8. Append(c, it.call) = c \o <<it.call>>
      BY <3>4, Appended
    <3>9. k = [role |-> "assistant", text |-> w, calls |-> Append(c, it.call), answers |-> NoId]
      BY <3>1, <3>7, <3>8
    <3>10. AddItem(out, it) = new
      BY <2>4, <2>6
    <3> HIDE DEF new, k
    <3>11. IsSeq(new) /\ Len(new) = n /\ new[n] = k /\ \A i \in 1..n : i # n => new[i] = out[i]
      <4>1. \A i \in 1..n : new[i] = IF i = n THEN k ELSE out[i]
        BY <3>6
      <4>2. new = [i \in 1..n |-> new[i]]
        BY <3>6
      <4> QED BY <1>0, <3>2, <4>1, <4>2, MappedIsSeq
    <3>12. CallJoins(out, it, new)
      BY <2>6, <3>1, <3>2, <3>9, <3>11 DEF CallJoins, c, w
    <3> QED BY <3>10, <3>11, <3>12
  <2>7. CASE ~cond
    <3>1. AddItem(out, it) = Append(out, m)
      BY <1>0, <2>4, <2>7, Appended
    <3>2. it.type = "function_call" => Len(out) = 0 \/ out[Len(out)].role # "assistant"
      <4> HAVE it.type = "function_call"
      <4>1. m.calls # <<>>
        <5>1. m.calls = <<it.call>> /\ Len(<<it.call>>) = 1
          BY <2>1, Tuples DEF Makes
        <5> QED BY <5>1, Tuples
      <4>2. CASE n = 0
        BY <4>2
      <4>3. CASE n # 0
        <5>1. n \in 1..n
          BY <1>0, <4>3
        <5>2. l.role = "assistant" => l.answers = NoId
          BY <5>1 DEF GoodMsgs, GoodMsg
        <5> QED BY <2>5, <2>7, <4>1, <4>3, <5>2
      <4> QED BY <4>2, <4>3
    <3> QED BY <1>2, <2>1, <3>1, <3>2 DEF Adds1
  <2> QED BY <2>6, <2>7
<1> QED BY <1>1, <1>2

\* An item adds to the messages what it brings.
LEMMA ItemTold ==
    ASSUME NEW out, GoodMsgs(out), NEW it, GoodItem(it), ~Malformed(it)
    PROVE  /\ GoodMsgs(AddItem(out, it))
           /\ \A what \in Matters : Told(AddItem(out, it), what) = Told(out, what) \o OfItem(it, what)
<1> DEFINE new == AddItem(out, it)
<1>0. IsSeq(out) /\ Len(out) \in Nat
  BY DEF GoodMsgs, IsSeq
<1>1. \/ it.type = "reasoning" /\ new = out
      \/ IsSeq(new) /\ CallJoins(out, it, new)
      \/ Adds1(out, it, new)
  BY ItemAdded
<1> HIDE DEF new
<1>2. CASE it.type = "reasoning" /\ new = out
  <2>1. ASSUME NEW what \in Matters PROVE Told(new, what) = Told(out, what) \o OfItem(it, what)
    <3>1. OfItem(it, what) = <<>> /\ IsSeq(Told(out, what))
      BY <1>2, ReasoningMakesNone, PartsAreSeqs
    <3> QED BY <1>2, <3>1, JoinedNone
  <2> QED BY <1>2, <2>1 DEF new
<1>3. CASE Adds1(out, it, new)
  <2>1. PICK m : Makes(it, m) /\ new = Append(out, m)
    BY <1>3 DEF Adds1
  <2>2. GoodMsg(m) /\ \A what \in Matters : OfMsg(m, what) = OfItem(it, what)
    BY <2>1 DEF Makes
  <2>3. /\ GoodMsgs(Append(out, m))
        /\ \A what \in Matters : Told(Append(out, m), what) = Told(out, what) \o OfMsg(m, what)
    BY <2>2, ToldMore
  <2> QED BY <2>1, <2>2, <2>3 DEF new
<1>4. CASE IsSeq(new) /\ CallJoins(out, it, new)
  <2> DEFINE n == Len(out)
  <2> DEFINE a == out[n]
  <2> DEFINE b == new[n]
  <2> DEFINE c == a.calls
  <2> DEFINE d == Append(c, it.call)
  <2>1. /\ it.type = "function_call" /\ n # 0 /\ a.role = "assistant" /\ Len(new) = n
        /\ \A i \in 1..n : i # n => new[i] = out[i]
        /\ b = [role |-> "assistant", text |-> a.text, calls |-> d, answers |-> NoId]
    BY <1>4 DEF CallJoins
  <2>2. n \in 1..n
    BY <1>0, <2>1
  <2>3. GoodMsg(a)
    BY <2>2 DEF GoodMsgs
  <2>4. IsSeq(c) /\ IsSeq(a.text) /\ a.answers = NoId
    BY <2>1, <2>3 DEF GoodMsg
  <2>6. it.role = "" /\ it.text = <<>> /\ it.call # NoId
    BY <2>1 DEF GoodItem
  <2>5. IsSeq(d) /\ d = c \o <<it.call>> /\ \A i \in 1..Len(d) : d[i] # NoId
    <3>1. \A i \in 1..Len(c) : c[i] # NoId
      BY <2>3 DEF GoodMsg
    <3>2. Len(c) \in Nat
      BY <2>4 DEF IsSeq
    <3> HIDE DEF c
    <3>3. /\ IsSeq(d) /\ d = c \o <<it.call>> /\ Len(d) = Len(c) + 1 /\ d[Len(c) + 1] = it.call
          /\ \A i \in 1..Len(c) : d[i] = c[i]
      BY <2>4, Appended
    <3>4. \A i \in 1..Len(d) : i \in 1..Len(c) \/ i = Len(c) + 1
      BY <3>2, <3>3
    <3> QED BY <2>6, <3>1, <3>3, <3>4
  <2> HIDE DEF d
  <2>7. b.role = "assistant" /\ b.text = a.text /\ b.calls = d /\ b.answers = NoId
    BY <2>1
  <2>8. GoodMsg(b)
    <3>1. b = [role |-> b.role, text |-> b.text, calls |-> b.calls, answers |-> b.answers]
      BY <2>1, <2>7
    <3> QED BY <2>4, <2>5, <2>7, <3>1 DEF GoodMsg
  <2>9. GoodMsgs(new)
    <3>1. ASSUME NEW i \in 1..Len(new) PROVE GoodMsg(new[i])
      <4>1. CASE i = n
        BY <2>8, <4>1
      <4>2. CASE i # n
        <5>1. i \in 1..n /\ new[i] = out[i]
          BY <2>1, <4>2
        <5> QED BY <5>1 DEF GoodMsgs
      <4> QED BY <4>1, <4>2
    <3> QED BY <1>4, <3>1 DEF GoodMsgs
  <2>10. ~IsSystem(a) /\ ~IsSystem(b)
    BY <2>1, <2>7 DEF IsSystem
  <2> HIDE DEF a, b
  <2>11. ASSUME NEW what \in Matters PROVE OfMsg(b, what) = OfMsg(a, what) \o OfItem(it, what)
    <3>0. <<>> \o <<>> = <<>> /\ IsSeq(<<>>)
      BY Tuples, JoinedNone
    <3>1. CASE what = "system"
      <4>1. OfMsg(a, what) = <<>> /\ OfMsg(b, what) = <<>> /\ OfItem(it, what) = <<>>
        BY <2>6, <2>10, <3>1 DEF OfMsg, OfItem, SystemText
      <4> QED BY <3>0, <4>1
    <3>2. CASE what = "words"
      <4>1. OfMsg(a, what) = a.text /\ OfMsg(b, what) = a.text /\ OfItem(it, what) = <<>>
        BY <2>1, <2>6, <2>7, <2>10, <3>2 DEF OfMsg, OfItem
      <4>2. a.text \o <<>> = a.text
        <5> DEFINE w == a.text
        <5>1. IsSeq(w)
          BY <2>4
        <5> HIDE DEF w
        <5>2. w \o <<>> = w
          BY <5>1, JoinedNone
        <5> QED BY <5>2 DEF w
      <4> QED BY <4>1, <4>2
    <3>3. CASE what = "ids"
      <4>1. OfMsg(a, what) = c \o <<>> /\ OfMsg(b, what) = d \o <<>> /\ OfItem(it, what) = <<it.call>>
        BY <2>4, <2>6, <2>7, <3>3 DEF OfMsg, OfItem
      <4> HIDE DEF c
      <4>2. c \o <<>> = c /\ d \o <<>> = d
        BY <2>4, <2>5, JoinedNone
      <4> QED BY <2>5, <4>1, <4>2
    <3> QED BY <3>1, <3>2, <3>3 DEF Matters
  <2>12. ASSUME NEW what \in Matters PROVE Told(new, what) = Told(out, what) \o OfItem(it, what)
    <3> DEFINE x == OfItem(it, what)
    <3>1. IsSeq(x)
      BY <2>6, Tuples DEF OfItem, Matters
    <3>2. OfMsg(b, what) = OfMsg(a, what) \o x
      BY <2>11
    <3> HIDE DEF x
    <3>3. LastGrew(out, new, what, x)
      BY <2>1, <3>1, <3>2 DEF LastGrew, a, b
    <3>4. Told(new, what) = Told(out, what) \o x
      BY <2>9, <3>3, ToldGrown
    <3> QED BY <3>4 DEF x
  <2> QED BY <2>9, <2>12 DEF new
<1> QED BY <1>1, <1>2, <1>3, <1>4

\* A conversation that can be translated.
GoodItems(C) ==
    IsSeq(C) /\ \A i \in 1..Len(C) : GoodItem(C[i]) /\ ~Malformed(C[i])

ItemParts(C, what) == [i \in DOMAIN C |-> OfItem(C[i], what)]

LEMMA ItemPartsAreSeqs ==
    ASSUME NEW C, GoodItems(C), NEW what \in Matters
    PROVE  /\ IsSeqs(ItemParts(C, what)) /\ Len(ItemParts(C, what)) = Len(C)
           /\ \A i \in 1..Len(C) : ItemParts(C, what)[i] = OfItem(C[i], what)
<1> DEFINE p == ItemParts(C, what)
<1>1. DOMAIN C = 1..Len(C) /\ Len(C) \in Nat
  BY DEF GoodItems, IsSeq
<1>2. \A i \in 1..Len(C) : p[i] = OfItem(C[i], what)
  BY <1>1 DEF ItemParts
<1>3. p = [i \in 1..Len(C) |-> p[i]]
  BY <1>1 DEF ItemParts
<1> HIDE DEF p
<1>4. IsSeq(p) /\ Len(p) = Len(C)
  BY <1>1, <1>3, MappedIsSeq
<1>5. ASSUME NEW i \in 1..Len(C) PROVE IsSeq(OfItem(C[i], what))
  <2> DEFINE it == C[i]
  <2>1. IsSeq(it.text) /\ IsSeq(<<>>) /\ IsSeq(<<it.call>>)
    BY Tuples DEF GoodItems, GoodItem
  <2> HIDE DEF it
  <2>2. IsSeq(OfItem(it, what))
    BY <2>1 DEF OfItem, Matters
  <2> QED BY <2>2 DEF it
<1>6. IsSeqs(p)
  BY <1>2, <1>4, <1>5 DEF IsSeqs
<1> QED BY <1>2, <1>4, <1>6 DEF p

\* The instructions alone.
LEMMA BriefingTold ==
    ASSUME NEW ins, IsSeq(ins)
    PROVE  /\ GoodMsgs(Briefing(ins)) /\ Told(Briefing(ins), "system") = ins
           /\ Told(Briefing(ins), "words") = <<>> /\ Told(Briefing(ins), "ids") = <<>>
<1> DEFINE e == <<>>
<1>1. IsSeq(e) /\ Len(e) = 0
  BY Tuples
<1>2. GoodMsgs(e)
  <2> HIDE DEF e
  <2> QED BY <1>1 DEF GoodMsgs
<1>3. ASSUME NEW what \in Matters PROVE Told(e, what) = <<>>
  <2> HIDE DEF e
  <2> DEFINE p == MsgParts(e, what)
  <2>1. IsSeq(p) /\ Len(p) = 0
    BY <1>1, <1>2, PartsAreSeqs DEF IsSeqs
  <2> HIDE DEF p
  <2>2. FlattenSeq(p) = <<>>
    BY <2>1, FlatNothing
  <2> QED BY <2>2 DEF Told, p
<1>4. CASE ins = <<>>
  <2>1. Briefing(ins) = e
    BY <1>4 DEF Briefing
  <2> QED BY <1>2, <1>3, <1>4, <2>1 DEF Matters
<1>5. CASE ins # <<>>
  <2> DEFINE m == Msg("system", ins, <<>>, NoId)
  <2>1. Briefing(ins) = <<m>>
    BY <1>5 DEF Briefing
  <2>2. m.role = "system" /\ m.text = ins /\ m.calls = <<>> /\ m.answers = NoId
        /\ m = [role |-> m.role, text |-> m.text, calls |-> m.calls, answers |-> m.answers]
    BY MsgFields
  <2> HIDE DEF m
  <2>3. GoodMsg(m)
    BY <2>2, Tuples DEF GoodMsg
  <2>4. Append(e, m) = <<m>>
    BY OneAndOne
  <2>5. OfMsg(m, "system") = ins /\ OfMsg(m, "words") = <<>> /\ OfMsg(m, "ids") = <<>>
    <3>1. IsSystem(m)
      BY <2>2 DEF IsSystem
    <3>2. <<>> \o <<>> = <<>>
      BY <1>1, JoinedNone
    <3> QED BY <2>2, <3>1, <3>2 DEF OfMsg, SystemText
  <2>6. /\ GoodMsgs(Append(e, m))
        /\ \A what \in Matters : Told(Append(e, m), what) = Told(e, what) \o OfMsg(m, what)
    <3> HIDE DEF e
    <3> QED BY <1>2, <2>3, ToldMore
  <2>7. <<>> \o ins = ins /\ <<>> \o <<>> = <<>>
    BY <1>1, JoinedNone
  <2>8. /\ Told(Append(e, m), "system") = <<>> \o ins
        /\ Told(Append(e, m), "words") = <<>> \o <<>>
        /\ Told(Append(e, m), "ids") = <<>> \o <<>>
    BY <1>3, <2>5, <2>6 DEF Matters
  <2> QED BY <2>1, <2>4, <2>6, <2>7, <2>8
<1> QED BY <1>4, <1>5

\* responsesMessages passes on all that the items bring, after the instructions.
LEMMA MessagesTold ==
    ASSUME NEW C, GoodItems(C), NEW ins, IsSeq(ins)
    PROVE  /\ GoodMsgs(ResponsesMessages(ins, C))
           /\ Told(ResponsesMessages(ins, C), "system") = ins \o FlattenSeq(ItemParts(C, "system"))
           /\ Told(ResponsesMessages(ins, C), "words") = FlattenSeq(ItemParts(C, "words"))
           /\ Told(ResponsesMessages(ins, C), "ids") = FlattenSeq(ItemParts(C, "ids"))
<1>0. Len(C) \in Nat
  BY DEF GoodItems, IsSeq
<1>1. PICK f : /\ Goes("items", Briefing(ins), C, f)
               /\ ResponsesMessages(ins, C) = f[Len(C)]
  BY <1>0, MessagesLoop
<1>2. f[0] = Briefing(ins) /\ \A n \in 1..Len(C) : f[n] = AddItem(f[n - 1], C[n])
  BY <1>1 DEF Goes, StepOf
<1>3. /\ GoodMsgs(f[0]) /\ Told(f[0], "system") = ins
      /\ Told(f[0], "words") = <<>> /\ Told(f[0], "ids") = <<>>
  BY <1>2, BriefingTold
<1> DEFINE T == {n \in Nat : n =< Len(C) => GoodMsgs(f[n])}
<1>4. \A n \in Nat : n \in T
  <2>1. 0 \in T
    BY <1>3
  <2>2. ASSUME NEW n \in Nat, n \in T PROVE n + 1 \in T
    <3>1. ASSUME n + 1 =< Len(C) PROVE GoodMsgs(f[n + 1])
      <4>1. n + 1 \in 1..Len(C) /\ (n + 1) - 1 = n /\ n =< Len(C)
        BY <1>0, <3>1
      <4>2. GoodMsgs(f[n])
        BY <2>2, <4>1
      <4>3. f[n + 1] = AddItem(f[n], C[n + 1]) /\ GoodItem(C[n + 1]) /\ ~Malformed(C[n + 1])
        BY <1>2, <4>1 DEF GoodItems
      <4> QED BY <4>2, <4>3, ItemTold
    <3>2. n + 1 \in Nat
      OBVIOUS
    <3> QED BY <3>1, <3>2
  <2> HIDE DEF T
  <2> QED BY <2>1, <2>2, ByNat
<1>5. \A n \in 0..Len(C) : GoodMsgs(f[n])
  BY <1>0, <1>4
<1>6. ASSUME NEW what \in Matters
      PROVE  Told(f[Len(C)], what) = Told(f[0], what) \o FlattenSeq(ItemParts(C, what))
  <2> DEFINE P == ItemParts(C, what)
  <2> DEFINE g == [n \in 0..Len(C) |-> Told(f[n], what)]
  <2>1. IsSeqs(P) /\ Len(P) = Len(C) /\ \A i \in 1..Len(C) : P[i] = OfItem(C[i], what)
    BY ItemPartsAreSeqs
  <2>2. g[0] = Told(f[0], what) /\ g[Len(C)] = Told(f[Len(C)], what) /\ IsSeq(g[0])
    BY <1>0, <1>3, PartsAreSeqs
  <2>3. ASSUME NEW n \in 1..Len(P) PROVE g[n] = g[n - 1] \o P[n]
    <3>1. n \in 1..Len(C) /\ n - 1 \in 0..Len(C) /\ n \in 0..Len(C)
      BY <1>0, <2>1
    <3>2. GoodMsgs(f[n - 1]) /\ f[n] = AddItem(f[n - 1], C[n]) /\ GoodItem(C[n]) /\ ~Malformed(C[n])
      BY <1>2, <1>5, <3>1 DEF GoodItems
    <3>3. Told(f[n], what) = Told(f[n - 1], what) \o OfItem(C[n], what)
      BY <3>2, ItemTold, SMTT(60)
    <3>4. g[n] = Told(f[n], what) /\ g[n - 1] = Told(f[n - 1], what)
      BY <3>1
    <3> QED BY <2>1, <3>1, <3>3, <3>4
  <2> HIDE DEF P, g
  <2>4. g[Len(P)] = g[0] \o FlattenSeq(P)
    BY <2>1, <2>2, <2>3, FlatSteps
  <2> QED BY <2>1, <2>2, <2>4 DEF P
<1>7. ASSUME NEW what \in Matters, Told(f[0], what) = <<>>
      PROVE  Told(f[Len(C)], what) = FlattenSeq(ItemParts(C, what))
  <2>1. IsSeq(FlattenSeq(ItemParts(C, what)))
    BY ItemPartsAreSeqs, FlatIsSeq
  <2> QED BY <1>6, <1>7, <2>1, JoinedNone
<1>8. GoodMsgs(f[Len(C)])
  BY <1>0, <1>5
<1> QED BY <1>1, <1>3, <1>6, <1>7, <1>8 DEF Matters

(***************************************************************************)
(* From messages to turns: SystemAndTurns.                                 *)
(***************************************************************************)

\* Turns: messages without a system prompt.
GoodTurns(L) == GoodMsgs(L) /\ \A i \in 1..Len(L) : ~IsSystem(L[i])

\* A message that neither calls nor answers.
IsPlain(m) == m.calls = <<>> /\ m.answers = NoId

\* What one message does to the turns.
TurnGrows(out, m, new) ==
    LET n == Len(out) IN
    /\ n # 0 /\ Len(new) = n /\ IsPlain(out[n]) /\ IsPlain(m) /\ m.role = out[n].role
    /\ \A i \in 1..n : i # n => new[i] = out[i]
    /\ new[n] = [role |-> out[n].role, text |-> out[n].text \o m.text, calls |-> <<>>, answers |-> NoId]

LEMMA TurnAdded ==
    ASSUME NEW out, GoodTurns(out), NEW m, GoodMsg(m)
    PROVE  \/ IsSystem(m) /\ AddTurn(out, m) = out
           \/ ~IsSystem(m) /\ IsSeq(AddTurn(out, m)) /\ TurnGrows(out, m, AddTurn(out, m))
           \/ ~IsSystem(m) /\ AddTurn(out, m) = Append(out, m)
<1>0. IsSeq(out) /\ Len(out) \in Nat /\ GoodMsgs(out)
  BY DEF GoodTurns, GoodMsgs, IsSeq
<1>1. CASE IsSystem(m)
  BY <1>1 DEF AddTurn
<1>2. CASE ~IsSystem(m)
  <2> DEFINE n == Len(out)
  <2> DEFINE l == out[n]
  <2>1. Last(out) = l
    BY DEF Last
  <2> DEFINE cond == out # <<>> /\ Mergeable(l, m)
  <2>2. AddTurn(out, m) = IF cond THEN [out EXCEPT ![n].text = @ \o m.text] ELSE Append(out, m)
    BY <1>2, <2>1 DEF AddTurn, MergeTurn
  <2>3. out = <<>> <=> n = 0
    BY <1>0, FlatNothing, Tuples
  <2>4. CASE ~cond
    BY <1>2, <2>2, <2>4
  <2>5. CASE cond
    <3>1. n # 0 /\ n \in 1..n
      BY <1>0, <2>3, <2>5
    <3>2. GoodMsg(l)
      BY <1>0, <3>1 DEF GoodMsgs
    <3>3. IsPlain(l) /\ IsPlain(m) /\ m.role = l.role
      BY <2>5 DEF Mergeable, IsPlain
    <3> DEFINE r == l.role
    <3> DEFINE w == l.text
    <3> DEFINE x == w \o m.text
    <3>4. l = [role |-> r, text |-> w, calls |-> <<>>, answers |-> NoId]
      BY <3>2, <3>3 DEF GoodMsg, IsPlain
    <3> DEFINE new == [out EXCEPT ![n].text = @ \o m.text]
    <3> DEFINE k == [l EXCEPT !.text = x]
    <3>5. out = [i \in 1..n |-> out[i]]
      BY <1>0 DEF IsSeq
    <3>6. new = [i \in 1..n |-> IF i = n THEN k ELSE out[i]]
      BY <3>1, <3>5
    <3>7. k = [role |-> r, text |-> x, calls |-> <<>>, answers |-> NoId]
      <4> HIDE DEF r, w, x, l
      <4> QED BY <3>4
    <3>8. AddTurn(out, m) = new
      BY <2>2, <2>5
    <3> HIDE DEF new, k
    <3>9. IsSeq(new) /\ Len(new) = n /\ new[n] = k /\ \A i \in 1..n : i # n => new[i] = out[i]
      <4>1. \A i \in 1..n : new[i] = IF i = n THEN k ELSE out[i]
        BY <3>6
      <4>2. new = [i \in 1..n |-> new[i]]
        BY <3>6
      <4> QED BY <1>0, <3>1, <4>1, <4>2, MappedIsSeq
    <3>10. TurnGrows(out, m, new)
      BY <3>1, <3>3, <3>7, <3>9 DEF TurnGrows
    <3> QED BY <1>2, <3>8, <3>9, <3>10
  <2> QED BY <2>4, <2>5
<1> QED BY <1>1, <1>2

\* A message adds to the turns what it brings, unless it is for the system.
LEMMA TurnTold ==
    ASSUME NEW out, GoodTurns(out), NEW m, GoodMsg(m)
    PROVE  /\ GoodTurns(AddTurn(out, m))
           /\ \A what \in {"words", "ids"} : Told(AddTurn(out, m), what) = Told(out, what) \o OfMsg(m, what)
<1> DEFINE new == AddTurn(out, m)
<1>0. IsSeq(out) /\ Len(out) \in Nat /\ GoodMsgs(out) /\ {"words", "ids"} \subseteq Matters
  BY DEF GoodTurns, GoodMsgs, IsSeq, Matters
<1>1. \/ IsSystem(m) /\ new = out
      \/ ~IsSystem(m) /\ IsSeq(new) /\ TurnGrows(out, m, new)
      \/ ~IsSystem(m) /\ new = Append(out, m)
  BY TurnAdded
<1>a. <<>> \o <<>> = <<>> /\ IsSeq(<<>>)
  BY Tuples, JoinedNone
<1> HIDE DEF new
<1>2. CASE IsSystem(m) /\ new = out
  <2>1. ASSUME NEW what \in {"words", "ids"} PROVE Told(new, what) = Told(out, what) \o OfMsg(m, what)
    <3>1. m.calls = <<>> /\ m.answers = NoId
      BY <1>2 DEF IsSystem, GoodMsg
    <3>2. OfMsg(m, what) = <<>>
      BY <1>2, <1>a, <3>1 DEF OfMsg
    <3>3. IsSeq(Told(out, what))
      BY <1>0, PartsAreSeqs
    <3> QED BY <1>2, <3>2, <3>3, JoinedNone
  <2> QED BY <1>2, <2>1 DEF new
<1>3. CASE ~IsSystem(m) /\ new = Append(out, m)
  <2>1. /\ GoodMsgs(Append(out, m))
        /\ \A what \in Matters : Told(Append(out, m), what) = Told(out, what) \o OfMsg(m, what)
    BY <1>0, ToldMore
  <2>2. /\ Len(new) = Len(out) + 1 /\ new[Len(out) + 1] = m /\ \A i \in 1..Len(out) : new[i] = out[i]
    BY <1>0, <1>3, Appended
  <2>3. \A i \in 1..Len(new) : i \in 1..Len(out) \/ i = Len(out) + 1
    BY <1>0, <2>2
  <2>4. \A i \in 1..Len(new) : ~IsSystem(new[i])
    BY <1>3, <2>2, <2>3 DEF GoodTurns
  <2> QED BY <1>0, <1>3, <2>1, <2>4 DEF new, GoodTurns
<1>4. CASE ~IsSystem(m) /\ IsSeq(new) /\ TurnGrows(out, m, new)
  <2> DEFINE n == Len(out)
  <2> DEFINE a == out[n]
  <2> DEFINE b == new[n]
  <2> DEFINE w == a.text
  <2> DEFINE v == m.text
  <2> DEFINE x == w \o v
  <2>1. /\ n # 0 /\ Len(new) = n /\ IsPlain(a) /\ IsPlain(m) /\ m.role = a.role
        /\ \A i \in 1..n : i # n => new[i] = out[i]
        /\ b = [role |-> a.role, text |-> x, calls |-> <<>>, answers |-> NoId]
    BY <1>4 DEF TurnGrows
  <2>2. n \in 1..n
    BY <1>0, <2>1
  <2>3. GoodMsg(a) /\ ~IsSystem(a)
    BY <2>2 DEF GoodTurns, GoodMsgs
  <2>4. IsSeq(w) /\ IsSeq(v)
    BY <2>3 DEF GoodMsg
  <2>5. IsSeq(x)
    <3> HIDE DEF w, v
    <3> QED BY <2>4, Joined
  <2> HIDE DEF x
  <2>6. b.role = a.role /\ b.text = x /\ b.calls = <<>> /\ b.answers = NoId
    BY <2>1
  <2>7. GoodMsg(b) /\ ~IsSystem(b)
    <3>1. b = [role |-> b.role, text |-> b.text, calls |-> b.calls, answers |-> b.answers]
      BY <2>1, <2>6
    <3>2. ~IsSystem(b)
      BY <2>3, <2>6 DEF IsSystem
    <3>3. a.role # "tool" /\ a.role \in {"system", "developer", "user", "assistant", "tool"}
      BY <2>1, <2>3 DEF GoodMsg, IsPlain
    <3> QED BY <1>a, <2>5, <2>6, <3>1, <3>2, <3>3, Tuples DEF GoodMsg
  <2>8. GoodTurns(new)
    <3>1. ASSUME NEW i \in 1..Len(new) PROVE GoodMsg(new[i]) /\ ~IsSystem(new[i])
      <4>1. CASE i = n
        BY <2>7, <4>1
      <4>2. CASE i # n
        <5>1. i \in 1..n /\ new[i] = out[i]
          BY <2>1, <4>2
        <5> QED BY <5>1 DEF GoodTurns, GoodMsgs
      <4> QED BY <4>1, <4>2
    <3> QED BY <1>4, <3>1 DEF GoodTurns, GoodMsgs
  <2> HIDE DEF a, b
  <2>9. ASSUME NEW what \in {"words", "ids"} PROVE OfMsg(b, what) = OfMsg(a, what) \o OfMsg(m, what)
    <3>1. CASE what = "words"
      <4>1. OfMsg(a, what) = w /\ OfMsg(b, what) = x /\ OfMsg(m, what) = v
        BY <1>4, <2>3, <2>6, <2>7, <3>1 DEF OfMsg
      <4> QED BY <4>1 DEF x
    <3>2. CASE what = "ids"
      <4>1. OfMsg(a, what) = <<>> /\ OfMsg(b, what) = <<>> /\ OfMsg(m, what) = <<>>
        BY <1>a, <2>1, <2>6, <3>2 DEF OfMsg, IsPlain
      <4> QED BY <1>a, <4>1
    <3> QED BY <3>1, <3>2
  <2>10. ASSUME NEW what \in {"words", "ids"} PROVE Told(new, what) = Told(out, what) \o OfMsg(m, what)
    <3> DEFINE y == OfMsg(m, what)
    <3>1. IsSeq(y) /\ OfMsg(b, what) = OfMsg(a, what) \o y /\ what \in Matters
      BY <1>0, <2>9, OfMsgSeq
    <3> HIDE DEF y
    <3>2. LastGrew(out, new, what, y)
      BY <2>1, <3>1 DEF LastGrew, a, b
    <3>3. GoodMsgs(new)
      BY <2>8 DEF GoodTurns
    <3>4. Told(new, what) = Told(out, what) \o y
      BY <1>0, <3>1, <3>2, <3>3, ToldGrown
    <3> QED BY <3>4 DEF y
  <2> QED BY <2>8, <2>10 DEF new
<1> QED BY <1>1, <1>2, <1>3, <1>4

\* SystemAndTurns splits what the messages bring, and loses none of it.
LEMMA TurnsTold ==
    ASSUME NEW M, GoodMsgs(M)
    PROVE  /\ SystemAndTurns(M).system = Told(M, "system")
           /\ GoodTurns(SystemAndTurns(M).turns)
           /\ \A what \in {"words", "ids"} : Told(SystemAndTurns(M).turns, what) = Told(M, what)
<1>0. Len(M) \in Nat /\ {"words", "ids"} \subseteq Matters
  BY DEF GoodMsgs, IsSeq, Matters
<1>1. SystemAndTurns(M).system = Told(M, "system")
  <2>1. \A m : OfMsg(m, "system") = SystemText(m)
    BY DEF OfMsg
  <2>2. MsgParts(M, "system") = [i \in DOMAIN M |-> SystemText(M[i])]
    BY <2>1 DEF MsgParts
  <2>3. SystemAndTurns(M).system = FlattenSeq([i \in DOMAIN M |-> SystemText(M[i])])
    BY DEF SystemAndTurns
  <2> QED BY <2>2, <2>3 DEF Told
<1>2. PICK f : Goes("turns", <<>>, M, f) /\ SystemAndTurns(M).turns = f[Len(M)]
  BY <1>0, TurnsLoop
<1>3. f[0] = <<>> /\ \A n \in 1..Len(M) : f[n] = AddTurn(f[n - 1], M[n])
  BY <1>2 DEF Goes, StepOf
<1>4. GoodTurns(f[0]) /\ \A what \in Matters : Told(f[0], what) = <<>>
  <2>1. IsSeq(f[0]) /\ Len(f[0]) = 0
    BY <1>3, Tuples
  <2>2. GoodTurns(f[0]) /\ GoodMsgs(f[0])
    BY <2>1 DEF GoodTurns, GoodMsgs
  <2>3. ASSUME NEW what \in Matters PROVE Told(f[0], what) = <<>>
    <3> DEFINE p == MsgParts(f[0], what)
    <3>1. IsSeq(p) /\ Len(p) = 0
      BY <2>1, <2>2, PartsAreSeqs DEF IsSeqs
    <3> HIDE DEF p
    <3>2. FlattenSeq(p) = <<>>
      BY <3>1, FlatNothing
    <3> QED BY <3>2 DEF Told, p
  <2> QED BY <2>2, <2>3
<1> DEFINE T == {n \in Nat : n =< Len(M) => GoodTurns(f[n])}
<1>5. \A n \in Nat : n \in T
  <2>1. 0 \in T
    BY <1>4
  <2>2. ASSUME NEW n \in Nat, n \in T PROVE n + 1 \in T
    <3>1. ASSUME n + 1 =< Len(M) PROVE GoodTurns(f[n + 1])
      <4>1. n + 1 \in 1..Len(M) /\ (n + 1) - 1 = n /\ n =< Len(M)
        BY <1>0, <3>1
      <4>2. GoodTurns(f[n])
        BY <2>2, <4>1
      <4>3. f[n + 1] = AddTurn(f[n], M[n + 1]) /\ GoodMsg(M[n + 1])
        BY <1>3, <4>1 DEF GoodMsgs
      <4> QED BY <4>2, <4>3, TurnTold
    <3>2. n + 1 \in Nat
      OBVIOUS
    <3> QED BY <3>1, <3>2
  <2> HIDE DEF T
  <2> QED BY <2>1, <2>2, ByNat
<1>6. \A n \in 0..Len(M) : GoodTurns(f[n])
  BY <1>0, <1>5
<1>7. ASSUME NEW what \in {"words", "ids"} PROVE Told(f[Len(M)], what) = Told(M, what)
  <2> DEFINE P == MsgParts(M, what)
  <2> DEFINE g == [n \in 0..Len(M) |-> Told(f[n], what)]
  <2>0. what \in Matters
    BY <1>0
  <2>1. IsSeqs(P) /\ Len(P) = Len(M) /\ \A i \in 1..Len(M) : P[i] = OfMsg(M[i], what)
    BY <2>0, PartsAreSeqs
  <2>2. g[0] = <<>> /\ g[Len(M)] = Told(f[Len(M)], what) /\ IsSeq(g[0])
    BY <1>0, <1>4, Tuples
  <2>3. ASSUME NEW n \in 1..Len(P) PROVE g[n] = g[n - 1] \o P[n]
    <3>1. n \in 1..Len(M) /\ n - 1 \in 0..Len(M) /\ n \in 0..Len(M)
      BY <1>0, <2>1
    <3>2. GoodTurns(f[n - 1]) /\ f[n] = AddTurn(f[n - 1], M[n]) /\ GoodMsg(M[n])
      BY <1>3, <1>6, <3>1 DEF GoodMsgs
    <3>3. Told(f[n], what) = Told(f[n - 1], what) \o OfMsg(M[n], what)
      BY <3>2, TurnTold
    <3>4. g[n] = Told(f[n], what) /\ g[n - 1] = Told(f[n - 1], what)
      BY <3>1
    <3> QED BY <2>1, <3>1, <3>3, <3>4
  <2>4. Told(M, what) = FlattenSeq(P) /\ IsSeq(FlattenSeq(P))
    BY <2>1, FlatIsSeq DEF Told
  <2> HIDE DEF P, g
  <2>5. g[Len(P)] = g[0] \o FlattenSeq(P)
    BY <2>1, <2>2, <2>3, FlatSteps
  <2> QED BY <2>1, <2>2, <2>4, <2>5, JoinedNone
<1> QED BY <1>0, <1>1, <1>2, <1>6, <1>7

(***************************************************************************)
(* From turns to the blocks of a native request: BuildRequest of both      *)
(* native adapters.                                                        *)
(***************************************************************************)

\* The blocks of a native request.
GoodBlocks(bs) == IsSeq(bs) /\ \A i \in 1..Len(bs) : IsSeq(bs[i].text)

GoodNative(m) == m = [role |-> m.role, blocks |-> m.blocks] /\ GoodBlocks(m.blocks)

GoodNatives(L) == IsSeq(L) /\ \A i \in 1..Len(L) : GoodNative(L[i])

BlockParts(bs, what) == [i \in DOMAIN bs |-> OfBlock(bs[i], what)]

Sides == {"words", "ids"}

LEMMA BlockPartsAreSeqs ==
    ASSUME NEW bs, GoodBlocks(bs), NEW what \in Sides
    PROVE  /\ IsSeqs(BlockParts(bs, what)) /\ Len(BlockParts(bs, what)) = Len(bs)
           /\ \A i \in 1..Len(bs) : BlockParts(bs, what)[i] = OfBlock(bs[i], what)
           /\ OfBlocks(bs, what) = FlattenSeq(BlockParts(bs, what)) /\ IsSeq(OfBlocks(bs, what))
<1> DEFINE p == BlockParts(bs, what)
<1>1. DOMAIN bs = 1..Len(bs) /\ Len(bs) \in Nat
  BY DEF GoodBlocks, IsSeq
<1>2. \A i \in 1..Len(bs) : p[i] = OfBlock(bs[i], what)
  BY <1>1 DEF BlockParts
<1>3. p = [i \in 1..Len(bs) |-> p[i]]
  BY <1>1 DEF BlockParts
<1>4. OfBlocks(bs, what) = FlattenSeq(p)
  BY DEF OfBlocks, BlockParts
<1> HIDE DEF p
<1>5. IsSeq(p) /\ Len(p) = Len(bs)
  BY <1>1, <1>3, MappedIsSeq
<1>6. ASSUME NEW i \in 1..Len(bs) PROVE IsSeq(OfBlock(bs[i], what))
  <2> DEFINE b == bs[i]
  <2>1. IsSeq(b.text) /\ IsSeq(<<>>) /\ IsSeq(<<b.id>>)
    BY Tuples DEF GoodBlocks
  <2> HIDE DEF b
  <2>2. IsSeq(OfBlock(b, what))
    BY <2>1 DEF OfBlock, Sides
  <2> QED BY <2>2 DEF b
<1>7. IsSeqs(p)
  BY <1>2, <1>5, <1>6 DEF IsSeqs
<1> QED BY <1>2, <1>4, <1>5, <1>7, FlatIsSeq DEF p

\* Blocks after blocks.
LEMMA BlocksJoined ==
    ASSUME NEW a, GoodBlocks(a), NEW b, GoodBlocks(b)
    PROVE  /\ GoodBlocks(a \o b)
           /\ \A what \in Sides : OfBlocks(a \o b, what) = OfBlocks(a, what) \o OfBlocks(b, what)
<1> DEFINE c == a \o b
<1>0. IsSeq(a) /\ IsSeq(b) /\ Len(a) \in Nat /\ Len(b) \in Nat
  BY DEF GoodBlocks, IsSeq
<1>1. /\ IsSeq(c) /\ Len(c) = Len(a) + Len(b) /\ \A i \in 1..Len(a) : c[i] = a[i]
      /\ \A i \in 1..Len(b) : c[Len(a) + i] = b[i]
  BY <1>0, Joined
<1> HIDE DEF c
<1>2. ASSUME NEW i \in 1..Len(c) PROVE IsSeq(c[i].text)
  <2>1. CASE i \in 1..Len(a)
    BY <1>1, <2>1 DEF GoodBlocks
  <2>2. CASE i \notin 1..Len(a)
    <3> DEFINE j == i - Len(a)
    <3>1. j \in 1..Len(b) /\ i = Len(a) + j
      BY <1>0, <1>1, <2>2
    <3> HIDE DEF j
    <3>2. c[i] = b[j]
      BY <1>1, <3>1
    <3> QED BY <3>1, <3>2 DEF GoodBlocks
  <2> QED BY <2>1, <2>2
<1>3. GoodBlocks(c)
  BY <1>1, <1>2 DEF GoodBlocks
<1>4. ASSUME NEW what \in Sides PROVE OfBlocks(c, what) = OfBlocks(a, what) \o OfBlocks(b, what)
  <2> DEFINE p == BlockParts(a, what)
  <2> DEFINE q == BlockParts(b, what)
  <2> DEFINE r == BlockParts(c, what)
  <2>1. /\ IsSeqs(p) /\ Len(p) = Len(a) /\ \A i \in 1..Len(a) : p[i] = OfBlock(a[i], what)
        /\ OfBlocks(a, what) = FlattenSeq(p)
    BY BlockPartsAreSeqs
  <2>2. /\ IsSeqs(q) /\ Len(q) = Len(b) /\ \A i \in 1..Len(b) : q[i] = OfBlock(b[i], what)
        /\ OfBlocks(b, what) = FlattenSeq(q)
    BY BlockPartsAreSeqs
  <2>3. /\ IsSeqs(r) /\ Len(r) = Len(c) /\ \A i \in 1..Len(c) : r[i] = OfBlock(c[i], what)
        /\ OfBlocks(c, what) = FlattenSeq(r)
    BY <1>3, BlockPartsAreSeqs
  <2> HIDE DEF p, q, r
  <2>4. ASSUME NEW i \in 1..Len(p) PROVE r[i] = p[i]
    <3>1. i \in 1..Len(a) /\ i \in 1..Len(c)
      BY <1>0, <1>1, <2>1
    <3> QED BY <1>1, <2>1, <2>3, <3>1
  <2>5. ASSUME NEW i \in 1..Len(q) PROVE r[Len(p) + i] = q[i]
    <3>1. i \in 1..Len(b) /\ Len(a) + i \in 1..Len(c)
      BY <1>0, <1>1, <2>2
    <3> QED BY <1>1, <2>1, <2>2, <2>3, <3>1
  <2>6. r = p \o q
    <3>1. IsSeq(p) /\ IsSeq(q) /\ IsSeq(r) /\ Len(r) = Len(p) + Len(q)
      BY <1>1, <2>1, <2>2, <2>3 DEF IsSeqs
    <3> QED BY <2>4, <2>5, <3>1, KnownJoined
  <2>7. FlattenSeq(p \o q) = FlattenSeq(p) \o FlattenSeq(q)
    BY <2>1, <2>2, FlatJoined
  <2> QED BY <2>1, <2>2, <2>3, <2>6, <2>7
<1> QED BY <1>3, <1>4 DEF c

BlockLists(L) == [i \in DOMAIN L |-> L[i].blocks]

LEMMA BlockListsAreSeqs ==
    ASSUME NEW L, GoodNatives(L)
    PROVE  /\ IsSeqs(BlockLists(L)) /\ Len(BlockLists(L)) = Len(L) /\ Blocks(L) = FlattenSeq(BlockLists(L))
           /\ \A i \in 1..Len(L) : BlockLists(L)[i] = L[i].blocks
<1> DEFINE p == BlockLists(L)
<1>1. DOMAIN L = 1..Len(L) /\ Len(L) \in Nat
  BY DEF GoodNatives, IsSeq
<1>2. \A i \in 1..Len(L) : p[i] = L[i].blocks
  BY <1>1 DEF BlockLists
<1>3. p = [i \in 1..Len(L) |-> p[i]]
  BY <1>1 DEF BlockLists
<1>4. Blocks(L) = FlattenSeq(p)
  BY DEF Blocks, BlockLists
<1> HIDE DEF p
<1>5. IsSeq(p) /\ Len(p) = Len(L)
  BY <1>1, <1>3, MappedIsSeq
<1>6. IsSeqs(p)
  BY <1>2, <1>5 DEF IsSeqs, GoodNatives, GoodNative, GoodBlocks
<1> QED BY <1>2, <1>4, <1>5, <1>6 DEF p

\* What one turn does to a native request.
RoleGrows(out, m, new) ==
    LET n == Len(out) IN
    /\ n # 0 /\ Len(new) = n /\ out[n].role = m.role
    /\ \A i \in 1..n : i # n => new[i] = out[i]
    /\ new[n] = [role |-> m.role, blocks |-> out[n].blocks \o m.blocks]

LEMMA RoleAdded ==
    ASSUME NEW out, GoodNatives(out), NEW m, GoodNative(m)
    PROVE  /\ \/ IsSeq(JoinRole(out, m)) /\ RoleGrows(out, m, JoinRole(out, m))
              \/ /\ JoinRole(out, m) = Append(out, m)
                 /\ Len(out) = 0 \/ out[Len(out)].role # m.role
<1>0. IsSeq(out) /\ Len(out) \in Nat
  BY DEF GoodNatives, IsSeq
<1> DEFINE n == Len(out)
<1> DEFINE l == out[n]
<1> DEFINE cond == out # <<>> /\ l.role = m.role
<1>2. JoinRole(out, m) = IF cond THEN [out EXCEPT ![n].blocks = @ \o m.blocks] ELSE Append(out, m)
  BY DEF JoinRole, Last
<1>3. out = <<>> <=> n = 0
  BY <1>0, FlatNothing, Tuples
<1>4. CASE ~cond
  BY <1>2, <1>3, <1>4
<1>5. CASE cond
  <2>1. n # 0 /\ n \in 1..n
    BY <1>0, <1>3, <1>5
  <2> DEFINE r == m.role
  <2> DEFINE a == l.blocks
  <2> DEFINE x == a \o m.blocks
  <2>2. l = [role |-> r, blocks |-> a]
    BY <1>5, <2>1 DEF GoodNatives, GoodNative
  <2> DEFINE new == [out EXCEPT ![n].blocks = @ \o m.blocks]
  <2> DEFINE k == [l EXCEPT !.blocks = x]
  <2>3. out = [i \in 1..n |-> out[i]]
    BY <1>0 DEF IsSeq
  <2>4. new = [i \in 1..n |-> IF i = n THEN k ELSE out[i]]
    BY <2>1, <2>3
  <2>5. k = [role |-> r, blocks |-> x]
    <3> HIDE DEF r, a, x, l
    <3> QED BY <2>2
  <2>6. JoinRole(out, m) = new
    BY <1>2, <1>5
  <2> HIDE DEF new, k
  <2>7. IsSeq(new) /\ Len(new) = n /\ new[n] = k /\ \A i \in 1..n : i # n => new[i] = out[i]
    <3>1. \A i \in 1..n : new[i] = IF i = n THEN k ELSE out[i]
      BY <2>4
    <3>2. new = [i \in 1..n |-> new[i]]
      BY <2>4
    <3> QED BY <1>0, <2>1, <3>1, <3>2, MappedIsSeq
  <2>8. RoleGrows(out, m, new)
    BY <1>5, <2>1, <2>5, <2>7 DEF RoleGrows
  <2> QED BY <2>6, <2>7, <2>8
<1> QED BY <1>4, <1>5

\* Joining keeps every block, in order.
LEMMA RoleBlocks ==
    ASSUME NEW out, GoodNatives(out), NEW m, GoodNative(m)
    PROVE  GoodNatives(JoinRole(out, m)) /\ Blocks(JoinRole(out, m)) = Blocks(out) \o m.blocks
<1> DEFINE new == JoinRole(out, m)
<1>0. IsSeq(out) /\ Len(out) \in Nat /\ GoodBlocks(m.blocks) /\ IsSeq(m.blocks)
  BY DEF GoodNatives, IsSeq, GoodNative, GoodBlocks
<1>1. \/ IsSeq(new) /\ RoleGrows(out, m, new)
      \/ new = Append(out, m)
  BY RoleAdded
<1> HIDE DEF new
<1>2. CASE new = Append(out, m)
  <2>1. /\ IsSeq(new) /\ Len(new) = Len(out) + 1 /\ new[Len(out) + 1] = m
        /\ \A i \in 1..Len(out) : new[i] = out[i]
    BY <1>0, <1>2, Appended
  <2>2. \A i \in 1..Len(new) : i \in 1..Len(out) \/ i = Len(out) + 1
    BY <1>0, <2>1
  <2>3. GoodNatives(new)
    BY <2>1, <2>2 DEF GoodNatives
  <2> DEFINE s == BlockLists(out)
  <2> DEFINE t == BlockLists(new)
  <2> DEFINE x == m.blocks
  <2>4. IsSeqs(s) /\ Len(s) = Len(out) /\ Blocks(out) = FlattenSeq(s) /\ \A i \in 1..Len(out) : s[i] = out[i].blocks
    BY BlockListsAreSeqs
  <2>5. IsSeqs(t) /\ Len(t) = Len(new) /\ Blocks(new) = FlattenSeq(t) /\ \A i \in 1..Len(new) : t[i] = new[i].blocks
    BY <2>3, BlockListsAreSeqs
  <2>6. Len(out) + 1 \in 1..Len(new) /\ \A i \in 1..Len(out) : i \in 1..Len(new)
    BY <1>0, <2>1
  <2>7. t[Len(t)] = x /\ \A i \in 1..Len(s) : t[i] = s[i]
    BY <2>1, <2>4, <2>5, <2>6
  <2> HIDE DEF s, t, x
  <2>8. Longer(s, t, x)
    BY <2>1, <2>4, <2>5, <2>7 DEF Longer, IsSeqs
  <2>9. FlattenSeq(t) = FlattenSeq(s) \o x
    BY <2>5, <2>8, FlatLonger
  <2> QED BY <2>3, <2>4, <2>5, <2>9 DEF x, new
<1>3. CASE IsSeq(new) /\ RoleGrows(out, m, new)
  <2> DEFINE n == Len(out)
  <2> DEFINE a == out[n].blocks
  <2> DEFINE b == m.blocks
  <2> DEFINE x == a \o b
  <2>1. /\ n # 0 /\ Len(new) = n /\ \A i \in 1..n : i # n => new[i] = out[i]
        /\ new[n] = [role |-> m.role, blocks |-> x]
    BY <1>3 DEF RoleGrows
  <2>2. n \in 1..n
    BY <1>0, <2>1
  <2>3. GoodBlocks(a) /\ GoodBlocks(b)
    BY <1>0, <2>2 DEF GoodNatives, GoodNative
  <2>4. GoodBlocks(x)
    <3> HIDE DEF a, b
    <3> QED BY <2>3, BlocksJoined
  <2>5. new[n].blocks = x
    <3> HIDE DEF x
    <3> QED BY <2>1
  <2>6. GoodNative(new[n])
    <3> HIDE DEF x
    <3>1. new[n] = [role |-> new[n].role, blocks |-> new[n].blocks]
      BY <2>1
    <3> QED BY <2>4, <2>5, <3>1 DEF GoodNative
  <2>7. GoodNatives(new)
    <3>1. ASSUME NEW i \in 1..Len(new) PROVE GoodNative(new[i])
      <4>1. CASE i = n
        BY <2>6, <4>1
      <4>2. CASE i # n
        <5>1. i \in 1..n /\ new[i] = out[i]
          BY <2>1, <4>2
        <5> QED BY <5>1 DEF GoodNatives
      <4> QED BY <4>1, <4>2
    <3> QED BY <1>3, <3>1 DEF GoodNatives
  <2> DEFINE s == BlockLists(out)
  <2> DEFINE t == BlockLists(new)
  <2>8. IsSeqs(s) /\ Len(s) = n /\ Blocks(out) = FlattenSeq(s) /\ \A i \in 1..n : s[i] = out[i].blocks
    BY BlockListsAreSeqs
  <2>9. IsSeqs(t) /\ Len(t) = n /\ Blocks(new) = FlattenSeq(t) /\ \A i \in 1..n : t[i] = new[i].blocks
    BY <2>1, <2>7, BlockListsAreSeqs
  <2>10. t[n] = s[n] \o b /\ \A i \in 1..n : i # n => t[i] = s[i]
    BY <2>1, <2>2, <2>5, <2>8, <2>9
  <2> HIDE DEF s, t, b
  <2>11. Grown(s, t, b)
    <3>1. IsSeq(b)
      BY <2>3 DEF GoodBlocks
    <3> QED BY <2>1, <2>8, <2>9, <2>10, <3>1 DEF Grown, IsSeqs
  <2>12. FlattenSeq(t) = FlattenSeq(s) \o b
    BY <2>11, FlatGrown
  <2> QED BY <2>7, <2>8, <2>9, <2>12 DEF b, new
<1> QED BY <1>1, <1>2, <1>3

\* So the whole request holds the blocks of all the turns.
LEMMA RolesTold ==
    ASSUME NEW L, GoodNatives(L)
    PROVE  /\ GoodNatives(JoinRoles(L)) /\ GoodBlocks(Blocks(JoinRoles(L)))
           /\ \A what \in Sides : OfBlocks(Blocks(JoinRoles(L)), what)
                = FlattenSeq([i \in 1..Len(L) |-> OfBlocks(L[i].blocks, what)])
<1>0. Len(L) \in Nat
  BY DEF GoodNatives, IsSeq
<1>1. PICK f : Goes("roles", <<>>, L, f) /\ JoinRoles(L) = f[Len(L)]
  BY <1>0, RolesLoop
<1>2. f[0] = <<>> /\ \A n \in 1..Len(L) : f[n] = JoinRole(f[n - 1], L[n])
  BY <1>1 DEF Goes, StepOf
<1> DEFINE Fine(n) == GoodNatives(f[n]) /\ GoodBlocks(Blocks(f[n]))
<1>3. Fine(0) /\ Blocks(f[0]) = <<>>
  <2>1. IsSeq(f[0]) /\ Len(f[0]) = 0
    BY <1>2, Tuples
  <2>2. GoodNatives(f[0])
    BY <2>1 DEF GoodNatives
  <2> DEFINE p == BlockLists(f[0])
  <2>3. IsSeq(p) /\ Len(p) = 0 /\ Blocks(f[0]) = FlattenSeq(p)
    BY <2>1, <2>2, BlockListsAreSeqs DEF IsSeqs
  <2> HIDE DEF p
  <2>4. Blocks(f[0]) = <<>>
    BY <2>3, FlatNothing
  <2>5. GoodBlocks(<<>>)
    BY Tuples DEF GoodBlocks
  <2> QED BY <2>2, <2>4, <2>5
<1>4. ASSUME NEW n \in Nat, n + 1 =< Len(L), Fine(n)
      PROVE  /\ Fine(n + 1) /\ Blocks(f[n + 1]) = Blocks(f[n]) \o L[n + 1].blocks
             /\ GoodBlocks(L[n + 1].blocks)
  <2>1. n + 1 \in 1..Len(L) /\ (n + 1) - 1 = n
    BY <1>0, <1>4
  <2>2. f[n + 1] = JoinRole(f[n], L[n + 1]) /\ GoodNative(L[n + 1])
    BY <1>2, <2>1 DEF GoodNatives
  <2>3. GoodNatives(f[n + 1]) /\ Blocks(f[n + 1]) = Blocks(f[n]) \o L[n + 1].blocks
    BY <1>4, <2>2, RoleBlocks
  <2> DEFINE a == Blocks(f[n])
  <2> DEFINE b == L[n + 1].blocks
  <2>4. GoodBlocks(a) /\ GoodBlocks(b)
    BY <1>4, <2>2 DEF GoodNative
  <2>5. GoodBlocks(a \o b)
    <3> HIDE DEF a, b
    <3> QED BY <2>4, BlocksJoined
  <2> QED BY <2>3, <2>4, <2>5
<1> DEFINE T == {n \in Nat : n =< Len(L) => Fine(n)}
<1>5. \A n \in Nat : n \in T
  <2>1. 0 \in T
    BY <1>3
  <2>2. ASSUME NEW n \in Nat, n \in T PROVE n + 1 \in T
    <3>1. n + 1 =< Len(L) => n =< Len(L)
      BY <1>0
    <3>2. n + 1 =< Len(L) => Fine(n + 1)
      BY <1>4, <2>2, <3>1
    <3>3. n + 1 \in Nat
      OBVIOUS
    <3> HIDE DEF Fine
    <3> QED BY <3>2, <3>3
  <2> HIDE DEF T
  <2> QED BY <2>1, <2>2, ByNat
<1>6. \A n \in 0..Len(L) : Fine(n)
  <2> HIDE DEF Fine
  <2> QED BY <1>0, <1>5
<1>7. ASSUME NEW what \in Sides
      PROVE  OfBlocks(Blocks(f[Len(L)]), what)
                = FlattenSeq([i \in 1..Len(L) |-> OfBlocks(L[i].blocks, what)])
  <2> DEFINE P == [i \in 1..Len(L) |-> OfBlocks(L[i].blocks, what)]
  <2> DEFINE g == [n \in 0..Len(L) |-> OfBlocks(Blocks(f[n]), what)]
  <2>1. \A i \in 1..Len(L) : P[i] = OfBlocks(L[i].blocks, what)
    OBVIOUS
  <2>2. IsSeqs(P) /\ Len(P) = Len(L)
    <3>1. P = [i \in 1..Len(L) |-> P[i]]
      OBVIOUS
    <3>2. ASSUME NEW i \in 1..Len(L) PROVE IsSeq(OfBlocks(L[i].blocks, what))
      <4>1. GoodBlocks(L[i].blocks)
        BY DEF GoodNatives, GoodNative
      <4> QED BY <4>1, BlockPartsAreSeqs
    <3> HIDE DEF P
    <3>3. IsSeq(P) /\ Len(P) = Len(L)
      BY <1>0, <3>1, MappedIsSeq
    <3> QED BY <2>1, <3>2, <3>3 DEF IsSeqs
  <2>3. g[0] = <<>>
    <3>1. g[0] = OfBlocks(<<>>, what)
      BY <1>0, <1>3
    <3> DEFINE e == <<>>
    <3>2. GoodBlocks(e) /\ Len(e) = 0
      BY Tuples DEF GoodBlocks
    <3> HIDE DEF e
    <3> DEFINE p == BlockParts(e, what)
    <3>3. IsSeq(p) /\ Len(p) = 0 /\ OfBlocks(e, what) = FlattenSeq(p)
      BY <3>2, BlockPartsAreSeqs DEF IsSeqs
    <3> HIDE DEF p
    <3>4. OfBlocks(e, what) = <<>>
      BY <3>3, FlatNothing
    <3> QED BY <3>1, <3>4 DEF e
  <2>4. ASSUME NEW n \in 1..Len(P) PROVE g[n] = g[n - 1] \o P[n]
    <3> DEFINE k == n - 1
    <3>1. n \in 1..Len(L) /\ k \in 0..Len(L) /\ n \in 0..Len(L) /\ k \in Nat /\ k + 1 =< Len(L) /\ k + 1 = n
      BY <1>0, <2>2
    <3>2. g[n] = OfBlocks(Blocks(f[n]), what) /\ g[n - 1] = OfBlocks(Blocks(f[k]), what)
      BY <3>1
    <3> HIDE DEF k
    <3>3. Fine(k)
      BY <1>6, <3>1
    <3>4. Blocks(f[k + 1]) = Blocks(f[k]) \o L[k + 1].blocks /\ GoodBlocks(L[k + 1].blocks)
      BY <1>4, <3>1, <3>3
    <3> DEFINE a == Blocks(f[k])
    <3> DEFINE b == L[n].blocks
    <3>5. GoodBlocks(a) /\ GoodBlocks(b) /\ Blocks(f[n]) = a \o b
      BY <3>1, <3>3, <3>4
    <3> HIDE DEF a, b
    <3>6. OfBlocks(a \o b, what) = OfBlocks(a, what) \o OfBlocks(b, what)
      BY <3>5, BlocksJoined
    <3>7. P[n] = OfBlocks(b, what)
      BY <2>1, <3>1 DEF b
    <3>8. g[n] = OfBlocks(a \o b, what) /\ g[n - 1] = OfBlocks(a, what)
      BY <3>2, <3>5 DEF a
    <3> HIDE DEF g, P
    <3> QED BY <3>6, <3>7, <3>8
  <2>5. g[Len(L)] = OfBlocks(Blocks(f[Len(L)]), what)
    BY <1>0
  <2>6. IsSeq(g[0]) /\ IsSeq(FlattenSeq(P))
    BY <2>2, <2>3, Tuples, FlatIsSeq
  <2> HIDE DEF P, g
  <2>7. g[Len(P)] = g[0] \o FlattenSeq(P)
    BY <2>2, <2>4, <2>6, FlatSteps
  <2>8. g[Len(L)] = FlattenSeq(P)
    BY <2>2, <2>3, <2>6, <2>7, JoinedNone
  <2> QED BY <2>5, <2>8 DEF P
<1>8. Fine(Len(L))
  BY <1>0, <1>6
<1> QED BY <1>1, <1>7, <1>8

\* Taking a sequence apart and putting it together again.
LEMMA FlatSingles ==
    ASSUME NEW s, IsSeq(s), NEW P, IsSeqs(P), Len(P) = Len(s), \A i \in 1..Len(s) : P[i] = <<s[i]>>
    PROVE  FlattenSeq(P) = s
<1>0. Len(s) \in Nat
  BY DEF IsSeq
<1> DEFINE g == [n \in 0..Len(s) |-> [i \in 1..n |-> s[i]]]
<1>1. \A n \in 0..Len(s) : IsSeq(g[n]) /\ Len(g[n]) = n /\ \A i \in 1..n : g[n][i] = s[i]
  <2> SUFFICES ASSUME NEW n \in 0..Len(s)
               PROVE  IsSeq(g[n]) /\ Len(g[n]) = n /\ \A i \in 1..n : g[n][i] = s[i]
    OBVIOUS
  <2> DEFINE h == g[n]
  <2>1. n \in Nat /\ h = [i \in 1..n |-> s[i]]
    BY <1>0
  <2> HIDE DEF h, g
  <2>2. h = [i \in 1..n |-> h[i]] /\ \A i \in 1..n : h[i] = s[i]
    BY <2>1
  <2>3. IsSeq(h) /\ Len(h) = n
    BY <2>1, <2>2, MappedIsSeq
  <2> QED BY <2>2, <2>3 DEF h
<1> HIDE DEF g
<1>2. ASSUME NEW n \in 1..Len(P) PROVE g[n] = g[n - 1] \o P[n]
  <2> DEFINE a == g[n - 1]
  <2> DEFINE b == g[n]
  <2> DEFINE x == P[n]
  <2>1. n - 1 \in 0..Len(s) /\ n \in 0..Len(s) /\ n \in 1..Len(s) /\ n = (n - 1) + 1
    BY <1>0
  <2>2. IsSeq(a) /\ Len(a) = n - 1 /\ \A i \in 1..(n - 1) : a[i] = s[i]
    BY <1>1, <2>1
  <2>3. IsSeq(b) /\ Len(b) = n /\ \A i \in 1..n : b[i] = s[i]
    BY <1>1, <2>1
  <2>4. IsSeq(x) /\ Len(x) = 1 /\ x[1] = s[n]
    BY <2>1, Tuples, ZenonT(60)
  <2> HIDE DEF a, b, x
  <2>5. \A i \in 1..Len(a) : b[i] = a[i]
    BY <2>1, <2>2, <2>3
  <2>6. ASSUME NEW i \in 1..Len(x) PROVE b[Len(a) + i] = x[i]
    <3>1. i = 1 /\ Len(a) + i = n /\ n \in 1..n
      BY <2>1, <2>2, <2>4
    <3> QED BY <2>3, <2>4, <3>1
  <2>7. Len(b) = Len(a) + Len(x)
    BY <2>1, <2>2, <2>3, <2>4
  <2> QED BY <2>2, <2>3, <2>4, <2>5, <2>6, <2>7, KnownJoined DEF a, b, x
<1>3. IsSeq(g[0]) /\ Len(g[0]) = 0 /\ IsSeq(g[Len(s)]) /\ Len(g[Len(s)]) = Len(s)
      /\ \A i \in 1..Len(s) : g[Len(s)][i] = s[i]
  BY <1>0, <1>1
<1>4. g[0] = <<>>
  <2> DEFINE z == g[0]
  <2>1. IsSeq(z) /\ Len(z) = 0
    BY <1>3
  <2> HIDE DEF z
  <2> QED BY <2>1, FlatNothing DEF z
<1>5. g[Len(P)] = g[0] \o FlattenSeq(P)
  BY <1>2, <1>3, FlatSteps
<1>6. g[Len(s)] = FlattenSeq(P)
  BY <1>4, <1>5, FlatIsSeq, JoinedNone
<1>7. g[Len(s)] = s
  <2> DEFINE w == g[Len(s)]
  <2>1. IsSeq(w) /\ Len(w) = Len(s) /\ \A i \in 1..Len(w) : w[i] = s[i]
    BY <1>3
  <2> HIDE DEF w
  <2> QED BY <2>1, SameSeq DEF w
<1> QED BY <1>6, <1>7

IdOf(id) == IF id = NoId THEN <<>> ELSE <<id>>

LEMMA BlockFields ==
    \A t, w, id : LET b == Block(t, w, id) IN b.type = t /\ b.text = w /\ b.id = id
BY DEF Block

\* A message of one block,
LEMMA OneBlock ==
    ASSUME NEW t, NEW w, IsSeq(w), NEW id, NEW x, x = <<Block(t, w, id)>>
    PROVE  GoodBlocks(x) /\ OfBlocks(x, "words") = w /\ OfBlocks(x, "ids") = IdOf(id)
<1> DEFINE b == Block(t, w, id)
<1>1. b.text = w /\ b.id = id
  BY BlockFields
<1> HIDE DEF b
<1>2. IsSeq(x) /\ Len(x) = 1 /\ x[1] = b
  BY Tuples DEF b
<1>3. GoodBlocks(x)
  BY <1>1, <1>2 DEF GoodBlocks
<1>4. OfBlock(b, "words") = w /\ OfBlock(b, "ids") = IdOf(id)
  BY <1>1 DEF OfBlock, IdOf
<1>5. ASSUME NEW what \in Sides PROVE OfBlocks(x, what) = OfBlock(b, what)
  <2> DEFINE p == BlockParts(x, what)
  <2>1. IsSeqs(p) /\ Len(p) = 1 /\ p[1] = OfBlock(b, what) /\ OfBlocks(x, what) = FlattenSeq(p)
    BY <1>2, <1>3, BlockPartsAreSeqs
  <2> HIDE DEF p
  <2>2. 1 \in 1..Len(p) /\ IsSeq(p) /\ IsSeq(p[1]) /\ \A i \in 1..Len(p) : i # 1 => p[i] = <<>>
    BY <2>1 DEF IsSeqs
  <2>3. FlattenSeq(p) = p[1]
    BY <2>2, FlatOnly
  <2> QED BY <2>1, <2>3
<1> QED BY <1>3, <1>4, <1>5 DEF Sides

\* of none,
LEMMA NoBlock ==
    GoodBlocks(<<>>) /\ OfBlocks(<<>>, "words") = <<>> /\ OfBlocks(<<>>, "ids") = <<>>
<1> DEFINE e == <<>>
<1>1. GoodBlocks(e) /\ Len(e) = 0
  BY Tuples DEF GoodBlocks
<1> HIDE DEF e
<1>2. ASSUME NEW what \in Sides PROVE OfBlocks(e, what) = <<>>
  <2> DEFINE p == BlockParts(e, what)
  <2>1. IsSeq(p) /\ Len(p) = 0 /\ OfBlocks(e, what) = FlattenSeq(p)
    BY <1>1, BlockPartsAreSeqs DEF IsSeqs
  <2> HIDE DEF p
  <2> QED BY <2>1, FlatNothing
<1> QED BY <1>1, <1>2 DEF e, Sides

\* and of a block for each call.
CallsOf(m) == [i \in DOMAIN m.calls |-> Block("call", <<>>, m.calls[i])]

LEMMA CallBlocks ==
    ASSUME NEW m, GoodMsg(m)
    PROVE  /\ GoodBlocks(CallsOf(m)) /\ Len(CallsOf(m)) = Len(m.calls)
           /\ \A i \in 1..Len(m.calls) : CallsOf(m)[i] = Block("call", <<>>, m.calls[i])
           /\ OfBlocks(CallsOf(m), "words") = <<>> /\ OfBlocks(CallsOf(m), "ids") = m.calls
<1> DEFINE c == m.calls
<1> DEFINE x == CallsOf(m)
<1>1. IsSeq(c) /\ Len(c) \in Nat /\ DOMAIN c = 1..Len(c) /\ \A i \in 1..Len(c) : c[i] # NoId
  BY DEF GoodMsg, IsSeq
<1>2. x = [i \in DOMAIN c |-> Block("call", <<>>, c[i])]
  BY DEF CallsOf
<1> HIDE DEF x, c
<1>3. x = [i \in 1..Len(c) |-> x[i]] /\ \A i \in 1..Len(c) : x[i] = Block("call", <<>>, c[i])
  BY <1>1, <1>2
<1>4. IsSeq(x) /\ Len(x) = Len(c)
  BY <1>1, <1>3, MappedIsSeq
<1>5. \A i \in 1..Len(c) : x[i].text = <<>> /\ x[i].id = c[i]
  BY <1>3, BlockFields
<1>6. GoodBlocks(x)
  BY <1>4, <1>5, Tuples DEF GoodBlocks
<1>7. \A i \in 1..Len(c) : OfBlock(x[i], "words") = <<>> /\ OfBlock(x[i], "ids") = <<c[i]>>
  BY <1>1, <1>5 DEF OfBlock
<1>8. OfBlocks(x, "words") = <<>>
  <2> DEFINE p == BlockParts(x, "words")
  <2>1. IsSeq(p) /\ Len(p) = Len(c) /\ OfBlocks(x, "words") = FlattenSeq(p)
        /\ \A i \in 1..Len(c) : p[i] = OfBlock(x[i], "words")
    BY <1>4, <1>6, BlockPartsAreSeqs DEF IsSeqs, Sides
  <2> HIDE DEF p
  <2>2. \A i \in 1..Len(p) : p[i] = <<>>
    BY <1>7, <2>1
  <2> QED BY <2>1, <2>2, FlatNone
<1>9. OfBlocks(x, "ids") = c
  <2> DEFINE p == BlockParts(x, "ids")
  <2>1. IsSeqs(p) /\ Len(p) = Len(c) /\ OfBlocks(x, "ids") = FlattenSeq(p)
        /\ \A i \in 1..Len(c) : p[i] = OfBlock(x[i], "ids")
    BY <1>4, <1>6, BlockPartsAreSeqs DEF Sides
  <2> HIDE DEF p
  <2>2. \A i \in 1..Len(c) : p[i] = <<c[i]>>
    BY <1>7, <2>1
  <2> QED BY <1>1, <2>1, <2>2, FlatSingles
<1> QED BY <1>3, <1>4, <1>6, <1>8, <1>9 DEF x, c

\* The blocks of a turn hold what the turn holds.
LEMMA TurnBlocksTold ==
    ASSUME NEW m, GoodMsg(m), NEW asks, asks \/ m.calls = <<>>
    PROVE  /\ GoodBlocks(TurnBlocks(m, asks))
           /\ OfBlocks(TurnBlocks(m, asks), "words") = m.text /\ OfBlocks(TurnBlocks(m, asks), "ids") = m.calls
<1>0. IsSeq(m.text) /\ IsSeq(m.calls) /\ IsSeq(<<>>)
  BY Tuples DEF GoodMsg
<1> DEFINE a == IF m.text # <<>> \/ m.calls = <<>> THEN <<Block("text", m.text, NoId)>> ELSE <<>>
<1> DEFINE b == IF asks THEN CallsOf(m) ELSE <<>>
<1>1. TurnBlocks(m, asks) = a \o b
  BY DEF TurnBlocks, CallsOf
<1>2. GoodBlocks(a) /\ OfBlocks(a, "words") = m.text /\ OfBlocks(a, "ids") = <<>>
  <2>1. ASSUME NEW x, x = <<Block("text", m.text, NoId)>>
        PROVE  GoodBlocks(x) /\ OfBlocks(x, "words") = m.text /\ OfBlocks(x, "ids") = <<>>
    BY <1>0, <2>1, OneBlock DEF IdOf
  <2>2. CASE m.text # <<>> \/ m.calls = <<>>
    BY <2>1, <2>2
  <2>3. CASE ~(m.text # <<>> \/ m.calls = <<>>)
    BY <2>3, NoBlock
  <2> QED BY <2>2, <2>3
<1>3. GoodBlocks(b) /\ OfBlocks(b, "words") = <<>> /\ OfBlocks(b, "ids") = m.calls
  BY CallBlocks, NoBlock
<1> HIDE DEF a, b
<1>4. GoodBlocks(a \o b) /\ \A what \in Sides : OfBlocks(a \o b, what) = OfBlocks(a, what) \o OfBlocks(b, what)
  BY <1>2, <1>3, BlocksJoined
<1>5. m.text \o <<>> = m.text /\ <<>> \o m.calls = m.calls
  BY <1>0, JoinedNone
<1>6. OfBlocks(a \o b, "words") = m.text \o <<>> /\ OfBlocks(a \o b, "ids") = <<>> \o m.calls
  BY <1>2, <1>3, <1>4 DEF Sides
<1> QED BY <1>1, <1>4, <1>5, <1>6

LEMMA NativeFields ==
    \A r, bs : LET n == [role |-> r, blocks |-> bs] IN
      n.role = r /\ n.blocks = bs /\ n = [role |-> n.role, blocks |-> n.blocks]
OBVIOUS

\* What the two native forms of a turn have in common.
NativeOf(n, m) ==
    /\ GoodNative(n) /\ \A what \in Sides : OfBlocks(n.blocks, what) = OfMsg(m, what)

LEMMA TurnParts ==
    ASSUME NEW m, GoodMsg(m), ~IsSystem(m)
    PROVE  /\ OfMsg(m, "words") = m.text
           /\ m.role = "tool" => OfMsg(m, "ids") = <<m.answers>> /\ m.answers # NoId
           /\ m.role # "tool" => OfMsg(m, "ids") = m.calls
<1>1. OfMsg(m, "words") = m.text /\ OfMsg(m, "ids") = m.calls \o (IF m.answers = NoId THEN <<>> ELSE <<m.answers>>)
  BY DEF OfMsg
<1>2. CASE m.role = "tool"
  <2> DEFINE x == <<m.answers>>
  <2>1. m.calls = <<>> /\ m.answers # NoId /\ OfMsg(m, "ids") = <<>> \o x /\ IsSeq(x)
    BY <1>1, <1>2, Tuples DEF GoodMsg
  <2>2. <<>> \o x = x
    <3> HIDE DEF x
    <3> QED BY <2>1, JoinedNone
  <2> QED BY <1>1, <1>2, <2>1, <2>2
<1>3. CASE m.role # "tool"
  <2> DEFINE c == m.calls
  <2>1. m.answers = NoId /\ IsSeq(c)
    BY <1>3 DEF GoodMsg
  <2>2. OfMsg(m, "ids") = c \o <<>>
    BY <1>1, <2>1
  <2>3. c \o <<>> = c
    <3> HIDE DEF c
    <3> QED BY <2>1, JoinedNone
  <2> QED BY <1>1, <1>3, <2>2, <2>3
<1> QED BY <1>2, <1>3

LEMMA AnthropicTurn ==
    ASSUME NEW m, GoodMsg(m), ~IsSystem(m)
    PROVE  NativeOf(AnthropicBlocks(m), m)
<1>0. IsSeq(m.text)
  BY DEF GoodMsg
<1>1. CASE m.role = "tool"
  <2> DEFINE x == <<Block("result", m.text, m.answers)>>
  <2>1. AnthropicBlocks(m) = [role |-> "user", blocks |-> x]
    BY <1>1 DEF AnthropicBlocks
  <2>2. GoodBlocks(x) /\ OfBlocks(x, "words") = m.text /\ OfBlocks(x, "ids") = <<m.answers>>
    <3>1. m.answers # NoId
      BY <1>1 DEF GoodMsg
    <3>2. IdOf(m.answers) = <<m.answers>> /\ x = <<Block("result", m.text, m.answers)>>
      BY <3>1 DEF IdOf
    <3> HIDE DEF x
    <3>3. GoodBlocks(x) /\ OfBlocks(x, "words") = m.text /\ OfBlocks(x, "ids") = IdOf(m.answers)
      BY <1>0, <3>2, OneBlock
    <3> QED BY <3>2, <3>3
  <2> HIDE DEF x
  <2> QED BY <1>1, <2>1, <2>2, NativeFields, TurnParts DEF NativeOf, GoodNative, Sides
<1>2. CASE m.role # "tool"
  <2> DEFINE r == IF m.role = "assistant" THEN "assistant" ELSE "user"
  <2> DEFINE asks == r = "assistant"
  <2> DEFINE x == TurnBlocks(m, asks)
  <2>1. AnthropicBlocks(m) = [role |-> r, blocks |-> x]
    BY <1>2 DEF AnthropicBlocks
  <2>2. asks \/ m.calls = <<>>
    BY DEF GoodMsg
  <2> HIDE DEF asks
  <2>3. GoodBlocks(x) /\ OfBlocks(x, "words") = m.text /\ OfBlocks(x, "ids") = m.calls
    BY <2>2, TurnBlocksTold
  <2> HIDE DEF x, r
  <2> QED BY <1>2, <2>1, <2>3, NativeFields, TurnParts DEF NativeOf, GoodNative, Sides
<1> QED BY <1>1, <1>2

LEMMA GoogleTurn ==
    ASSUME NEW m, GoodMsg(m), ~IsSystem(m), NEW names, m.role = "tool" => m.answers \in names
    PROVE  NativeOf(GoogleParts(m, names), m)
<1>0. IsSeq(m.text)
  BY DEF GoodMsg
<1>1. CASE m.role = "tool"
  <2> DEFINE x == <<Block("result", m.text, m.answers)>>
  <2>1. GoogleParts(m, names) = [role |-> "user", blocks |-> x]
    BY <1>1 DEF GoogleParts
  <2>2. GoodBlocks(x) /\ OfBlocks(x, "words") = m.text /\ OfBlocks(x, "ids") = <<m.answers>>
    <3>1. m.answers # NoId
      BY <1>1 DEF GoodMsg
    <3>2. IdOf(m.answers) = <<m.answers>> /\ x = <<Block("result", m.text, m.answers)>>
      BY <3>1 DEF IdOf
    <3> HIDE DEF x
    <3>3. GoodBlocks(x) /\ OfBlocks(x, "words") = m.text /\ OfBlocks(x, "ids") = IdOf(m.answers)
      BY <1>0, <3>2, OneBlock
    <3> QED BY <3>2, <3>3
  <2> HIDE DEF x
  <2> QED BY <1>1, <2>1, <2>2, NativeFields, TurnParts DEF NativeOf, GoodNative, Sides
<1>2. CASE m.role # "tool"
  <2> DEFINE r == IF m.role = "assistant" THEN "model" ELSE "user"
  <2> DEFINE asks == r = "model"
  <2> DEFINE x == TurnBlocks(m, asks)
  <2>1. GoogleParts(m, names) = [role |-> r, blocks |-> x]
    BY <1>2 DEF GoogleParts
  <2>2. asks \/ m.calls = <<>>
    BY DEF GoodMsg
  <2> HIDE DEF asks
  <2>3. GoodBlocks(x) /\ OfBlocks(x, "words") = m.text /\ OfBlocks(x, "ids") = m.calls
    BY <2>2, TurnBlocksTold
  <2> HIDE DEF x, r
  <2> QED BY <1>2, <2>1, <2>3, NativeFields, TurnParts DEF NativeOf, GoodNative, Sides
<1> QED BY <1>1, <1>2

\* A request made of the native forms of the turns holds what the turns hold.
NativesOf(L, T) ==
    IsSeq(L) /\ Len(L) = Len(T) /\ \A i \in 1..Len(T) : NativeOf(L[i], T[i])

LEMMA NativesTold ==
    ASSUME NEW T, GoodTurns(T), NEW L, NativesOf(L, T)
    PROVE  /\ GoodNatives(L) /\ GoodNatives(JoinRoles(L)) /\ GoodBlocks(Blocks(JoinRoles(L)))
           /\ \A what \in Sides : OfBlocks(Blocks(JoinRoles(L)), what) = Told(T, what)
<1>1. IsSeq(L) /\ Len(L) = Len(T) /\ Len(L) \in Nat /\ DOMAIN T = 1..Len(L) /\ GoodMsgs(T)
  BY DEF NativesOf, GoodTurns, GoodMsgs, IsSeq
<1>2. GoodNatives(L)
  BY DEF NativesOf, NativeOf, GoodNatives
<1>3. GoodNatives(JoinRoles(L)) /\ GoodBlocks(Blocks(JoinRoles(L)))
  BY <1>2, RolesTold
<1>4. ASSUME NEW what \in Sides PROVE OfBlocks(Blocks(JoinRoles(L)), what) = Told(T, what)
  <2> DEFINE p == [i \in 1..Len(L) |-> OfBlocks(L[i].blocks, what)]
  <2>1. OfBlocks(Blocks(JoinRoles(L)), what) = FlattenSeq(p)
    BY <1>2, RolesTold
  <2>2. \A i \in 1..Len(L) : OfBlocks(L[i].blocks, what) = OfMsg(T[i], what)
    BY <1>1 DEF NativesOf, NativeOf
  <2>3. MsgParts(T, what) = [i \in 1..Len(L) |-> OfMsg(T[i], what)]
    BY <1>1 DEF MsgParts
  <2>4. p = MsgParts(T, what)
    BY <2>2, <2>3
  <2> HIDE DEF p
  <2> QED BY <2>1, <2>4 DEF Told
<1> QED BY <1>2, <1>3, <1>4

AnthropicList(T) == [i \in DOMAIN T |-> AnthropicBlocks(T[i])]
GoogleList(T, names) == [i \in DOMAIN T |-> GoogleParts(T[i], names)]
Names(T) == UNION {ToSet(T[i].calls) : i \in DOMAIN T}

\* Every result is that of a call.
ResultsKnown(T) == \A i \in 1..Len(T) : T[i].role = "tool" => T[i].answers \in Names(T)

LEMMA AnthropicNatives ==
    ASSUME NEW T, GoodTurns(T)
    PROVE  NativesOf(AnthropicList(T), T) /\ \A i \in 1..Len(T) : AnthropicList(T)[i] = AnthropicBlocks(T[i])
<1> DEFINE L == AnthropicList(T)
<1>1. Len(T) \in Nat /\ DOMAIN T = 1..Len(T)
  BY DEF GoodTurns, GoodMsgs, IsSeq
<1>2. L = [i \in 1..Len(T) |-> L[i]] /\ \A i \in 1..Len(T) : L[i] = AnthropicBlocks(T[i])
  BY <1>1 DEF AnthropicList
<1> HIDE DEF L
<1>3. IsSeq(L) /\ Len(L) = Len(T)
  BY <1>1, <1>2, MappedIsSeq
<1>4. ASSUME NEW i \in 1..Len(T) PROVE NativeOf(L[i], T[i])
  <2>1. GoodMsg(T[i]) /\ ~IsSystem(T[i])
    BY DEF GoodTurns, GoodMsgs
  <2> QED BY <1>2, <2>1, AnthropicTurn
<1> QED BY <1>2, <1>3, <1>4 DEF NativesOf, L

LEMMA GoogleNatives ==
    ASSUME NEW T, GoodTurns(T), NEW names, \A i \in 1..Len(T) : T[i].role = "tool" => T[i].answers \in names
    PROVE  /\ NativesOf(GoogleList(T, names), T)
           /\ \A i \in 1..Len(T) : GoogleList(T, names)[i] = GoogleParts(T[i], names)
<1> DEFINE L == GoogleList(T, names)
<1>1. Len(T) \in Nat /\ DOMAIN T = 1..Len(T)
  BY DEF GoodTurns, GoodMsgs, IsSeq
<1>2. L = [i \in 1..Len(T) |-> L[i]] /\ \A i \in 1..Len(T) : L[i] = GoogleParts(T[i], names)
  BY <1>1 DEF GoogleList
<1> HIDE DEF L
<1>3. IsSeq(L) /\ Len(L) = Len(T)
  BY <1>1, <1>2, MappedIsSeq
<1>4. ASSUME NEW i \in 1..Len(T) PROVE NativeOf(L[i], T[i])
  <2>1. GoodMsg(T[i]) /\ ~IsSystem(T[i]) /\ (T[i].role = "tool" => T[i].answers \in names)
    BY DEF GoodTurns, GoodMsgs
  <2>2. NativeOf(GoogleParts(T[i], names), T[i])
    BY <2>1, GoogleTurn
  <2> QED BY <1>2, <2>2
<1> QED BY <1>2, <1>3, <1>4 DEF NativesOf, L

LEMMA GoogleTold ==
    ASSUME NEW T, GoodTurns(T), ResultsKnown(T)
    PROVE  \A what \in Sides : OfBlocks(Blocks(GoogleContents(T)), what) = Told(T, what)
<1>1. GoogleContents(T) = JoinRoles(GoogleList(T, Names(T)))
  BY DEF GoogleContents, GoogleList, Names
<1>2. NativesOf(GoogleList(T, Names(T)), T)
  <2> DEFINE names == Names(T)
  <2>1. \A i \in 1..Len(T) : T[i].role = "tool" => T[i].answers \in names
    BY DEF ResultsKnown
  <2> HIDE DEF names
  <2>2. NativesOf(GoogleList(T, names), T)
    BY <2>1, GoogleNatives
  <2> QED BY <2>2 DEF names
<1> DEFINE L == GoogleList(T, Names(T))
<1> HIDE DEF L
<1>3. \A what \in Sides : OfBlocks(Blocks(JoinRoles(L)), what) = Told(T, what)
  BY <1>2, NativesTold DEF L
<1> QED BY <1>1, <1>3 DEF L

\* The user turn Anthropic's conversation may have to open with.
LEMMA Opened ==
    ASSUME NEW N, GoodNatives(N), GoodBlocks(Blocks(N))
    PROVE  LET M == <<Continue>> \o N IN
           /\ IsSeq(M) /\ Len(M) = Len(N) + 1 /\ M[1] = Continue /\ \A i \in 1..Len(N) : M[i + 1] = N[i]
           /\ OfBlocks(Blocks(M), "words") = <<0>> \o OfBlocks(Blocks(N), "words")
           /\ OfBlocks(Blocks(M), "ids") = OfBlocks(Blocks(N), "ids")
<1> DEFINE c == <<Continue>>
<1> DEFINE M == c \o N
<1>0. IsSeq(N) /\ Len(N) \in Nat
  BY DEF GoodNatives, IsSeq
<1>1. IsSeq(c) /\ Len(c) = 1 /\ c[1] = Continue
  BY Tuples
<1> HIDE DEF c
<1>2. /\ IsSeq(M) /\ Len(M) = Len(c) + Len(N) /\ \A i \in 1..Len(c) : M[i] = c[i]
      /\ \A i \in 1..Len(N) : M[Len(c) + i] = N[i]
  <2>1. IsSeq(c) /\ IsSeq(N)
    BY <1>0, <1>1
  <2> QED BY <2>1, Joined
<1> HIDE DEF M
<1>3. Len(M) = Len(N) + 1 /\ M[1] = Continue
  BY <1>0, <1>1, <1>2
<1>4. ASSUME NEW i \in 1..Len(N) PROVE M[i + 1] = N[i]
  <2>1. Len(c) + i = i + 1
    BY <1>0, <1>1
  <2> QED BY <1>2, <2>1
<1> DEFINE x == <<Block("text", <<0>>, NoId)>>
<1>5. Continue.blocks = x /\ Continue = [role |-> Continue.role, blocks |-> Continue.blocks] /\ Continue.role = "user"
  BY DEF Continue
<1>6. GoodBlocks(x) /\ OfBlocks(x, "words") = <<0>> /\ OfBlocks(x, "ids") = <<>>
  <2>1. IsSeq(<<0>>) /\ x = <<Block("text", <<0>>, NoId)>> /\ IdOf(NoId) = <<>>
    BY Tuples DEF IdOf
  <2> HIDE DEF x
  <2> QED BY <2>1, OneBlock
<1> HIDE DEF x
<1>7. GoodNatives(M)
  <2>1. ASSUME NEW i \in 1..Len(M) PROVE GoodNative(M[i])
    <3>1. CASE i = 1
      BY <1>3, <1>5, <1>6, <3>1 DEF GoodNative
    <3>2. CASE i # 1
      <4> DEFINE j == i - 1
      <4>1. j \in 1..Len(N) /\ i = j + 1
        BY <1>0, <1>3, <3>2
      <4> HIDE DEF j
      <4>2. M[i] = N[j]
        BY <1>4, <4>1
      <4> QED BY <4>1, <4>2 DEF GoodNatives
    <3> QED BY <3>1, <3>2
  <2> QED BY <1>2, <2>1 DEF GoodNatives
<1>8. Blocks(M) = x \o Blocks(N)
  <2> DEFINE s == BlockLists(M)
  <2> DEFINE t == BlockLists(N)
  <2>1. IsSeqs(s) /\ Len(s) = Len(M) /\ Blocks(M) = FlattenSeq(s) /\ \A i \in 1..Len(M) : s[i] = M[i].blocks
    BY <1>7, BlockListsAreSeqs
  <2>2. IsSeqs(t) /\ Len(t) = Len(N) /\ Blocks(N) = FlattenSeq(t) /\ \A i \in 1..Len(N) : t[i] = N[i].blocks
    BY BlockListsAreSeqs
  <2> HIDE DEF s, t
  <2>3. ASSUME NEW i \in 1..Len(t) PROVE t[i] = s[i + 1]
    <3>1. i \in 1..Len(N) /\ i + 1 \in 1..Len(M)
      BY <1>0, <1>3, <2>2
    <3> QED BY <1>4, <2>1, <2>2, <3>1
  <2>4. s[1] = x
    <3>1. 1 \in 1..Len(M)
      BY <1>0, <1>3
    <3> QED BY <1>3, <1>5, <2>1, <3>1
  <2>5. FlattenSeq(s) = s[1] \o FlattenSeq(t)
    BY <1>3, <2>1, <2>2, <2>3, FlatHead DEF IsSeqs
  <2> QED BY <2>1, <2>2, <2>4, <2>5
<1> DEFINE b == Blocks(N)
<1> HIDE DEF b
<1>9. \A what \in Sides : OfBlocks(x \o b, what) = OfBlocks(x, what) \o OfBlocks(b, what)
  BY <1>6, BlocksJoined DEF b
<1>10. <<>> \o OfBlocks(b, "ids") = OfBlocks(b, "ids")
  <2>1. IsSeq(OfBlocks(b, "ids"))
    BY BlockPartsAreSeqs DEF Sides, b
  <2> QED BY <2>1, JoinedNone
<1>11. /\ OfBlocks(Blocks(M), "words") = <<0>> \o OfBlocks(b, "words")
       /\ OfBlocks(Blocks(M), "ids") = OfBlocks(b, "ids")
  <2>1. Blocks(M) = x \o b
    BY <1>8 DEF b
  <2>2. OfBlocks(x \o b, "words") = <<0>> \o OfBlocks(b, "words") /\ OfBlocks(x \o b, "ids") = <<>> \o OfBlocks(b, "ids")
    BY <1>6, <1>9 DEF Sides
  <2> QED BY <1>10, <2>1, <2>2
<1>12. M = <<Continue>> \o N
  BY DEF M, c
<1> QED BY <1>2, <1>3, <1>4, <1>11, <1>12 DEF b

LEMMA AnthropicIs ==
    ASSUME NEW T
    PROVE  LET N == JoinRoles(AnthropicList(T)) IN
           \/ AnthropicMessages(T) = N /\ (N = <<>> \/ N[1].role = "user")
           \/ AnthropicMessages(T) = <<Continue>> \o N /\ N # <<>> /\ N[1].role # "user"
<1> DEFINE N == JoinRoles(AnthropicList(T))
<1>1. AnthropicMessages(T) = IF N # <<>> /\ N[1].role # "user" THEN <<Continue>> \o N ELSE N
  BY DEF AnthropicMessages, AnthropicList
<1> HIDE DEF N
<1>2. \/ AnthropicMessages(T) = N /\ (N = <<>> \/ N[1].role = "user")
      \/ AnthropicMessages(T) = <<Continue>> \o N /\ N # <<>> /\ N[1].role # "user"
  BY <1>1
<1> QED BY <1>2 DEF N

LEMMA AnthropicTold ==
    ASSUME NEW T, GoodTurns(T)
    PROVE  /\ OfBlocks(Blocks(AnthropicMessages(T)), "words") \in {Told(T, "words"), <<0>> \o Told(T, "words")}
           /\ OfBlocks(Blocks(AnthropicMessages(T)), "ids") = Told(T, "ids")
<1> DEFINE L == AnthropicList(T)
<1>1. NativesOf(L, T)
  BY AnthropicNatives
<1> DEFINE N == JoinRoles(L)
<1>2. GoodNatives(N) /\ GoodBlocks(Blocks(N)) /\ \A what \in Sides : OfBlocks(Blocks(N), what) = Told(T, what)
  <2> HIDE DEF L
  <2> QED BY <1>1, NativesTold
<1>3. AnthropicMessages(T) \in {N, <<Continue>> \o N}
  BY AnthropicIs
<1> HIDE DEF N
<1>4. /\ OfBlocks(Blocks(<<Continue>> \o N), "words") = <<0>> \o OfBlocks(Blocks(N), "words")
      /\ OfBlocks(Blocks(<<Continue>> \o N), "ids") = OfBlocks(Blocks(N), "ids")
  BY <1>2, Opened
<1>5. OfBlocks(Blocks(N), "words") = Told(T, "words") /\ OfBlocks(Blocks(N), "ids") = Told(T, "ids")
  BY <1>2 DEF Sides
<1> DEFINE O == <<Continue>> \o N
<1> DEFINE w == Told(T, "words")
<1> DEFINE i == Told(T, "ids")
<1>6. OfBlocks(Blocks(O), "words") = <<0>> \o w /\ OfBlocks(Blocks(O), "ids") = i
  BY <1>4, <1>5
<1>7. OfBlocks(Blocks(N), "words") = w /\ OfBlocks(Blocks(N), "ids") = i /\ AnthropicMessages(T) \in {N, O}
  BY <1>3, <1>5
<1> HIDE DEF O, w, i
<1>8. OfBlocks(Blocks(AnthropicMessages(T)), "words") \in {w, <<0>> \o w} /\ OfBlocks(Blocks(AnthropicMessages(T)), "ids") = i
  BY <1>6, <1>7
<1> QED BY <1>8 DEF w, i

(***************************************************************************)
(* A conversation in order: calls, then their results.                     *)
(***************************************************************************)

\* A message that calls is followed directly by the results of its calls.
Answered(L, i) ==
    LET k == Len(L[i].calls) IN
    k # 0 => /\ i + k =< Len(L)
             /\ \A j \in (i + 1)..(i + k) : L[j].role = "tool"
             /\ {L[j].answers : j \in (i + 1)..(i + k)} = ToSet(L[i].calls)

\* The message whose calls are being answered: its results so far end the
\* conversation, and the calls O are left.
Open(L, p, O) ==
    /\ p \in 1..Len(L) /\ Len(L[p].calls) # 0
    /\ \A j \in (p + 1)..Len(L) : L[j].role = "tool"
    /\ ToSet(L[p].calls) = O \cup {L[j].answers : j \in (p + 1)..Len(L)}
    /\ Cardinality(O) = p + Len(L[p].calls) - Len(L)

\* A message's calls are different calls.
Distinct(m) == IsFiniteSet(ToSet(m.calls)) /\ Cardinality(ToSet(m.calls)) = Len(m.calls)

OpenAt(L, O, p) ==
    /\ p = 0 => O = {}
    /\ p # 0 => Open(L, p, O)
    /\ \A i \in 1..Len(L) : i # p => Answered(L, i)

ChatOK(L, O) ==
    /\ GoodMsgs(L) /\ IsFiniteSet(O)
    /\ \A i \in 1..Len(L) : Distinct(L[i])
    /\ \E p \in 0..Len(L) : OpenAt(L, O, p)
    /\ ResultsKnown(L)

LEMMA SetOf ==
    ASSUME NEW s, IsSeq(s)
    PROVE  ToSet(s) = {s[i] : i \in 1..Len(s)}
BY DEF IsSeq, ToSet

LEMMA SetOfNone == ToSet(<<>>) = {}
BY DEF ToSet

LEMMA SetOfMore ==
    ASSUME NEW s, IsSeq(s), NEW x
    PROVE  ToSet(Append(s, x)) = ToSet(s) \cup {x}
<1> DEFINE t == Append(s, x)
<1>1. IsSeq(t) /\ Len(t) = Len(s) + 1 /\ t[Len(s) + 1] = x /\ \A i \in 1..Len(s) : t[i] = s[i]
  BY Appended, ZenonT(60)
<1>2. Len(s) \in Nat
  BY DEF IsSeq
<1> HIDE DEF t
<1>3. ToSet(t) = {t[i] : i \in 1..Len(t)} /\ ToSet(s) = {s[i] : i \in 1..Len(s)}
  BY <1>1, SetOf
<1>4. 1..Len(t) = 1..Len(s) \cup {Len(s) + 1}
  BY <1>1, <1>2
<1>5. {t[i] : i \in 1..Len(t)} = {s[i] : i \in 1..Len(s)} \cup {x}
  BY <1>1, <1>4
<1> QED BY <1>3, <1>5 DEF t

\* When nothing is left to answer, every message is answered.
LEMMA AllAnswered ==
    ASSUME NEW L, NEW O, ChatOK(L, O), O = {}, NEW i \in 1..Len(L)
    PROVE  Answered(L, i)
<1>0. Len(L) \in Nat /\ Cardinality(O) = 0
  BY FS_EmptySet DEF ChatOK, GoodMsgs, IsSeq
<1>1. PICK p \in 0..Len(L) : OpenAt(L, O, p)
  BY DEF ChatOK
<1>2. CASE p # i
  BY <1>1, <1>2 DEF OpenAt
<1>3. CASE p = i
  <2>1. Open(L, i, O)
    BY <1>0, <1>1, <1>3 DEF OpenAt
  <2> DEFINE k == Len(L[i].calls)
  <2>2. k \in Nat
    BY DEF ChatOK, GoodMsgs, GoodMsg, IsSeq
  <2>3. Len(L) = i + k
    <3>1. Cardinality(O) = i + k - Len(L)
      BY <2>1 DEF Open
    <3> HIDE DEF k
    <3> QED BY <1>0, <2>2, <3>1
  <2>4. /\ \A j \in (i + 1)..Len(L) : L[j].role = "tool"
        /\ ToSet(L[i].calls) = {L[j].answers : j \in (i + 1)..Len(L)}
    BY <2>1 DEF Open
  <2>5. i + k =< Len(L)
    <3> HIDE DEF k
    <3> QED BY <1>0, <2>3
  <2> HIDE DEF k
  <2>6. k # 0 => /\ i + k =< Len(L)
                 /\ \A j \in (i + 1)..(i + k) : L[j].role = "tool"
                 /\ {L[j].answers : j \in (i + 1)..(i + k)} = ToSet(L[i].calls)
    BY <2>3, <2>4, <2>5
  <2> QED BY <2>6 DEF Answered, k
<1> QED BY <1>2, <1>3

\* Answered messages stay answered as long as the results do not change.
Extends(L, M) ==
    /\ Len(M) \in Nat /\ Len(L) =< Len(M)
    /\ \A j \in 1..Len(L) : L[j].role = "tool" => M[j] = L[j]

LEMMA StaysAnswered ==
    ASSUME NEW L, Len(L) \in Nat, NEW M, Extends(L, M), NEW i \in 1..Len(L), M[i] = L[i],
           Len(L[i].calls) \in Nat, Answered(L, i)
    PROVE  Answered(M, i)
<1> DEFINE k == Len(L[i].calls)
<1> SUFFICES ASSUME k # 0
             PROVE  /\ i + k =< Len(M)
                    /\ \A j \in (i + 1)..(i + k) : M[j].role = "tool"
                    /\ {M[j].answers : j \in (i + 1)..(i + k)} = ToSet(M[i].calls)
  BY DEF Answered
<1>1. /\ i + k =< Len(L) /\ \A j \in (i + 1)..(i + k) : L[j].role = "tool"
      /\ {L[j].answers : j \in (i + 1)..(i + k)} = ToSet(L[i].calls)
  BY DEF Answered
<1> HIDE DEF k
<1>2. k \in Nat
  BY DEF k
<1>3. \A j \in (i + 1)..(i + k) : j \in 1..Len(L)
  BY <1>1, <1>2
<1>4. \A j \in (i + 1)..(i + k) : M[j] = L[j]
  BY <1>1, <1>3 DEF Extends
<1>5. i + k =< Len(M)
  BY <1>1, <1>2 DEF Extends
<1> QED BY <1>1, <1>4, <1>5

\* A message's calls are among the names.
LEMMA InNames ==
    ASSUME NEW L, IsSeq(L)
    PROVE  \A x : x \in Names(L) <=> \E i \in 1..Len(L) : x \in ToSet(L[i].calls)
BY DEF Names, IsSeq

LEMMA NamesKept ==
    ASSUME NEW L, IsSeq(L), NEW M, IsSeq(M), Len(L) =< Len(M),
           \A i \in 1..Len(L) : ToSet(L[i].calls) \subseteq ToSet(M[i].calls)
    PROVE  Names(L) \subseteq Names(M)
<1>1. Len(L) \in Nat /\ Len(M) \in Nat
  BY DEF IsSeq
<1>2. \A i \in 1..Len(L) : i \in 1..Len(M)
  BY <1>1
<1> QED BY <1>2, InNames

\* One message more.
LEMMA ChatAppended ==
    ASSUME NEW L, NEW O, ChatOK(L, O), NEW m, GoodMsg(m), Distinct(m),
           m.role = "tool" => m.answers \in Names(L), NEW M, M = Append(L, m)
    PROVE  /\ GoodMsgs(M) /\ Len(M) = Len(L) + 1 /\ M[Len(L) + 1] = m /\ Len(L) \in Nat
           /\ \A i \in 1..Len(L) : M[i] = L[i] /\ (Answered(L, i) => Answered(M, i))
           /\ \A i \in 1..Len(M) : Distinct(M[i])
           /\ ResultsKnown(M)
<1>1. GoodMsgs(L) /\ IsSeq(L) /\ Len(L) \in Nat
  BY DEF ChatOK, GoodMsgs, IsSeq
<1>2. IsSeq(M) /\ Len(M) = Len(L) + 1 /\ M[Len(L) + 1] = m /\ \A i \in 1..Len(L) : M[i] = L[i]
  BY <1>1, Appended
<1>3. GoodMsgs(M)
  BY <1>1, ToldMore
<1>4. Extends(L, M)
  BY <1>1, <1>2 DEF Extends
<1>5. ASSUME NEW i \in 1..Len(L), Answered(L, i) PROVE Answered(M, i)
  <2>1. Len(L[i].calls) \in Nat /\ M[i] = L[i]
    BY <1>1, <1>2 DEF GoodMsgs, GoodMsg, IsSeq
  <2> QED BY <1>1, <1>4, <1>5, <2>1, StaysAnswered
<1>6. \A i \in 1..Len(M) : i \in 1..Len(L) \/ i = Len(L) + 1
  BY <1>1, <1>2
<1>7. \A i \in 1..Len(M) : Distinct(M[i])
  BY <1>2, <1>6 DEF ChatOK
<1>8. Names(L) \subseteq Names(M)
  <2>1. Len(L) =< Len(M) /\ \A i \in 1..Len(L) : ToSet(L[i].calls) \subseteq ToSet(M[i].calls)
    BY <1>1, <1>2
  <2> QED BY <1>1, <1>2, <2>1, NamesKept
<1>9. ResultsKnown(M)
  BY <1>2, <1>6, <1>8 DEF ChatOK, ResultsKnown
<1> QED BY <1>1, <1>2, <1>3, <1>5, <1>7, <1>9

LEMMA NoCallsDistinct == ASSUME NEW m, m.calls = <<>> PROVE Distinct(m) /\ Len(m.calls) = 0
<1>1. ToSet(m.calls) = {} /\ Len(m.calls) = 0
  BY SetOfNone, Tuples
<1> QED BY <1>1, FS_EmptySet DEF Distinct

\* A message that neither calls nor answers, when nothing is left to answer.
LEMMA ChatPlain ==
    ASSUME NEW L, NEW O, ChatOK(L, O), O = {}, NEW m, GoodMsg(m), m.calls = <<>>, m.role # "tool"
    PROVE  ChatOK(Append(L, m), O)
<1> DEFINE M == Append(L, m)
<1>1. Distinct(m) /\ Len(m.calls) = 0
  BY NoCallsDistinct
<1>2. /\ GoodMsgs(M) /\ Len(M) = Len(L) + 1 /\ M[Len(L) + 1] = m /\ Len(L) \in Nat
      /\ \A i \in 1..Len(L) : M[i] = L[i] /\ (Answered(L, i) => Answered(M, i))
      /\ \A i \in 1..Len(M) : Distinct(M[i])
      /\ ResultsKnown(M)
  BY <1>1, ChatAppended
<1> HIDE DEF M
<1>3. ASSUME NEW i \in 1..Len(M) PROVE Answered(M, i)
  <2>1. CASE i \in 1..Len(L)
    BY <1>2, <2>1, AllAnswered
  <2>2. CASE i = Len(L) + 1
    BY <1>1, <1>2, <2>2 DEF Answered
  <2> QED BY <1>2, <2>1, <2>2
<1>4. OpenAt(M, O, 0) /\ 0 \in 0..Len(M)
  BY <1>2, <1>3 DEF OpenAt
<1>5. IsFiniteSet(O)
  BY DEF ChatOK
<1> QED BY <1>2, <1>4, <1>5 DEF ChatOK, M

\* The result of a call that was left.
LEMMA ChatResult ==
    ASSUME NEW L, NEW O, ChatOK(L, O), NEW id \in O,
           NEW m, GoodMsg(m), m.calls = <<>>, m.role = "tool", m.answers = id
    PROVE  ChatOK(Append(L, m), O \ {id})
<1> DEFINE M == Append(L, m)
<1> DEFINE R == O \ {id}
<1>0. IsSeq(L) /\ Len(L) \in Nat
  BY DEF ChatOK, GoodMsgs, IsSeq
<1>1. Distinct(m) /\ Len(m.calls) = 0
  BY NoCallsDistinct
<1>2. PICK p \in 0..Len(L) : OpenAt(L, O, p)
  BY DEF ChatOK
<1>3. p # 0 /\ Open(L, p, O)
  BY <1>2 DEF OpenAt
<1> DEFINE k == Len(L[p].calls)
<1> DEFINE A == {L[j].answers : j \in (p + 1)..Len(L)}
<1>4. /\ p \in 1..Len(L) /\ k # 0 /\ \A j \in (p + 1)..Len(L) : L[j].role = "tool"
      /\ ToSet(L[p].calls) = O \cup A /\ Cardinality(O) = p + k - Len(L)
  BY <1>3 DEF Open
<1>5. k \in Nat
  BY <1>4 DEF ChatOK, GoodMsgs, GoodMsg, IsSeq
<1>6. m.answers \in Names(L)
  <2>1. id \in ToSet(L[p].calls)
    BY <1>4
  <2> QED BY <1>0, <1>4, <2>1, InNames
<1>7. /\ GoodMsgs(M) /\ Len(M) = Len(L) + 1 /\ M[Len(L) + 1] = m
      /\ \A i \in 1..Len(L) : M[i] = L[i] /\ (Answered(L, i) => Answered(M, i))
      /\ \A i \in 1..Len(M) : Distinct(M[i])
      /\ ResultsKnown(M)
  BY <1>1, <1>6, ChatAppended, ZenonT(60)
<1>8. IsFiniteSet(R) /\ Cardinality(R) = Cardinality(O) - 1 /\ IsFiniteSet(O) /\ Cardinality(O) \in Nat
  BY FS_RemoveElement, FS_CardinalityType DEF ChatOK
<1> HIDE DEF M, k
<1>9. Open(M, p, R)
  <2>1. p \in 1..Len(M) /\ M[p] = L[p] /\ (p + 1)..Len(M) = (p + 1)..Len(L) \cup {Len(L) + 1}
    BY <1>0, <1>4, <1>7
  <2>2. \A j \in (p + 1)..Len(L) : M[j] = L[j]
    <3>1. \A j \in (p + 1)..Len(L) : j \in 1..Len(L)
      BY <1>0, <1>4
    <3> QED BY <1>7, <3>1
  <2>3. \A j \in (p + 1)..Len(M) : M[j].role = "tool"
    BY <1>4, <1>7, <2>1, <2>2
  <2>4. {M[j].answers : j \in (p + 1)..Len(M)} = A \cup {id}
    BY <1>7, <2>1, <2>2
  <2>5. ToSet(M[p].calls) = R \cup {M[j].answers : j \in (p + 1)..Len(M)}
    <3> HIDE DEF A
    <3> QED BY <1>4, <2>1, <2>4
  <2>6. Cardinality(R) = p + k - Len(M)
    <3> HIDE DEF R
    <3> QED BY <1>0, <1>4, <1>5, <1>7, <1>8
  <2> QED BY <1>4, <2>1, <2>3, <2>5, <2>6 DEF Open, k
<1>10. ASSUME NEW i \in 1..Len(M), i # p PROVE Answered(M, i)
  <2>1. CASE i \in 1..Len(L)
    BY <1>2, <1>7, <1>10, <2>1 DEF OpenAt
  <2>2. CASE i = Len(L) + 1
    BY <1>1, <1>7, <2>2 DEF Answered
  <2> QED BY <1>0, <1>7, <2>1, <2>2
<1>11. OpenAt(M, R, p) /\ p \in 0..Len(M)
  BY <1>0, <1>3, <1>7, <1>9, <1>10 DEF OpenAt
<1> QED BY <1>7, <1>8, <1>11 DEF ChatOK, M

\* A call comes when nothing is left to answer, or after the other calls of
\* its turn.
Calling(L, O) == O = {} \/ (Len(L) # 0 /\ Len(L[Len(L)].calls) # 0)

\* Then the calls left are those of the last message.
LEMMA LastCalls ==
    ASSUME NEW L, NEW O, ChatOK(L, O), Calling(L, O), Len(L) # 0
    PROVE  /\ ToSet(L[Len(L)].calls) = O /\ Cardinality(O) = Len(L[Len(L)].calls)
           /\ \A i \in 1..Len(L) : i # Len(L) => Answered(L, i)
<1> DEFINE n == Len(L)
<1> DEFINE k == Len(L[n].calls)
<1>0. n \in Nat /\ n \in 1..n /\ IsSeq(L) /\ GoodMsgs(L)
  BY DEF ChatOK, GoodMsgs, IsSeq
<1>1. k \in Nat /\ IsSeq(L[n].calls)
  BY <1>0 DEF GoodMsgs, GoodMsg, IsSeq
<1>2. Answered(L, n) => k = 0
  <2>1. Answered(L, n) /\ k # 0 => n + k =< n
    BY DEF Answered
  <2> HIDE DEF k, n
  <2> QED BY <1>0, <1>1, <2>1
<1>3. CASE O = {}
  <2>1. \A i \in 1..n : Answered(L, i)
    BY <1>3, AllAnswered
  <2>2. k = 0
    BY <1>0, <1>2, <2>1
  <2>3. L[n].calls = <<>>
    <3> DEFINE c == L[n].calls
    <3>1. IsSeq(c) /\ Len(c) = 0
      BY <1>1, <2>2
    <3> HIDE DEF c
    <3> QED BY <3>1, FlatNothing DEF c
  <2>4. ToSet(L[n].calls) = {} /\ Cardinality(O) = 0
    BY <1>3, <2>3, SetOfNone, FS_EmptySet
  <2> QED BY <1>3, <2>1, <2>2, <2>4
<1>4. CASE O # {}
  <2>1. k # 0
    BY <1>4 DEF Calling
  <2>2. PICK p \in 0..n : OpenAt(L, O, p)
    BY DEF ChatOK
  <2>3. p # 0 /\ Open(L, p, O)
    BY <1>4, <2>2 DEF OpenAt
  <2>4. p = n
    BY <1>0, <1>2, <2>1, <2>2 DEF OpenAt
  <2>5. /\ ToSet(L[n].calls) = O \cup {L[j].answers : j \in (n + 1)..n} /\ Cardinality(O) = n + k - n
    BY <2>3, <2>4 DEF Open
  <2>6. (n + 1)..n = {}
    BY <1>0
  <2>7. ToSet(L[n].calls) = O
    BY <2>5, <2>6
  <2>8. Cardinality(O) = k
    <3> HIDE DEF n, k
    <3> QED BY <1>0, <1>1, <2>5
  <2> QED BY <2>2, <2>4, <2>7, <2>8 DEF OpenAt
<1> QED BY <1>3, <1>4

\* A call in a message of its own,
LEMMA ChatCall ==
    ASSUME NEW L, NEW O, ChatOK(L, O), O = {}, NEW id,
           NEW m, GoodMsg(m), m.calls = <<id>>, m.role # "tool"
    PROVE  ChatOK(Append(L, m), O \cup {id}) /\ Calling(Append(L, m), O \cup {id})
<1> DEFINE M == Append(L, m)
<1> DEFINE R == O \cup {id}
<1>1. IsSeq(m.calls) /\ Len(m.calls) = 1 /\ m.calls[1] = id
  BY Tuples
<1>2. ToSet(m.calls) = {id}
  <2>1. ToSet(m.calls) = {m.calls[i] : i \in 1..Len(m.calls)}
    BY <1>1, SetOf
  <2>2. 1..Len(m.calls) = {1}
    BY <1>1
  <2> QED BY <1>1, <2>1, <2>2
<1>3. R = {id} /\ IsFiniteSet(R) /\ Cardinality(R) = 1
  BY FS_Singleton
<1>4. Distinct(m)
  BY <1>1, <1>2, <1>3 DEF Distinct
<1>5. /\ GoodMsgs(M) /\ Len(M) = Len(L) + 1 /\ M[Len(L) + 1] = m /\ Len(L) \in Nat
      /\ \A i \in 1..Len(L) : M[i] = L[i] /\ (Answered(L, i) => Answered(M, i))
      /\ \A i \in 1..Len(M) : Distinct(M[i])
      /\ ResultsKnown(M)
  BY <1>4, ChatAppended
<1> HIDE DEF M
<1> DEFINE p == Len(L) + 1
<1>6. p \in 1..Len(M) /\ p # 0 /\ p \in 0..Len(M) /\ (p + 1)..Len(M) = {} /\ M[p] = m
  BY <1>5
<1>7. Open(M, p, R)
  <2>1. ToSet(M[p].calls) = R \cup {M[j].answers : j \in (p + 1)..Len(M)}
    BY <1>2, <1>3, <1>6
  <2>2. Cardinality(R) = p + Len(M[p].calls) - Len(M)
    <3>1. Len(M[p].calls) = 1
      BY <1>1, <1>6
    <3> DEFINE l == Len(M[p].calls)
    <3>2. l = 1 /\ p = Len(M) /\ Len(M) \in Nat
      BY <1>5, <3>1
    <3> HIDE DEF R, l, p
    <3>3. Cardinality(R) = p + l - Len(M)
      BY <1>3, <3>2
    <3> QED BY <3>3 DEF l
  <2> QED BY <1>1, <1>6, <2>1, <2>2 DEF Open
<1>8. ASSUME NEW i \in 1..Len(M), i # p PROVE Answered(M, i)
  <2>1. i \in 1..Len(L)
    BY <1>5, <1>8
  <2> QED BY <1>5, <2>1, AllAnswered
<1>9. OpenAt(M, R, p)
  BY <1>6, <1>7, <1>8 DEF OpenAt
<1>10. Calling(M, R)
  BY <1>1, <1>5, SMTT(60) DEF Calling
<1> QED BY <1>3, <1>5, <1>6, <1>9, <1>10 DEF ChatOK, M

\* or in the assistant's last message.
LEMMA ChatCallJoins ==
    ASSUME NEW L, NEW O, ChatOK(L, O), Calling(L, O), NEW it, it.call \notin O, it.call # NoId,
           NEW M, IsSeq(M), GoodMsgs(M), CallJoins(L, it, M)
    PROVE  ChatOK(M, O \cup {it.call}) /\ Calling(M, O \cup {it.call})
<1> DEFINE n == Len(L)
<1> DEFINE id == it.call
<1> DEFINE R == O \cup {id}
<1>0. IsSeq(L) /\ GoodMsgs(L) /\ n \in Nat /\ IsFiniteSet(O)
  BY DEF ChatOK, GoodMsgs, IsSeq
<1> DEFINE c == L[n].calls
<1> DEFINE d == Append(c, id)
<1>1. /\ n # 0 /\ L[n].role = "assistant" /\ Len(M) = n /\ \A i \in 1..n : i # n => M[i] = L[i]
      /\ M[n] = [role |-> "assistant", text |-> L[n].text, calls |-> d, answers |-> NoId]
  BY DEF CallJoins
<1>2. n \in 1..n /\ IsSeq(c) /\ Len(c) \in Nat
  <2>1. n \in 1..n
    BY <1>0, <1>1
  <2> QED BY <1>0, <2>1 DEF GoodMsgs, GoodMsg, IsSeq
<1>3. ToSet(c) = O /\ Cardinality(O) = Len(c) /\ \A i \in 1..n : i # n => Answered(L, i)
  BY <1>1, LastCalls
<1>4. ToSet(d) = R /\ Len(d) = Len(c) + 1
  <2> HIDE DEF c, id
  <2> QED BY <1>2, <1>3, SetOfMore, Appended
<1>5. IsFiniteSet(R) /\ Cardinality(R) = Len(c) + 1
  <2> HIDE DEF c, id
  <2>1. id \notin O
    BY DEF id
  <2> QED BY <1>0, <1>3, <2>1, FS_AddElement
<1> HIDE DEF d
<1>6. M[n].role = "assistant" /\ M[n].calls = d
  BY <1>1
<1>7. Extends(L, M)
  BY <1>0, <1>1 DEF Extends
<1>8. ASSUME NEW i \in 1..n, i # n PROVE Answered(M, i)
  <2>1. Len(L[i].calls) \in Nat /\ M[i] = L[i] /\ Answered(L, i)
    BY <1>0, <1>1, <1>3, <1>8 DEF GoodMsgs, GoodMsg, IsSeq
  <2> QED BY <1>0, <1>7, <2>1, StaysAnswered
<1> HIDE DEF R, c
<1>9. Open(M, n, R)
  <2>1. (n + 1)..Len(M) = {} /\ n \in 1..Len(M)
    BY <1>0, <1>1, <1>2
  <2>2. ToSet(M[n].calls) = R \cup {M[j].answers : j \in (n + 1)..Len(M)}
    BY <1>4, <1>6, <2>1
  <2>3. Len(M[n].calls) # 0 /\ Cardinality(R) = n + Len(M[n].calls) - Len(M)
    <3>1. Len(M[n].calls) = Len(c) + 1
      BY <1>4, <1>6
    <3> QED BY <1>0, <1>1, <1>2, <1>5, <3>1
  <2> QED BY <2>1, <2>2, <2>3 DEF Open
<1>10. \A i \in 1..Len(M) : Distinct(M[i])
  <2>1. Distinct(M[n])
    BY <1>4, <1>5, <1>6 DEF Distinct
  <2> QED BY <1>1, <2>1 DEF ChatOK
<1>11. Names(L) \subseteq Names(M)
  <2>1. ASSUME NEW i \in 1..Len(L) PROVE ToSet(L[i].calls) \subseteq ToSet(M[i].calls)
    <3>1. CASE i = n
      <4>1. ToSet(L[n].calls) = O
        BY <1>3 DEF c
      <4> QED BY <1>4, <1>6, <3>1, <4>1 DEF R
    <3>2. CASE i # n
      BY <1>1, <3>2
    <3> QED BY <3>1, <3>2
  <2>2. Len(L) =< Len(M)
    BY <1>0, <1>1
  <2> QED BY <1>0, <2>1, <2>2, NamesKept
<1>12. ResultsKnown(M)
  <2>1. ASSUME NEW i \in 1..Len(M), M[i].role = "tool" PROVE M[i].answers \in Names(M)
    <3>1. i # n /\ i \in 1..n /\ M[i] = L[i]
      BY <1>1, <1>6, <2>1
    <3>2. L[i].answers \in Names(L)
      BY <2>1, <3>1 DEF ChatOK, ResultsKnown
    <3> QED BY <1>11, <3>1, <3>2
  <2> QED BY <2>1 DEF ResultsKnown
<1>13. OpenAt(M, R, n) /\ n \in 0..Len(M)
  BY <1>0, <1>1, <1>8, <1>9 DEF OpenAt
<1>14. ChatOK(M, R) /\ Calling(M, R)
  BY <1>1, <1>2, <1>4, <1>5, <1>6, <1>10, <1>12, <1>13 DEF ChatOK, Calling
<1> QED BY <1>14 DEF R

\* An item more is a step more.
LEMMA MessagesNext ==
    ASSUME NEW C, IsSeq(C), NEW ins, NEW it
    PROVE  ResponsesMessages(ins, Append(C, it)) = AddItem(ResponsesMessages(ins, C), it)
<1> DEFINE D == Append(C, it)
<1>1. IsSeq(D) /\ Len(D) = Len(C) + 1 /\ D[Len(C) + 1] = it /\ \A i \in 1..Len(C) : D[i] = C[i]
  BY Appended, ZenonT(60)
<1>2. Len(C) \in Nat /\ Len(D) \in Nat
  BY <1>1 DEF IsSeq
<1> HIDE DEF D
<1>3. PICK f : Goes("items", Briefing(ins), C, f) /\ ResponsesMessages(ins, C) = f[Len(C)]
  BY <1>2, MessagesLoop
<1>4. PICK g : Goes("items", Briefing(ins), D, g) /\ ResponsesMessages(ins, D) = g[Len(D)]
  BY <1>2, MessagesLoop
<1>5. f[0] = Briefing(ins) /\ \A n \in 1..Len(C) : f[n] = AddItem(f[n - 1], C[n])
  BY <1>3 DEF Goes, StepOf
<1>6. g[0] = Briefing(ins) /\ \A n \in 1..Len(D) : g[n] = AddItem(g[n - 1], D[n])
  BY <1>4 DEF Goes, StepOf
<1> DEFINE T == {n \in Nat : n =< Len(C) => g[n] = f[n]}
<1>7. \A n \in Nat : n \in T
  <2>1. 0 \in T
    BY <1>5, <1>6
  <2>2. ASSUME NEW n \in Nat, n \in T PROVE n + 1 \in T
    <3>1. ASSUME n + 1 =< Len(C) PROVE g[n + 1] = f[n + 1]
      <4>1. n =< Len(C) /\ n + 1 \in 1..Len(C) /\ n + 1 \in 1..Len(D) /\ (n + 1) - 1 = n
        BY <1>1, <1>2, <3>1
      <4>2. g[n] = f[n] /\ D[n + 1] = C[n + 1]
        BY <1>1, <2>2, <4>1
      <4>3. g[n + 1] = AddItem(g[n], D[n + 1]) /\ f[n + 1] = AddItem(f[n], C[n + 1])
        BY <1>5, <1>6, <4>1
      <4> QED BY <4>2, <4>3
    <3>2. n + 1 \in Nat
      OBVIOUS
    <3> QED BY <3>1, <3>2
  <2> HIDE DEF T
  <2> QED BY <2>1, <2>2, ByNat
<1>8. g[Len(C)] = f[Len(C)]
  BY <1>2, <1>7
<1>9. Len(D) \in 1..Len(D) /\ Len(D) - 1 = Len(C)
  BY <1>1, <1>2
<1>10. g[Len(D)] = AddItem(g[Len(C)], it)
  BY <1>1, <1>6, <1>9
<1> QED BY <1>3, <1>4, <1>8, <1>10 DEF D

LEMMA MessagesOfNone ==
    ASSUME NEW ins
    PROVE  ResponsesMessages(ins, <<>>) = Briefing(ins)
<1> DEFINE C == <<>>
<1>1. Len(C) = 0 /\ Len(C) \in Nat
  BY Tuples
<1> HIDE DEF C
<1>2. PICK f : Goes("items", Briefing(ins), C, f) /\ ResponsesMessages(ins, C) = f[Len(C)]
  BY <1>1, MessagesLoop
<1> QED BY <1>1, <1>2 DEF Goes, C

\* The calls of a conversation that have no result.
IdsOf(C, type) == {C[i].call : i \in {j \in 1..Len(C) : C[j].type = type}}
OutOf(C) == IdsOf(C, "function_call") \ IdsOf(C, "function_call_output")

LEMMA OutstandingIs ==
    ASSUME IsSeq(conversation)
    PROVE  Outstanding = OutOf(conversation)
<1>1. DOMAIN conversation = 1..Len(conversation)
  BY DEF IsSeq
<1> QED BY <1>1 DEF Outstanding, Calls, Results, OutOf, IdsOf

LEMMA IdsNext ==
    ASSUME NEW C, IsSeq(C), NEW it, NEW type
    PROVE  IdsOf(Append(C, it), type) = IF it.type = type THEN IdsOf(C, type) \cup {it.call} ELSE IdsOf(C, type)
<1> DEFINE D == Append(C, it)
<1> DEFINE n == Len(C) + 1
<1>1. IsSeq(D) /\ Len(D) = n /\ D[n] = it /\ \A i \in 1..Len(C) : D[i] = C[i]
  BY Appended, ZenonT(60)
<1>2. Len(C) \in Nat
  BY DEF IsSeq
<1> HIDE DEF D
<1>3. 1..Len(D) = 1..Len(C) \cup {n} /\ n \notin 1..Len(C)
  BY <1>1, <1>2
<1> HIDE DEF n
<1>4. IdsOf(D, type) = IF it.type = type THEN IdsOf(C, type) \cup {it.call} ELSE IdsOf(C, type)
  <2>1. CASE it.type = type
    <3>1. {j \in 1..Len(D) : D[j].type = type} = {j \in 1..Len(C) : C[j].type = type} \cup {n}
      BY <1>1, <1>3, <2>1
    <3>2. \A x : x \in IdsOf(D, type) <=> x \in IdsOf(C, type) \cup {it.call}
      BY <1>1, <3>1 DEF IdsOf
    <3> QED BY <2>1, <3>2
  <2>2. CASE it.type # type
    <3>1. {j \in 1..Len(D) : D[j].type = type} = {j \in 1..Len(C) : C[j].type = type}
      BY <1>1, <1>3, <2>2
    <3>2. \A x : x \in IdsOf(D, type) <=> x \in IdsOf(C, type)
      BY <1>1, <3>1 DEF IdsOf
    <3> QED BY <2>2, <3>2
  <2> QED BY <2>1, <2>2
<1> QED BY <1>4 DEF D

\* The items of a conversation; ids are places.
ConvGood(C) == IsSeq(C) /\ \A i \in 1..Len(C) : GoodItem(C[i]) /\ C[i].call \in 0..Len(C)
Sound(C) == \A i \in 1..Len(C) : ~Malformed(C[i])
ConvOK(C) ==
    /\ ConvGood(C)
    /\ Sound(C) => \A ins \in Instructions : ChatOK(ResponsesMessages(ins, C), OutOf(C))

CallingOn(C) == Sound(C) => \A ins \in Instructions : Calling(ResponsesMessages(ins, C), OutOf(C))

\* The items a client may add.
Allowed(C, it) ==
    /\ GoodItem(it) /\ it.call \in 0..(Len(C) + 1)
    /\ it.type = "function_call" => it.call = Len(C) + 1 /\ CallingOn(C)
    /\ it.type = "function_call_output" => it.call = NoId \/ it.call \in OutOf(C)
    /\ it.type \in {"", "message"} => OutOf(C) = {}

LEMMA OutNext ==
    ASSUME NEW C, ConvGood(C), NEW it, Allowed(C, it)
    PROVE  /\ it.type = "function_call" => OutOf(Append(C, it)) = OutOf(C) \cup {it.call} /\ it.call \notin OutOf(C)
           /\ it.type = "function_call_output" => OutOf(Append(C, it)) = OutOf(C) \ {it.call}
           /\ it.type \notin {"function_call", "function_call_output"} => OutOf(Append(C, it)) = OutOf(C)
<1> DEFINE D == Append(C, it)
<1>0. IsSeq(C) /\ Len(C) \in Nat
  BY DEF ConvGood, IsSeq
<1>1. \A type : IdsOf(D, type) = IF it.type = type THEN IdsOf(C, type) \cup {it.call} ELSE IdsOf(C, type)
  BY <1>0, IdsNext
<1> HIDE DEF D
<1>2. "function_call" # "function_call_output"
  OBVIOUS
<1>3. \A type : \A x \in IdsOf(C, type) : x \in 0..Len(C)
  BY DEF IdsOf, ConvGood
<1>4. Len(C) + 1 \notin 0..Len(C)
  BY <1>0
<1>5. CASE it.type = "function_call"
  <2>1. it.call = Len(C) + 1
    BY <1>5 DEF Allowed
  <2>2. it.call \notin IdsOf(C, "function_call") /\ it.call \notin IdsOf(C, "function_call_output")
    BY <1>3, <1>4, <2>1
  <2>3. IdsOf(D, "function_call") = IdsOf(C, "function_call") \cup {it.call}
        /\ IdsOf(D, "function_call_output") = IdsOf(C, "function_call_output")
    BY <1>1, <1>2, <1>5
  <2> QED BY <1>2, <1>5, <2>2, <2>3 DEF OutOf, D
<1>6. CASE it.type = "function_call_output"
  <2>3. IdsOf(D, "function_call") = IdsOf(C, "function_call")
        /\ IdsOf(D, "function_call_output") = IdsOf(C, "function_call_output") \cup {it.call}
    BY <1>1, <1>2, <1>6
  <2> QED BY <1>2, <1>6, <2>3 DEF OutOf, D
<1>7. CASE it.type \notin {"function_call", "function_call_output"}
  <2>3. IdsOf(D, "function_call") = IdsOf(C, "function_call")
        /\ IdsOf(D, "function_call_output") = IdsOf(C, "function_call_output")
    BY <1>1, <1>7
  <2> QED BY <1>7, <2>3 DEF OutOf, D
<1> QED BY <1>5, <1>6, <1>7

LEMMA GoodNext ==
    ASSUME NEW C, ConvGood(C), NEW it, Allowed(C, it)
    PROVE  ConvGood(Append(C, it)) /\ (Sound(Append(C, it)) => Sound(C) /\ ~Malformed(it))
<1> DEFINE D == Append(C, it)
<1>0. IsSeq(C) /\ Len(C) \in Nat
  BY DEF ConvGood, IsSeq
<1>1. IsSeq(D) /\ Len(D) = Len(C) + 1 /\ D[Len(C) + 1] = it /\ \A i \in 1..Len(C) : D[i] = C[i]
  BY <1>0, Appended, ZenonT(60)
<1> HIDE DEF D
<1>2. \A i \in 1..Len(D) : i \in 1..Len(C) \/ i = Len(C) + 1
  BY <1>0, <1>1
<1>3. \A x \in 0..Len(C) : x \in 0..Len(D)
  BY <1>0, <1>1
<1>4. \A i \in 1..Len(D) : GoodItem(D[i]) /\ D[i].call \in 0..Len(D)
  BY <1>1, <1>2, <1>3 DEF ConvGood, Allowed
<1>5. (\A i \in 1..Len(C) : i \in 1..Len(D)) /\ Len(C) + 1 \in 1..Len(D)
  BY <1>0, <1>1
<1>6. Sound(D) => Sound(C) /\ ~Malformed(it)
  BY <1>1, <1>5 DEF Sound
<1> QED BY <1>1, <1>4, <1>6 DEF ConvGood, D

\* An item the client may add keeps the conversation in order.
LEMMA ConvNext ==
    ASSUME NEW C, ConvOK(C), NEW it, Allowed(C, it)
    PROVE  ConvOK(Append(C, it)) /\ (it.type = "function_call" => CallingOn(Append(C, it)))
<1> DEFINE D == Append(C, it)
<1>0. ConvGood(C) /\ IsSeq(C)
  BY DEF ConvOK, ConvGood
<1>1. ConvGood(D) /\ (Sound(D) => Sound(C) /\ ~Malformed(it))
  BY <1>0, GoodNext
<1> DEFINE P == OutOf(D)
<1>2. /\ it.type = "function_call" => P = OutOf(C) \cup {it.call} /\ it.call \notin OutOf(C)
      /\ it.type = "function_call_output" => P = OutOf(C) \ {it.call}
      /\ it.type \notin {"function_call", "function_call_output"} => P = OutOf(C)
  BY <1>0, OutNext
<1>3. \A ins : ResponsesMessages(ins, D) = AddItem(ResponsesMessages(ins, C), it)
  BY <1>0, MessagesNext
<1> HIDE DEF D, P
<1>4. ASSUME Sound(D), NEW ins \in Instructions
      PROVE  /\ ChatOK(ResponsesMessages(ins, D), P)
             /\ it.type = "function_call" => Calling(ResponsesMessages(ins, D), P)
  <2> DEFINE L == ResponsesMessages(ins, C)
  <2> DEFINE M == AddItem(L, it)
  <2> DEFINE O == OutOf(C)
  <2>1. ChatOK(L, O) /\ ~Malformed(it) /\ GoodItem(it) /\ Sound(C)
    BY <1>1, <1>4 DEF ConvOK, Allowed
  <2> HIDE DEF L, O
  <2>2. GoodMsgs(L)
    BY <2>1 DEF ChatOK
  <2>3. \/ it.type = "reasoning" /\ M = L
        \/ IsSeq(M) /\ CallJoins(L, it, M)
        \/ Adds1(L, it, M)
    BY <2>1, <2>2, ItemAdded
  <2>4. GoodMsgs(M)
    BY <2>1, <2>2, ItemTold
  <2>5. it.type = "function_call" => Calling(L, O)
    BY <1>4, <2>1 DEF Allowed, CallingOn, L, O
  <2>6. it.type = "function_call" => it.call # NoId
    BY <2>1 DEF GoodItem
  <2> HIDE DEF M
  <2>7. CASE it.type = "reasoning" /\ M = L
    <3>1. P = O
      BY <1>2, <2>7 DEF O
    <3> QED BY <1>3, <2>1, <2>7, <3>1 DEF M, L
  <2>8. CASE IsSeq(M) /\ CallJoins(L, it, M)
    <3>1. it.type = "function_call"
      BY <2>8 DEF CallJoins
    <3>2. P = O \cup {it.call} /\ it.call \notin O
      BY <1>2, <3>1 DEF O
    <3>3. ChatOK(M, P) /\ Calling(M, P)
      BY <2>1, <2>4, <2>5, <2>6, <2>8, <3>1, <3>2, ChatCallJoins
    <3> QED BY <1>3, <3>3 DEF M, L
  <2>9. CASE Adds1(L, it, M)
    <3>1. PICK m : Makes(it, m) /\ M = Append(L, m)
      BY <2>9 DEF Adds1
    <3>2. GoodMsg(m)
      BY <3>1 DEF Makes
    <3>3. CASE it.type = "function_call"
      <4>1. P = O \cup {it.call} /\ it.call \notin O
        BY <1>2, <3>3 DEF O
      <4>2. m.role = "assistant" /\ m.calls = <<it.call>>
        BY <3>1, <3>3 DEF Makes
      <4>3. O = {}
        <5>1. CASE Len(L) = 0
          <6>1. Calling(L, O)
            BY <2>5, <3>3
          <6> QED BY <5>1, <6>1 DEF Calling
        <5>2. CASE Len(L) # 0
          <6>1. Len(L) \in 1..Len(L)
            BY <2>2, <5>2 DEF GoodMsgs, IsSeq
          <6>2. L[Len(L)].role # "assistant"
            BY <2>9, <3>3, <5>2 DEF Adds1
          <6>3. L[Len(L)].calls = <<>>
            BY <2>2, <6>1, <6>2 DEF GoodMsgs, GoodMsg
          <6>4. Len(L[Len(L)].calls) = 0
            BY <6>3, Tuples
          <6> QED BY <2>5, <3>3, <6>4 DEF Calling
        <5> QED BY <5>1, <5>2
      <4> DEFINE id == it.call
      <4> HIDE DEF id
      <4>4. ChatOK(Append(L, m), O \cup {id}) /\ Calling(Append(L, m), O \cup {id})
        <5>1. m.calls = <<id>> /\ m.role # "tool"
          BY <4>2 DEF id
        <5> QED BY <2>1, <3>2, <4>3, <5>1, ChatCall
      <4> QED BY <1>3, <3>1, <4>1, <4>4 DEF M, L, id
    <3>4. CASE it.type = "function_call_output"
      <4>1. P = O \ {it.call}
        BY <1>2, <3>4 DEF O
      <4>2. m.role = "tool" /\ m.calls = <<>> /\ m.answers = it.call
        BY <3>1, <3>4 DEF Makes
      <4>3. it.call # NoId
        BY <3>2, <4>2 DEF GoodMsg
      <4>4. it.call \in O
        BY <3>4, <4>3 DEF Allowed, O
      <4> DEFINE id == it.call
      <4> HIDE DEF id
      <4>5. ChatOK(Append(L, m), O \ {id})
        <5>1. id \in O /\ m.answers = id
          BY <4>2, <4>4 DEF id
        <5> QED BY <2>1, <3>2, <4>2, <5>1, ChatResult
      <4> QED BY <1>3, <3>1, <3>4, <4>1, <4>5 DEF M, L, id
    <3>5. CASE it.type \notin {"function_call", "function_call_output"}
      <4>1. P = O
        BY <1>2, <3>5 DEF O
      <4>2. m.role # "tool" /\ m.calls = <<>>
        BY <3>1, <3>5 DEF Makes
      <4>3. O = {}
        <5>1. it.type \in {"", "message"}
          BY <2>1, <2>9, <3>5 DEF Adds1, GoodItem
        <5> QED BY <5>1 DEF Allowed, O
      <4>4. ChatOK(Append(L, m), O)
        BY <2>1, <3>2, <4>2, <4>3, ChatPlain
      <4> QED BY <1>3, <3>1, <3>5, <4>1, <4>4 DEF M, L
    <3> QED BY <3>3, <3>4, <3>5
  <2> QED BY <2>3, <2>7, <2>8, <2>9
<1> QED BY <1>1, <1>4 DEF ConvOK, CallingOn, P, D

\* No item at all.
LEMMA ConvNone == ConvOK(<<>>)
<1> DEFINE C == <<>>
<1>1. IsSeq(C) /\ Len(C) = 0
  BY Tuples
<1> HIDE DEF C
<1>2. ConvGood(C)
  BY <1>1 DEF ConvGood
<1>3. OutOf(C) = {}
  BY <1>1 DEF OutOf, IdsOf
<1>4. ASSUME NEW ins \in Instructions PROVE ChatOK(Briefing(ins), {})
  <2> DEFINE L == Briefing(ins)
  <2>0. IsSeq(ins)
    BY Tuples DEF Instructions
  <2>1. GoodMsgs(L)
    BY <2>0, BriefingTold
  <2>2. Len(L) \in {0, 1} /\ (Len(L) = 1 => L[1] = Msg("system", ins, <<>>, NoId))
    BY Tuples DEF Briefing
  <2> HIDE DEF L
  <2>3. \A i \in 1..Len(L) : L[i] = Msg("system", ins, <<>>, NoId)
    BY <2>2
  <2>4. \A i \in 1..Len(L) : L[i].calls = <<>> /\ L[i].role = "system"
    BY <2>3, MsgFields
  <2>5. \A i \in 1..Len(L) : Distinct(L[i]) /\ Len(L[i].calls) = 0
    BY <2>4, NoCallsDistinct
  <2>6. OpenAt(L, {}, 0) /\ 0 \in 0..Len(L)
    BY <2>2, <2>5 DEF OpenAt, Answered
  <2>7. ResultsKnown(L)
    BY <2>4 DEF ResultsKnown
  <2> QED BY <2>1, <2>5, <2>6, <2>7, FS_EmptySet DEF ChatOK, L
<1>5. \A ins : ResponsesMessages(ins, C) = Briefing(ins)
  BY MessagesOfNone DEF C
<1> QED BY <1>2, <1>3, <1>4, <1>5 DEF ConvOK, C

(***************************************************************************)
(* The client keeps its conversation in order.                             *)
(***************************************************************************)

LEMMA ItemFields ==
    ASSUME NEW t, NEW r, NEW w, NEW c, NEW it, it = Item(t, r, w, c)
    PROVE  it.type = t /\ it.role = r /\ it.text = w /\ it.call = c
BY DEF Item

\* What a response brings: its message, if any, then its calls.
Replies(C, K) ==
    /\ IsSeq(K)
    /\ \A i \in 1..Len(K) :
         \/ i = 1 /\ K[i] = Item("message", "assistant", <<Len(C) + i>>, NoId)
         \/ K[i] = Item("function_call", "", <<>>, Len(C) + i)

LEMMA ConvReplies ==
    ASSUME NEW C, ConvOK(C), OutOf(C) = {}, NEW K, Replies(C, K)
    PROVE  ConvOK(C \o K)
<1> DEFINE D == C \o K
<1> DEFINE n == Len(C)
<1>0. IsSeq(C) /\ IsSeq(K) /\ n \in Nat /\ Len(K) \in Nat
  BY DEF ConvOK, ConvGood, Replies, IsSeq
<1>1. /\ IsSeq(D) /\ Len(D) = n + Len(K) /\ \A i \in 1..n : D[i] = C[i]
      /\ \A i \in 1..Len(K) : D[n + i] = K[i]
  BY <1>0, Joined
<1> HIDE DEF D
<1> DEFINE Pre(j) == [i \in 1..(n + j) |-> D[i]]
<1>2. \A j \in Nat : IsSeq(Pre(j)) /\ Len(Pre(j)) = n + j /\ \A i \in 1..(n + j) : Pre(j)[i] = D[i]
  <2> SUFFICES ASSUME NEW j \in Nat
               PROVE  IsSeq(Pre(j)) /\ Len(Pre(j)) = n + j /\ \A i \in 1..(n + j) : Pre(j)[i] = D[i]
    OBVIOUS
  <2> DEFINE f == Pre(j)
  <2>1. n + j \in Nat /\ f = [i \in 1..(n + j) |-> f[i]] /\ \A i \in 1..(n + j) : f[i] = D[i]
    BY <1>0
  <2> HIDE DEF f, n
  <2>2. IsSeq(f) /\ Len(f) = n + j
    BY <2>1, MappedIsSeq
  <2> QED BY <2>1, <2>2 DEF f
<1> HIDE DEF Pre
<1>3. Pre(0) = C
  <2> DEFINE f == Pre(0)
  <2>0. n + 0 = n /\ 0 \in Nat
    BY <1>0
  <2>1. IsSeq(f) /\ Len(f) = n /\ \A i \in 1..n : f[i] = C[i]
    BY <1>1, <1>2, <2>0
  <2> HIDE DEF f
  <2> QED BY <1>0, <2>1, SameSeq DEF f
<1>4. Pre(Len(K)) = D
  <2> DEFINE f == Pre(Len(K))
  <2>1. IsSeq(f) /\ Len(f) = Len(D) /\ \A i \in 1..Len(f) : f[i] = D[i]
    BY <1>0, <1>1, <1>2
  <2> HIDE DEF f
  <2> QED BY <1>1, <2>1, SameSeq DEF f
<1>5. ASSUME NEW j \in Nat, j + 1 =< Len(K) PROVE Pre(j + 1) = Append(Pre(j), K[j + 1])
  <2> DEFINE f == Pre(j)
  <2> DEFINE g == Pre(j + 1)
  <2> DEFINE x == K[j + 1]
  <2>1. IsSeq(f) /\ Len(f) = n + j /\ \A i \in 1..(n + j) : f[i] = D[i]
    BY <1>2
  <2>2. j + 1 \in Nat /\ n + (j + 1) = (n + j) + 1 /\ j + 1 \in 1..Len(K)
    BY <1>0, <1>5
  <2>3. IsSeq(g) /\ Len(g) = (n + j) + 1 /\ \A i \in 1..((n + j) + 1) : g[i] = D[i]
    BY <1>2, <2>2
  <2>4. D[(n + j) + 1] = x
    BY <1>1, <2>2
  <2> HIDE DEF f, g, x
  <2> DEFINE h == Append(f, x)
  <2>5. IsSeq(h) /\ Len(h) = Len(f) + 1 /\ h[Len(f) + 1] = x /\ \A i \in 1..Len(f) : h[i] = f[i]
    <3>1. IsSeq(f)
      BY <2>1
    <3> QED BY <3>1, Appended, ZenonT(60)
  <2> HIDE DEF h
  <2>6. ASSUME NEW i \in 1..Len(g) PROVE g[i] = h[i]
    <3>1. i \in 1..(n + j) \/ i = (n + j) + 1
      BY <1>0, <2>3
    <3> QED BY <2>1, <2>3, <2>4, <2>5, <3>1
  <2>7. g = h
    BY <2>1, <2>3, <2>5, <2>6, SameSeq
  <2> QED BY <2>7 DEF f, g, h, x
<1> DEFINE Fine(j) == ConvOK(Pre(j)) /\ CallingOn(Pre(j)) /\ (j = 0 => OutOf(Pre(j)) = {})
<1>6. Fine(0)
  BY <1>3 DEF CallingOn, Calling
<1>7. ASSUME NEW j \in Nat, j + 1 =< Len(K), Fine(j) PROVE Fine(j + 1)
  <2> DEFINE B == Pre(j)
  <2> DEFINE it == K[j + 1]
  <2>1. Pre(j + 1) = Append(B, it)
    BY <1>5, <1>7
  <2>2. ConvOK(B) /\ CallingOn(B) /\ (j = 0 => OutOf(B) = {}) /\ Len(B) = n + j
    BY <1>2, <1>7
  <2>3. j + 1 \in 1..Len(K) /\ n + (j + 1) = (n + j) + 1 /\ j + 1 # 0
    BY <1>0, <1>7
  <2>4. \/ j + 1 = 1 /\ it = Item("message", "assistant", <<n + (j + 1)>>, NoId)
        \/ it = Item("function_call", "", <<>>, n + (j + 1))
    BY <2>3 DEF Replies
  <2> HIDE DEF B, it
  <2>5. CASE j + 1 = 1 /\ it = Item("message", "assistant", <<n + (j + 1)>>, NoId)
    <3> DEFINE w == <<n + (j + 1)>>
    <3>1. IsSeq(w) /\ it = Item("message", "assistant", w, NoId)
      BY <2>5, Tuples
    <3> HIDE DEF w
    <3>2. it.type = "message" /\ it.role = "assistant" /\ it.text = w /\ it.call = NoId
      BY <3>1, ItemFields
    <3>3. GoodItem(it)
      BY <3>1, <3>2 DEF GoodItem
    <3>4. OutOf(B) = {}
      BY <2>2, <2>5
    <3>5. it.call \in 0..(Len(B) + 1)
      BY <1>0, <2>2, <3>2 DEF NoId
    <3>6. Allowed(B, it)
      BY <3>2, <3>3, <3>4, <3>5 DEF Allowed
    <3>7. ConvOK(Append(B, it))
      BY <2>2, <3>6, ConvNext
    <3>8. OutOf(Append(B, it)) = OutOf(B)
      BY <2>2, <3>2, <3>6, OutNext DEF ConvOK
    <3>9. CallingOn(Append(B, it))
      BY <3>4, <3>8 DEF CallingOn, Calling
    <3> QED BY <2>1, <2>3, <3>7, <3>9
  <2>6. CASE it = Item("function_call", "", <<>>, n + (j + 1))
    <3> DEFINE id == n + (j + 1)
    <3> DEFINE w == <<>>
    <3>0. it = Item("function_call", "", w, id)
      BY <2>6
    <3>1. id = Len(B) + 1 /\ id \in 0..(Len(B) + 1) /\ id # 0
      BY <1>0, <2>2
    <3> HIDE DEF id, w
    <3>2. it.type = "function_call" /\ it.role = "" /\ it.text = w /\ it.call = id
      BY <3>0 DEF Item
    <3>3. GoodItem(it)
      BY <3>1, <3>2, Tuples DEF GoodItem, NoId, w
    <3>4. Allowed(B, it)
      BY <2>2, <3>1, <3>2, <3>3 DEF Allowed
    <3>5. ConvOK(Append(B, it)) /\ CallingOn(Append(B, it))
      BY <2>2, <3>2, <3>4, ConvNext
    <3> QED BY <2>1, <2>3, <3>5
  <2> QED BY <2>4, <2>5, <2>6
<1> DEFINE T == {j \in Nat : j =< Len(K) => Fine(j)}
<1>8. \A j \in Nat : j \in T
  <2>1. 0 \in T
    BY <1>6
  <2>2. ASSUME NEW j \in Nat, j \in T PROVE j + 1 \in T
    <3>1. j + 1 =< Len(K) => j =< Len(K)
      BY <1>0
    <3>2. j + 1 =< Len(K) => Fine(j + 1)
      BY <1>7, <2>2, <3>1
    <3>3. j + 1 \in Nat
      OBVIOUS
    <3> HIDE DEF Fine
    <3> QED BY <3>2, <3>3
  <2> HIDE DEF T
  <2> QED BY <2>1, <2>2, ByNat
<1>9. Fine(Len(K))
  <2> HIDE DEF Fine
  <2> QED BY <1>0, <1>8
<1> QED BY <1>4, <1>9 DEF D

\* finish puts the message first, so a completed response is such a reply.
LEMMA OutputReplies ==
    ASSUME StreamOK, FinishOK, phase = "completed"
    PROVE  Replies(conversation, Kept(output))
<1> DEFINE n == Len(conversation)
<1> DEFINE K == Kept(output)
<1>1. IsSeq(output) /\ Len(output) \in Nat /\ DOMAIN output = 1..Len(output)
  BY DEF StreamOK, OrderOK, IsSeq
<1>2. OutputSays
  BY DEF FinishOK, Closing
<1>3. K = [i \in 1..Len(output) |-> K[i]]
      /\ \A i \in 1..Len(output) : K[i] = IF output[i].type = "message"
                                          THEN Item("message", "assistant", <<n + i>>, NoId)
                                          ELSE Item("function_call", "", <<>>, n + i)
  BY <1>1 DEF Kept
<1> HIDE DEF K
<1>4. IsSeq(K) /\ Len(K) = Len(output)
  BY <1>1, <1>3, MappedIsSeq
<1>5. ASSUME NEW i \in 1..Len(output), i # 1 PROVE output[i].type # "message"
  <2> DEFINE j == i - Texts
  <2>1. Closed = Len(output) - Texts /\ Texts \in {0, 1}
    BY DEF Closed, Texts
  <2>2. j \in 1..Closed /\ i = Texts + j
    BY <1>1, <1>5, <2>1
  <2> HIDE DEF j
  <2>3. output[i] = Written(j)
    BY <1>2, <2>2 DEF OutputSays
  <2>4. output[i].type = "function_call"
    BY <2>3 DEF Written, FunctionCall
  <2> QED BY <2>4
<1>6. \A i \in 1..Len(K) :
         \/ i = 1 /\ K[i] = Item("message", "assistant", <<n + i>>, NoId)
         \/ K[i] = Item("function_call", "", <<>>, n + i)
  BY <1>3, <1>4, <1>5
<1> QED BY <1>4, <1>6 DEF Replies, K

\* The conversation is in order, and a request is made only when all its
\* calls are answered.
ClientOK ==
    /\ ConvOK(conversation)
    /\ asking => OutOf(conversation) = {}

LEMMA ClientInit == AgentInit => ClientOK
<1> SUFFICES ASSUME AgentInit PROVE ClientOK
  OBVIOUS
<1> DEFINE w == <<1>>
<1> DEFINE it == Item("", "user", w, NoId)
<1> DEFINE C == <<>>
<1>1. conversation = <<it>> /\ asking = FALSE
  BY DEF AgentInit
<1>2. ConvOK(C) /\ IsSeq(C) /\ Len(C) = 0 /\ IsSeq(w)
  BY ConvNone, Tuples
<1>3. OutOf(C) = {}
  BY <1>2 DEF OutOf, IdsOf
<1> HIDE DEF w
<1>4. it.type = "" /\ it.role = "user" /\ it.text = w /\ it.call = NoId
  BY DEF Item
<1> HIDE DEF it
<1>5. Append(C, it) = <<it>>
  <2> DEFINE s == <<it>>
  <2>1. IsSeq(s) /\ <<>> \o s = s
    <3>1. IsSeq(s)
      BY Tuples
    <3> HIDE DEF s
    <3> QED BY <3>1, JoinedNone
  <2>2. Append(C, it) = C \o s
    BY <1>2, Appended
  <2> QED BY <2>1, <2>2
<1> HIDE DEF C
<1>6. GoodItem(it)
  BY <1>2, <1>4 DEF GoodItem
<1>7. it.call \in 0..(Len(C) + 1)
  <2>1. Len(C) + 1 = 1 /\ 0 \in 0..1
    BY <1>2
  <2> QED BY <1>4, <2>1 DEF NoId
<1>8. Allowed(C, it)
  BY <1>3, <1>4, <1>6, <1>7 DEF Allowed
<1>9. ConvOK(<<it>>)
  BY <1>2, <1>5, <1>8, ConvNext
<1> QED BY <1>1, <1>9 DEF ClientOK

LEMMA ClientNext ==
    ASSUME StreamOK, FinishOK, ClientOK, [AgentNext]_allVars
    PROVE  ClientOK'
<1>0. /\ ConvOK(conversation) /\ Outstanding = OutOf(conversation)
      /\ Len(conversation) \in Nat
  BY OutstandingIs DEF ClientOK, ConvOK, ConvGood, IsSeq
<1> DEFINE C == conversation
<1>1. CASE UNCHANGED <<conversation, asking>>
  BY <1>1 DEF ClientOK
<1>2. CASE HandleResponses
  <2>1. conversation' = conversation /\ OutOf(C) = {}
    BY <1>0, <1>2 DEF HandleResponses
  <2> QED BY <1>0, <2>1 DEF ClientOK
<1> DEFINE w == <<Len(C) + 1>>
<1>3. IsSeq(w)
  BY Tuples
<1>4. CASE Says
  <2>1. ~asking' /\ OutOf(C) = {}
    BY <1>0, <1>4 DEF Says, ClientOK
  <2>2. \E t, r : /\ conversation' = Append(conversation, Item(t, r, w, NoId))
                  /\ \/ t = "" /\ r = "user"
                     \/ t = "message" /\ r \in {"developer", "assistant"}
                     \/ t = "reasoning" /\ r = ""
                     \/ t = "function_call_output" /\ r = ""
    <3>1. \/ \E role \in {"user", "developer", "assistant"} :
                Add(IF role = "user" THEN "" ELSE "message", role, NoId)
          \/ Add("reasoning", "", NoId)
          \/ Add("function_call_output", "", NoId)
      BY <1>4 DEF Says
    <3>2. CASE \E role \in {"user", "developer", "assistant"} :
                Add(IF role = "user" THEN "" ELSE "message", role, NoId)
      <4>1. Add("", "user", NoId) \/ \E role \in {"developer", "assistant"} : Add("message", role, NoId)
        BY <3>2
      <4> QED BY <4>1 DEF Add
    <3>3. CASE Add("reasoning", "", NoId) \/ Add("function_call_output", "", NoId)
      BY <3>3 DEF Add
    <3> QED BY <3>1, <3>2, <3>3
  <2>3. PICK t, r : /\ conversation' = Append(conversation, Item(t, r, w, NoId))
                  /\ \/ t = "" /\ r = "user"
                     \/ t = "message" /\ r \in {"developer", "assistant"}
                     \/ t = "reasoning" /\ r = ""
                     \/ t = "function_call_output" /\ r = ""
    BY <2>2
  <2> HIDE DEF w
  <2> DEFINE it == Item(t, r, w, NoId)
  <2>4. it.type = t /\ it.role = r /\ it.text = w /\ it.call = NoId
    BY ItemFields
  <2> HIDE DEF it
  <2>5. GoodItem(it)
    BY <1>3, <2>3, <2>4 DEF GoodItem
  <2>6. it.call \in 0..(Len(C) + 1)
    BY <1>0, <2>4 DEF NoId
  <2>7. it.type # "function_call"
    BY <2>3, <2>4
  <2>8. Allowed(C, it)
    BY <2>1, <2>4, <2>5, <2>6, <2>7 DEF Allowed
  <2>9. ConvOK(Append(C, it))
    BY <1>0, <2>8, ConvNext
  <2> QED BY <2>1, <2>3, <2>9 DEF ClientOK, it
<1>5. ASSUME NEW id \in Outstanding, ToolReturns(id) PROVE ClientOK'
  <2> DEFINE it == Item("function_call_output", "", w, id)
  <2>1. ~asking' /\ id \in OutOf(C) /\ conversation' = Append(C, it)
    BY <1>0, <1>5 DEF ToolReturns, ClientOK, Add
  <2> HIDE DEF w
  <2>2. it.type = "function_call_output" /\ it.role = "" /\ it.text = w /\ it.call = id
    BY DEF Item
  <2> HIDE DEF it
  <2>3. GoodItem(it)
    BY <1>3, <2>2 DEF GoodItem
  <2>4. id \in 0..(Len(C) + 1)
    <3>1. id \in 0..Len(C)
      BY <1>0, <2>1 DEF OutOf, IdsOf, ConvOK, ConvGood
    <3> QED BY <1>0, <3>1
  <2>5. Allowed(C, it)
    BY <2>1, <2>2, <2>3, <2>4 DEF Allowed
  <2>6. ConvOK(Append(C, it))
    BY <1>0, <2>5, ConvNext
  <2> QED BY <2>1, <2>6 DEF ClientOK
<1>6. CASE TurnEnds
  <2>1. ~asking' /\ OutOf(C) = {}
    BY <1>6 DEF TurnEnds, ClientOK
  <2>2. CASE phase = "completed"
    <3> DEFINE K == Kept(output)
    <3>1. Replies(C, K) /\ conversation' = C \o K
      BY <1>6, <2>2, OutputReplies DEF TurnEnds
    <3> HIDE DEF K
    <3>2. ConvOK(C \o K)
      BY <1>0, <2>1, <3>1, ConvReplies
    <3> QED BY <2>1, <3>1, <3>2 DEF ClientOK
  <2>3. CASE phase # "completed"
    <3>1. conversation' = conversation
      BY <1>6, <2>3 DEF TurnEnds
    <3> QED BY <1>0, <2>1, <3>1 DEF ClientOK
  <2> QED BY <2>2, <2>3
<1>7. CASE Stream
  BY <1>1, <1>7 DEF Stream, client
<1>8. CASE UNCHANGED allVars
  BY <1>1, <1>8 DEF allVars, client
<1> QED BY <1>2, <1>4, <1>5, <1>6, <1>7, <1>8 DEF AgentNext

StreamInv == StreamOK /\ LogSays /\ SaidOK /\ DecoderOK /\ FinishOK

\* The invariant of a client that asks again and again.
LEMMA AgentKeeps ==
    /\ AgentInit => StreamInv /\ ClientOK
    /\ StreamInv /\ ClientOK /\ [AgentNext]_allVars => StreamInv' /\ ClientOK'
<1>1. AgentInit => StreamInv
  BY InitOK, InitSays, InitSaid, InitFinish DEF AgentInit, StreamInv
<1>2. StreamInv /\ [AgentNext]_allVars => StreamInv'
  BY AgentStreams, NextOK, NextSays, NextSaid, NextFinish, StartOverOK, StartOverSays,
     StartOverSaid, InitFinish DEF StreamInv
<1>3. StreamInv /\ ClientOK /\ [AgentNext]_allVars => ClientOK'
  BY ClientNext DEF StreamInv
<1> QED BY <1>1, <1>2, <1>3, ClientInit

(***************************************************************************)
(* The turns keep calls and results together.                              *)
(***************************************************************************)

\* Turn q is message i, and the messages after it, up to n and up to its
\* results, are the turns after it.
Tracks(L, T, q, i, n) ==
    LET k == Len(L[i].calls) IN
    /\ i \in 1..n /\ T[q] = L[i]
    /\ \A j \in 1..k : i + j =< n => q + j =< Len(T) /\ T[q + j] = L[i + j]
    /\ n =< i + k => Len(T) = q + (n - i)

TurnsTrack(L, T, n) ==
    /\ GoodTurns(T)
    /\ \A q \in 1..Len(T) : Len(T[q].calls) # 0 => \E i : Tracks(L, T, q, i, n)
    /\ \A q \in 1..Len(T) : T[q].role = "tool" => \E i \in 1..n : T[q] = L[i]
    /\ \A i \in 1..n : Len(L[i].calls) # 0 => \E q \in 1..Len(T) : T[q] = L[i]

\* The messages of a request when nothing is left to answer.
AllDone(L) == GoodMsgs(L) /\ \A i \in 1..Len(L) : Answered(L, i)

\* Between a message that calls and its last result there are results only.
LEMMA WithinResults ==
    ASSUME NEW L, AllDone(L), NEW n \in Nat, n + 1 =< Len(L), NEW i \in 1..n,
           Len(L[i].calls) # 0, n + 1 =< i + Len(L[i].calls)
    PROVE  L[n + 1].role = "tool" /\ ~IsSystem(L[n + 1]) /\ ~IsPlain(L[n + 1])
<1> DEFINE k == Len(L[i].calls)
<1>1. Len(L) \in Nat /\ i \in 1..Len(L) /\ n + 1 \in 1..Len(L)
  BY DEF AllDone, GoodMsgs, IsSeq
<1>2. k \in Nat
  BY <1>1 DEF AllDone, GoodMsgs, GoodMsg, IsSeq
<1>3. \A j \in (i + 1)..(i + k) : L[j].role = "tool"
  BY <1>1 DEF AllDone, Answered
<1>4. n + 1 \in (i + 1)..(i + k)
  <2>1. n + 1 =< i + k
    OBVIOUS
  <2> HIDE DEF k
  <2> QED BY <1>2, <2>1
<1>5. L[n + 1].role = "tool"
  BY <1>3, <1>4
<1>6. GoodMsg(L[n + 1])
  BY <1>1 DEF AllDone, GoodMsgs
<1> QED BY <1>5, <1>6 DEF IsSystem, IsPlain, GoodMsg

\* One message more.
LEMMA TracksNext ==
    ASSUME NEW L, AllDone(L), NEW n \in Nat, n + 1 =< Len(L), NEW T, TurnsTrack(L, T, n),
           NEW U, GoodTurns(U),
           \/ IsSystem(L[n + 1]) /\ U = T
           \/ IsPlain(L[n + 1]) /\ TurnGrows(T, L[n + 1], U)
           \/ ~IsSystem(L[n + 1]) /\ U = Append(T, L[n + 1])
    PROVE  TurnsTrack(L, U, n + 1)
<1> DEFINE m == L[n + 1]
<1>0. /\ Len(L) \in Nat /\ n + 1 \in 1..Len(L) /\ GoodMsg(m) /\ IsSeq(T) /\ Len(T) \in Nat
      /\ \A i \in 1..n : i \in 1..Len(L) /\ i \in 1..(n + 1)
  <2>1. Len(L) \in Nat /\ \A i \in 1..Len(L) : GoodMsg(L[i])
    BY DEF AllDone, GoodMsgs, IsSeq
  <2>2. IsSeq(T) /\ Len(T) \in Nat
    BY DEF TurnsTrack, GoodTurns, GoodMsgs, IsSeq
  <2>3. n + 1 \in 1..Len(L) /\ \A i \in 1..n : i \in 1..Len(L) /\ i \in 1..(n + 1)
    BY <2>1
  <2> QED BY <2>1, <2>2, <2>3
<1>1. \A i \in 1..Len(L) : Len(L[i].calls) \in Nat
  BY DEF AllDone, GoodMsgs, GoodMsg, IsSeq
<1>2. \A i \in 1..(n + 1) : i \in 1..n \/ i = n + 1
  OBVIOUS
<1>3. IsPlain(m) \/ IsSystem(m) => Len(m.calls) = 0 /\ m.role # "tool"
  <2>1. IsPlain(m) \/ IsSystem(m) => m.calls = <<>> /\ m.role # "tool"
    BY <1>0 DEF IsPlain, IsSystem, GoodMsg
  <2> QED BY <2>1, Tuples
<1>4. CASE IsSystem(m) /\ U = T
  <2>1. ASSUME NEW q \in 1..Len(T), NEW i, Tracks(L, T, q, i, n), Len(T[q].calls) # 0
        PROVE  Tracks(L, T, q, i, n + 1)
    <3> DEFINE k == Len(L[i].calls)
    <3>1. /\ i \in 1..n /\ T[q] = L[i]
          /\ \A j \in 1..k : i + j =< n => q + j =< Len(T) /\ T[q + j] = L[i + j]
      BY <2>1 DEF Tracks
    <3>2. k \in Nat /\ k # 0
      BY <1>0, <1>1, <2>1, <3>1
    <3>3. ~(n + 1 =< i + k)
      BY <1>4, <3>1, <3>2, WithinResults
    <3> HIDE DEF k
    <3>4. \A j \in 1..k : i + j =< n
      BY <3>1, <3>2, <3>3
    <3>5. /\ i \in 1..(n + 1) /\ T[q] = L[i]
          /\ \A j \in 1..k : i + j =< n + 1 => q + j =< Len(T) /\ T[q + j] = L[i + j]
          /\ n + 1 =< i + k => Len(T) = q + (n + 1 - i)
      BY <1>0, <3>1, <3>3, <3>4
    <3> QED BY <3>5 DEF Tracks, k
  <2>2. \A q \in 1..Len(T) : Len(T[q].calls) # 0 => \E i : Tracks(L, T, q, i, n + 1)
    BY <2>1 DEF TurnsTrack
  <2>3. \A q \in 1..Len(T) : T[q].role = "tool" => \E i \in 1..(n + 1) : T[q] = L[i]
    BY <1>0 DEF TurnsTrack
  <2>4. \A i \in 1..(n + 1) : Len(L[i].calls) # 0 => \E q \in 1..Len(T) : T[q] = L[i]
    BY <1>2, <1>3, <1>4 DEF TurnsTrack
  <2> QED BY <1>4, <2>2, <2>3, <2>4 DEF TurnsTrack
<1>5. CASE IsPlain(m) /\ TurnGrows(T, m, U)
  <2> DEFINE l == Len(T)
  <2>1. /\ l # 0 /\ Len(U) = l /\ IsPlain(T[l]) /\ \A i \in 1..l : i # l => U[i] = T[i]
        /\ m.role = T[l].role /\ U[l].role = m.role /\ U[l].calls = <<>>
    BY <1>5 DEF TurnGrows
  <2>2. l \in 1..l /\ Len(T[l].calls) = 0 /\ Len(U[l].calls) = 0
    BY <1>0, <2>1, Tuples DEF IsPlain
  <2>3. U[l].role # "tool" /\ T[l].role # "tool"
    BY <1>3, <1>5, <2>1
  <2>4. ASSUME NEW q \in 1..l, NEW i, Tracks(L, T, q, i, n), Len(T[q].calls) # 0
        PROVE  Tracks(L, U, q, i, n + 1)
    <3> DEFINE k == Len(L[i].calls)
    <3>1. /\ i \in 1..n /\ T[q] = L[i]
          /\ \A j \in 1..k : i + j =< n => q + j =< l /\ T[q + j] = L[i + j]
      BY <2>4 DEF Tracks
    <3>2. k \in Nat /\ k # 0
      BY <1>0, <1>1, <2>4, <3>1
    <3>3. ~(n + 1 =< i + k)
      BY <1>5, <3>1, <3>2, WithinResults
    <3>4. \A j \in (i + 1)..(i + k) : L[j].role = "tool"
      BY <1>0, <3>1, <3>2 DEF AllDone, Answered
    <3> HIDE DEF k
    <3>5. \A j \in 1..k : i + j =< n /\ i + j \in (i + 1)..(i + k) /\ q + j \in Nat /\ q + j # 0
      BY <3>1, <3>2, <3>3, SMTT(60)
    <3>6. q # l
      BY <2>2, <2>4
    <3>7. ASSUME NEW j \in 1..k PROVE q + j =< l /\ U[q + j] = L[i + j]
      <4>1. q + j =< l /\ T[q + j] = L[i + j] /\ T[q + j].role = "tool"
        BY <3>1, <3>4, <3>5
      <4>2. q + j # l
        BY <2>3, <4>1
      <4>3. q + j \in 1..l
        BY <1>0, <3>5, <4>1
      <4> QED BY <2>1, <4>1, <4>2, <4>3
    <3>8. U[q] = L[i]
      BY <2>1, <3>1, <3>6
    <3>9. /\ i \in 1..(n + 1) /\ U[q] = L[i]
          /\ \A j \in 1..k : i + j =< n + 1 => q + j =< Len(U) /\ U[q + j] = L[i + j]
          /\ n + 1 =< i + k => Len(U) = q + (n + 1 - i)
      BY <1>0, <2>1, <3>1, <3>3, <3>7, <3>8
    <3> QED BY <3>9 DEF Tracks, k
  <2>5. ASSUME NEW q \in 1..l, Len(U[q].calls) # 0 PROVE \E i : Tracks(L, U, q, i, n + 1)
    <3>1. q # l /\ U[q] = T[q]
      BY <2>1, <2>2, <2>5
    <3>2. PICK i : Tracks(L, T, q, i, n)
      BY <2>5, <3>1 DEF TurnsTrack
    <3> QED BY <2>4, <2>5, <3>1, <3>2
  <2>6. ASSUME NEW q \in 1..l, U[q].role = "tool" PROVE \E i \in 1..(n + 1) : U[q] = L[i]
    <3>1. q # l /\ U[q] = T[q]
      BY <2>1, <2>3, <2>6
    <3> QED BY <1>0, <2>6, <3>1 DEF TurnsTrack
  <2>7. ASSUME NEW i \in 1..(n + 1), Len(L[i].calls) # 0 PROVE \E q \in 1..l : U[q] = L[i]
    <3>1. i \in 1..n
      BY <1>2, <1>3, <1>5, <2>7
    <3>2. PICK q \in 1..l : T[q] = L[i]
      BY <2>7, <3>1 DEF TurnsTrack
    <3>3. q # l
      BY <2>2, <2>7, <3>2
    <3> QED BY <2>1, <3>2, <3>3
  <2> QED BY <2>1, <2>5, <2>6, <2>7 DEF TurnsTrack
<1>6. CASE ~IsSystem(m) /\ U = Append(T, m)
  <2> DEFINE l == Len(T)
  <2>1. Len(U) = l + 1 /\ U[l + 1] = m /\ \A i \in 1..l : U[i] = T[i]
    BY <1>0, <1>6, Appended
  <2>2. ASSUME NEW q \in 1..l, NEW i, Tracks(L, T, q, i, n), Len(T[q].calls) # 0
        PROVE  Tracks(L, U, q, i, n + 1)
    <3> DEFINE k == Len(L[i].calls)
    <3>1. /\ i \in 1..n /\ T[q] = L[i]
          /\ \A j \in 1..k : i + j =< n => q + j =< l /\ T[q + j] = L[i + j]
          /\ n =< i + k => l = q + (n - i)
      BY <2>2 DEF Tracks
    <3>2. k \in Nat
      BY <1>0, <1>1, <3>1
    <3> HIDE DEF k
    <3>3. ASSUME NEW j \in 1..k, i + j =< n + 1 PROVE q + j =< Len(U) /\ U[q + j] = L[i + j]
      <4>1. CASE i + j =< n
        <5>1. q + j =< l /\ T[q + j] = L[i + j] /\ q + j \in 1..l
          BY <1>0, <3>1, <4>1
        <5> QED BY <1>0, <2>1, <5>1
      <4>2. CASE i + j = n + 1
        <5>1. q + j = l + 1
          <6>1. i \in Nat /\ n =< i + k /\ j \in Nat
            BY <3>1, <3>2, <4>2
          <6>2. l = q + (n - i)
            BY <3>1, <6>1
          <6> HIDE DEF l
          <6> QED BY <4>2, <6>1, <6>2
        <5> QED BY <1>0, <2>1, <4>2, <5>1
      <4> QED BY <3>1, <3>3, <4>1, <4>2
    <3>4. n + 1 =< i + k => Len(U) = q + (n + 1 - i)
      BY <1>0, <2>1, <3>1, <3>2
    <3>5. i \in 1..(n + 1) /\ U[q] = L[i]
      BY <1>0, <2>1, <3>1
    <3> QED BY <3>3, <3>4, <3>5 DEF Tracks, k
  <2>3. Len(m.calls) # 0 => Tracks(L, U, l + 1, n + 1, n + 1)
    <3> DEFINE k == Len(m.calls)
    <3>1. k \in Nat
      BY <1>0, <1>1
    <3> HIDE DEF k
    <3>2. /\ \A j \in 1..k : ~((n + 1) + j =< n + 1)
          /\ Len(U) = (l + 1) + ((n + 1) - (n + 1)) /\ n + 1 \in 1..(n + 1)
      BY <1>0, <2>1, <3>1
    <3> QED BY <2>1, <3>2 DEF Tracks, k
  <2>4. \A q \in 1..Len(U) : q \in 1..l \/ q = l + 1
    BY <1>0, <2>1
  <2>5. (\A q \in 1..l : q \in 1..Len(U)) /\ l + 1 \in 1..Len(U) /\ n + 1 \in 1..(n + 1)
    BY <1>0, <2>1
  <2>6. ASSUME NEW q \in 1..Len(U), Len(U[q].calls) # 0 PROVE \E i : Tracks(L, U, q, i, n + 1)
    <3>1. CASE q \in 1..l
      <4>1. Len(T[q].calls) # 0
        BY <2>1, <2>6, <3>1
      <4>2. PICK i : Tracks(L, T, q, i, n)
        BY <3>1, <4>1 DEF TurnsTrack
      <4> QED BY <2>2, <3>1, <4>1, <4>2
    <3>2. CASE q = l + 1
      BY <2>1, <2>3, <2>6, <3>2
    <3> QED BY <2>4, <3>1, <3>2
  <2>7. ASSUME NEW q \in 1..Len(U), U[q].role = "tool" PROVE \E i \in 1..(n + 1) : U[q] = L[i]
    <3>1. CASE q \in 1..l
      BY <1>0, <2>1, <2>7, <3>1 DEF TurnsTrack
    <3>2. CASE q = l + 1
      BY <2>1, <2>5, <3>2
    <3> QED BY <2>4, <3>1, <3>2
  <2>8. ASSUME NEW i \in 1..(n + 1), Len(L[i].calls) # 0 PROVE \E q \in 1..Len(U) : U[q] = L[i]
    <3>1. CASE i \in 1..n
      BY <2>1, <2>5, <2>8, <3>1 DEF TurnsTrack
    <3>2. CASE i = n + 1
      BY <2>1, <2>5, <3>2
    <3> QED BY <1>2, <3>1, <3>2
  <2> QED BY <2>6, <2>7, <2>8 DEF TurnsTrack
<1> QED BY <1>4, <1>5, <1>6

\* A request whose calls are all answered, by known results.
Settled(L) ==
    AllDone(L) /\ ResultsKnown(L) /\ \A i \in 1..Len(L) : Distinct(L[i])

\* SystemAndTurns keeps calls and results together.
LEMMA TurnsSettled ==
    ASSUME NEW L, Settled(L), NEW T, T = SystemAndTurns(L).turns
    PROVE  GoodTurns(T) /\ Settled(T)
<1>0. GoodMsgs(L) /\ AllDone(L) /\ IsSeq(L) /\ Len(L) \in Nat
  BY DEF Settled, AllDone, GoodMsgs, IsSeq
<1>1. PICK g : Goes("turns", <<>>, L, g) /\ SystemAndTurns(L).turns = g[Len(L)]
  BY <1>0, TurnsLoop
<1>2. g[0] = <<>> /\ \A n \in 1..Len(L) : g[n] = AddTurn(g[n - 1], L[n])
  BY <1>1 DEF Goes, StepOf
<1>3. TurnsTrack(L, g[0], 0)
  <2> DEFINE e == g[0]
  <2>1. IsSeq(e) /\ Len(e) = 0
    BY <1>2, Tuples
  <2> HIDE DEF e
  <2> QED BY <2>1 DEF TurnsTrack, GoodTurns, GoodMsgs, e
<1>4. ASSUME NEW n \in Nat, n + 1 =< Len(L), TurnsTrack(L, g[n], n)
      PROVE  TurnsTrack(L, g[n + 1], n + 1)
  <2> DEFINE A == g[n]
  <2> DEFINE B == g[n + 1]
  <2> DEFINE m == L[n + 1]
  <2>1. n + 1 \in 1..Len(L) /\ (n + 1) - 1 = n
    BY <1>0, <1>4
  <2>2. B = AddTurn(A, m) /\ GoodMsg(m)
    BY <1>0, <1>2, <2>1 DEF GoodMsgs
  <2>3. GoodTurns(A) /\ TurnsTrack(L, A, n)
    BY <1>4 DEF TurnsTrack
  <2> HIDE DEF A, B
  <2>4. GoodTurns(B)
    BY <2>2, <2>3, TurnTold
  <2>5. \/ IsSystem(m) /\ B = A
        \/ IsPlain(m) /\ TurnGrows(A, m, B)
        \/ ~IsSystem(m) /\ B = Append(A, m)
    BY <2>2, <2>3, TurnAdded DEF TurnGrows
  <2>6. TurnsTrack(L, B, n + 1)
    BY <1>0, <1>4, <2>3, <2>4, <2>5, TracksNext
  <2> QED BY <2>6 DEF B
<1> DEFINE S == {n \in Nat : n =< Len(L) => TurnsTrack(L, g[n], n)}
<1>5. \A n \in Nat : n \in S
  <2>1. 0 \in S
    BY <1>3
  <2>2. ASSUME NEW n \in Nat, n \in S PROVE n + 1 \in S
    <3>1. n + 1 =< Len(L) => n =< Len(L)
      BY <1>0
    <3>2. n + 1 =< Len(L) => TurnsTrack(L, g[n + 1], n + 1)
      BY <1>4, <2>2, <3>1
    <3>3. n + 1 \in Nat
      OBVIOUS
    <3> QED BY <3>2, <3>3
  <2> HIDE DEF S
  <2> QED BY <2>1, <2>2, ByNat
<1>6. TurnsTrack(L, T, Len(L))
  BY <1>0, <1>1, <1>5
<1>7. GoodTurns(T) /\ GoodMsgs(T) /\ IsSeq(T) /\ Len(T) \in Nat
  BY <1>6 DEF TurnsTrack, GoodTurns, GoodMsgs, IsSeq
<1>8. ASSUME NEW q \in 1..Len(T), Len(T[q].calls) # 0 PROVE Answered(T, q) /\ Distinct(T[q])
  <2>1. PICK i : Tracks(L, T, q, i, Len(L))
    BY <1>6, <1>8 DEF TurnsTrack
  <2> DEFINE k == Len(L[i].calls)
  <2>2. /\ i \in 1..Len(L) /\ T[q] = L[i]
        /\ \A j \in 1..k : i + j =< Len(L) => q + j =< Len(T) /\ T[q + j] = L[i + j]
    BY <2>1 DEF Tracks
  <2>3. k \in Nat /\ k # 0
    BY <1>0, <1>8, <2>2 DEF GoodMsgs, GoodMsg, IsSeq
  <2>4. /\ i + k =< Len(L) /\ \A j \in (i + 1)..(i + k) : L[j].role = "tool"
        /\ {L[j].answers : j \in (i + 1)..(i + k)} = ToSet(L[i].calls)
    BY <1>0, <2>2, <2>3 DEF AllDone, Answered
  <2> HIDE DEF k
  <2>5. \A j \in 1..k : q + j =< Len(T) /\ T[q + j] = L[i + j]
    <3>1. \A j \in 1..k : i + j =< Len(L)
      BY <1>0, <2>2, <2>3, <2>4
    <3> QED BY <2>2, <3>1
  <2>6. q + k =< Len(T)
    <3>1. k \in 1..k
      BY <2>3
    <3> QED BY <2>5, <3>1
  <2>7. \A j \in (q + 1)..(q + k) : j - q \in 1..k /\ i + (j - q) \in (i + 1)..(i + k) /\ q + (j - q) = j
    BY <1>7, <2>2, <2>3
  <2>8. \A j \in (i + 1)..(i + k) : j - i \in 1..k /\ q + (j - i) \in (q + 1)..(q + k) /\ i + (j - i) = j
    BY <1>7, <2>2, <2>3
  <2>9. \A j \in (q + 1)..(q + k) : T[j] = L[i + (j - q)]
    BY <2>5, <2>7
  <2>10. \A j \in (i + 1)..(i + k) : L[j] = T[q + (j - i)]
    BY <2>5, <2>8
  <2>11. \A j \in (q + 1)..(q + k) : T[j].role = "tool"
    BY <2>4, <2>7, <2>9
  <2>12. {T[j].answers : j \in (q + 1)..(q + k)} = {L[j].answers : j \in (i + 1)..(i + k)}
    <3> DEFINE A == {T[j].answers : j \in (q + 1)..(q + k)}
    <3> DEFINE B == {L[j].answers : j \in (i + 1)..(i + k)}
    <3>1. ASSUME NEW x \in A PROVE x \in B
      <4>1. PICK j \in (q + 1)..(q + k) : x = T[j].answers
        OBVIOUS
      <4> DEFINE h == i + (j - q)
      <4>2. h \in (i + 1)..(i + k) /\ T[j] = L[h]
        BY <2>7, <2>9
      <4> HIDE DEF h
      <4> QED BY <4>1, <4>2
    <3>2. ASSUME NEW x \in B PROVE x \in A
      <4>1. PICK j \in (i + 1)..(i + k) : x = L[j].answers
        OBVIOUS
      <4> DEFINE h == q + (j - i)
      <4>2. h \in (q + 1)..(q + k) /\ L[j] = T[h]
        BY <2>8, <2>10
      <4> HIDE DEF h
      <4> QED BY <4>1, <4>2
    <3> QED BY <3>1, <3>2
  <2>13. Len(T[q].calls) = k
    BY <2>2 DEF k
  <2>14. Answered(T, q)
    <3>1. {T[j].answers : j \in (q + 1)..(q + k)} = ToSet(T[q].calls)
      BY <2>2, <2>4, <2>12
    <3> QED BY <2>6, <2>11, <2>13, <3>1 DEF Answered
  <2>15. Distinct(T[q])
    BY <2>2 DEF Settled
  <2> QED BY <2>14, <2>15
<1>9. ASSUME NEW q \in 1..Len(T), Len(T[q].calls) = 0 PROVE Answered(T, q) /\ Distinct(T[q])
  <2> DEFINE c == T[q].calls
  <2>1. IsSeq(c) /\ Len(c) = 0
    BY <1>7, <1>9 DEF GoodMsgs, GoodMsg
  <2>2. c = <<>>
    <3> HIDE DEF c
    <3> QED BY <2>1, FlatNothing
  <2>3. Distinct(T[q])
    <3> DEFINE m == T[q]
    <3>1. m.calls = <<>>
      BY <2>2
    <3> HIDE DEF m
    <3>2. Distinct(m)
      BY <3>1, NoCallsDistinct
    <3> QED BY <3>2 DEF m
  <2> QED BY <1>9, <2>3 DEF Answered
<1>10. ASSUME NEW q \in 1..Len(T), T[q].role = "tool" PROVE T[q].answers \in Names(T)
  <2>1. PICK i \in 1..Len(L) : T[q] = L[i]
    BY <1>6, <1>10 DEF TurnsTrack
  <2>2. T[q].answers \in Names(L)
    BY <1>10, <2>1 DEF Settled, ResultsKnown
  <2>3. PICK h \in 1..Len(L) : T[q].answers \in ToSet(L[h].calls)
    BY <1>0, <2>2, InNames
  <2>4. Len(L[h].calls) # 0
    <3> DEFINE c == L[h].calls
    <3>1. IsSeq(c)
      BY <1>0 DEF GoodMsgs, GoodMsg
    <3>2. T[q].answers \in ToSet(c)
      BY <2>3
    <3> HIDE DEF c
    <3>3. Len(c) # 0
      BY <3>1, <3>2, FlatNothing, SetOfNone
    <3> QED BY <3>3 DEF c
  <2>5. PICK r \in 1..Len(T) : T[r] = L[h]
    BY <1>6, <2>4 DEF TurnsTrack
  <2> QED BY <1>7, <2>3, <2>5, InNames
<1> QED BY <1>7, <1>8, <1>9, <1>10 DEF Settled, AllDone, ResultsKnown

(***************************************************************************)
(* Nothing is lost.                                                        *)
(***************************************************************************)

LEMMA ChatSettled == ASSUME NEW L, ChatOK(L, {}) PROVE Settled(L)
<1>1. \A i \in 1..Len(L) : Answered(L, i)
  BY AllAnswered
<1> QED BY <1>1 DEF Settled, AllDone, ChatOK

\* Between turns the request says all that was said.
LEMMA TellsAll ==
    ASSUME ClientOK
    PROVE  NothingLost
<1> DEFINE C == conversation
<1>0. ConvGood(C) /\ IsSeq(C) /\ DOMAIN C = 1..Len(C) /\ Len(C) \in Nat
  BY DEF ClientOK, ConvOK, ConvGood, IsSeq
<1>1. ASSUME NEW i \in Results, C[i].call = NoId PROVE Refused(<<>>, C)
  <2>1. i \in DOMAIN C /\ C[i].type = "function_call_output"
    BY DEF Results
  <2>2. Malformed(C[i])
    BY <1>1, <2>1 DEF Malformed, Kind
  <2> QED BY <2>1, <2>2 DEF Refused
<1>2. ASSUME Ready, NEW ins \in Instructions
      PROVE  LET anthropic == Blocks(AnthropicMessages(Turns(ins)))
                 google == Blocks(GoogleContents(Turns(ins)))
             IN  /\ SystemAndTurns(Chat(ins)).system = ins \o Carried("system")
                 /\ OfBlocks(anthropic, "words") \in {Carried("words"), <<0>> \o Carried("words")}
                 /\ OfBlocks(google, "words") = Carried("words")
                 /\ OfBlocks(anthropic, "ids") = Carried("ids")
                 /\ OfBlocks(google, "ids") = Carried("ids")
  <2>1. Sound(C) /\ OutOf(C) = {}
    BY <1>0, <1>2, OutstandingIs DEF Ready, Refused, Sound
  <2>2. GoodItems(C)
    BY <1>0, <2>1 DEF GoodItems, ConvGood, Sound
  <2> DEFINE L == Chat(ins)
  <2>3. IsSeq(ins) /\ L = ResponsesMessages(ins, C)
    BY Tuples DEF Instructions, Chat
  <2>4. \A what : Carried(what) = FlattenSeq(ItemParts(C, what))
    BY DEF Carried, ItemParts
  <2>5. /\ GoodMsgs(L) /\ Told(L, "system") = ins \o Carried("system")
        /\ Told(L, "words") = Carried("words") /\ Told(L, "ids") = Carried("ids")
    BY <2>2, <2>3, <2>4, MessagesTold
  <2>6. ChatOK(L, {})
    BY <2>1, <2>3 DEF ClientOK, ConvOK
  <2> HIDE DEF L
  <2> DEFINE T == SystemAndTurns(L).turns
  <2>7. /\ SystemAndTurns(L).system = Told(L, "system") /\ GoodTurns(T)
        /\ Told(T, "words") = Told(L, "words") /\ Told(T, "ids") = Told(L, "ids")
    BY <2>5, TurnsTold
  <2>8. ResultsKnown(T)
    <3>1. Settled(L)
      BY <2>6, ChatSettled
    <3> QED BY <3>1, TurnsSettled DEF Settled
  <2> HIDE DEF T
  <2>9. /\ OfBlocks(Blocks(GoogleContents(T)), "words") = Told(T, "words")
        /\ OfBlocks(Blocks(GoogleContents(T)), "ids") = Told(T, "ids")
    BY <2>7, <2>8, GoogleTold DEF Sides
  <2>10. /\ OfBlocks(Blocks(AnthropicMessages(T)), "words") \in {Told(T, "words"), <<0>> \o Told(T, "words")}
         /\ OfBlocks(Blocks(AnthropicMessages(T)), "ids") = Told(T, "ids")
    BY <2>7, AnthropicTold
  <2>11. Turns(ins) = T
    BY DEF Turns, T, L
  <2> DEFINE a == Blocks(AnthropicMessages(T))
  <2> DEFINE g == Blocks(GoogleContents(T))
  <2> HIDE DEF a, g
  <2>12. /\ SystemAndTurns(Chat(ins)).system = ins \o Carried("system")
         /\ OfBlocks(a, "words") \in {Carried("words"), <<0>> \o Carried("words")}
         /\ OfBlocks(g, "words") = Carried("words")
         /\ OfBlocks(a, "ids") = Carried("ids") /\ OfBlocks(g, "ids") = Carried("ids")
    BY <2>5, <2>7, <2>9, <2>10 DEF a, g, L
  <2> QED BY <2>11, <2>12 DEF a, g
<1> QED BY <1>1, <1>2 DEF NothingLost

\* Whatever the client and the providers say, every word, call and result of
\* the conversation reaches each native provider once and in order, and what
\* cannot be placed is refused (responsesMessages, SystemAndTurns and
\* BuildRequest of both native adapters).
THEOREM NothingIsLost == AgentSpec => []NothingLost
<1>1. StreamInv /\ ClientOK => NothingLost
  BY TellsAll
<1> QED BY <1>1, AgentKeeps, PTL DEF AgentSpec

(***************************************************************************)
(* The native requests keep them together too.                             *)
(***************************************************************************)

LEMMA IdsIs ==
    ASSUME NEW a, IsSeq(a), NEW t
    PROVE  \A x : x \in Ids(a, t) <=> \E i \in 1..Len(a) : a[i].type = t /\ a[i].id = x
BY DEF Ids, IsSeq

LEMMA IdsJoined ==
    ASSUME NEW a, IsSeq(a), NEW b, IsSeq(b), NEW t
    PROVE  Ids(a \o b, t) = Ids(a, t) \cup Ids(b, t)
<1> DEFINE c == a \o b
<1>0. Len(a) \in Nat /\ Len(b) \in Nat
  BY DEF IsSeq
<1>1. /\ IsSeq(c) /\ Len(c) = Len(a) + Len(b) /\ \A i \in 1..Len(a) : c[i] = a[i]
      /\ \A i \in 1..Len(b) : c[Len(a) + i] = b[i]
  BY Joined
<1> HIDE DEF c
<1>2. ASSUME NEW x \in Ids(c, t) PROVE x \in Ids(a, t) \cup Ids(b, t)
  <2>1. PICK i \in 1..Len(c) : c[i].type = t /\ c[i].id = x
    BY <1>1, IdsIs
  <2>2. CASE i \in 1..Len(a)
    BY <1>1, <2>1, <2>2, IdsIs
  <2>3. CASE i \notin 1..Len(a)
    <3> DEFINE j == i - Len(a)
    <3>1. j \in 1..Len(b) /\ i = Len(a) + j
      BY <1>0, <1>1, <2>3
    <3> HIDE DEF j
    <3>2. c[i] = b[j]
      BY <1>1, <3>1
    <3> QED BY <2>1, <3>1, <3>2, IdsIs
  <2> QED BY <2>2, <2>3
<1>3. ASSUME NEW x \in Ids(a, t) PROVE x \in Ids(c, t)
  <2>1. PICK i \in 1..Len(a) : a[i].type = t /\ a[i].id = x
    BY IdsIs
  <2>2. i \in 1..Len(c) /\ c[i] = a[i]
    BY <1>0, <1>1
  <2> QED BY <1>1, <2>1, <2>2, IdsIs
<1>4. ASSUME NEW x \in Ids(b, t) PROVE x \in Ids(c, t)
  <2>1. PICK i \in 1..Len(b) : b[i].type = t /\ b[i].id = x
    BY IdsIs
  <2> DEFINE j == Len(a) + i
  <2>2. j \in 1..Len(c) /\ c[j] = b[i]
    BY <1>0, <1>1
  <2> HIDE DEF j
  <2> QED BY <1>1, <2>1, <2>2, IdsIs
<1>5. Ids(c, t) = Ids(a, t) \cup Ids(b, t)
  BY <1>2, <1>3, <1>4
<1> QED BY <1>5 DEF c

\* What the native rules ask of the form of one turn; A is the name the
\* dialect has for the assistant.
RoleOf(m, A) == IF m.role = "assistant" THEN A ELSE "user"

IsResult(b, id) == b.type = "result" /\ b.id = id

FormOf(v, m, A) ==
    /\ GoodNative(v) /\ v.role = RoleOf(m, A)
    /\ Ids(v.blocks, "call") = ToSet(m.calls)
    /\ m.role = "tool" => Len(v.blocks) = 1 /\ IsResult(v.blocks[1], m.answers)

LEMMA CallIdsOf ==
    ASSUME NEW m, GoodMsg(m), NEW asks, asks \/ m.calls = <<>>
    PROVE  Ids(TurnBlocks(m, asks), "call") = ToSet(m.calls)
<1>0. IsSeq(m.calls)
  BY DEF GoodMsg
<1> DEFINE a == IF m.text # <<>> \/ m.calls = <<>> THEN <<Block("text", m.text, NoId)>> ELSE <<>>
<1> DEFINE b == IF asks THEN CallsOf(m) ELSE <<>>
<1>1. TurnBlocks(m, asks) = a \o b
  BY DEF TurnBlocks, CallsOf
<1>2. IsSeq(a) /\ Ids(a, "call") = {}
  <2>1. IsSeq(a) /\ \A i \in 1..Len(a) : a[i] = Block("text", m.text, NoId)
    <3>1. CASE m.text # <<>> \/ m.calls = <<>>
      <4>1. IsSeq(a) /\ Len(a) = 1 /\ a[1] = Block("text", m.text, NoId)
        BY <3>1, Tuples
      <4> HIDE DEF a
      <4> QED BY <4>1
    <3>2. CASE ~(m.text # <<>> \/ m.calls = <<>>)
      <4>1. IsSeq(a) /\ Len(a) = 0
        BY <3>2, Tuples
      <4> HIDE DEF a
      <4> QED BY <4>1
    <3> QED BY <3>1, <3>2
  <2> HIDE DEF a
  <2>2. \A i \in 1..Len(a) : a[i].type = "text"
    BY <2>1, BlockFields
  <2> QED BY <2>1, <2>2, IdsIs
<1>3. IsSeq(b) /\ Ids(b, "call") = ToSet(m.calls)
  <2>1. CASE asks
    <3>0. b = CallsOf(m)
      BY <2>1
    <3> HIDE DEF b
    <3>1. IsSeq(b) /\ Len(b) = Len(m.calls) /\ \A i \in 1..Len(m.calls) : b[i] = Block("call", <<>>, m.calls[i])
      BY <3>0, CallBlocks DEF GoodBlocks
    <3>2. \A i \in 1..Len(m.calls) : b[i].type = "call" /\ b[i].id = m.calls[i]
      BY <3>1, BlockFields
    <3>3. ToSet(m.calls) = {m.calls[i] : i \in 1..Len(m.calls)}
      BY <1>0, SetOf
    <3>4. \A x : x \in Ids(b, "call") <=> x \in ToSet(m.calls)
      BY <3>1, <3>2, <3>3, IdsIs
    <3> QED BY <3>1, <3>4
  <2>2. CASE ~asks
    <3>0. b = <<>> /\ m.calls = <<>>
      BY <2>2
    <3> HIDE DEF b
    <3>1. IsSeq(b) /\ Len(b) = 0 /\ ToSet(m.calls) = {}
      BY <3>0, Tuples, SetOfNone
    <3> QED BY <3>1, IdsIs
  <2> QED BY <2>1, <2>2
<1> HIDE DEF a, b
<1>4. Ids(a \o b, "call") = Ids(a, "call") \cup Ids(b, "call")
  BY <1>2, <1>3, IdsJoined
<1> QED BY <1>1, <1>2, <1>3, <1>4

LEMMA ResultForm ==
    ASSUME NEW m, GoodMsg(m), m.role = "tool", NEW A,
           NEW v, v = [role |-> "user", blocks |-> <<Block("result", m.text, m.answers)>>], GoodNative(v)
    PROVE  FormOf(v, m, A)
<1> DEFINE b == Block("result", m.text, m.answers)
<1> DEFINE x == <<b>>
<1>1. b.type = "result" /\ b.id = m.answers
  BY BlockFields
<1>2. v = [role |-> "user", blocks |-> x]
  OBVIOUS
<1> HIDE DEF b
<1>3. IsSeq(x) /\ Len(x) = 1 /\ x[1] = b
  BY Tuples
<1> HIDE DEF x
<1>4. v.role = "user" /\ v.blocks = x
  BY <1>2
<1>5. Ids(x, "call") = {}
  <2>1. \A i \in 1..Len(x) : x[i].type = "result"
    BY <1>1, <1>3
  <2> QED BY <1>3, <2>1, IdsIs
<1>6. ToSet(m.calls) = {}
  BY SetOfNone DEF GoodMsg
<1> QED BY <1>1, <1>3, <1>4, <1>5, <1>6 DEF FormOf, RoleOf, IsResult

LEMMA AnthropicForm ==
    ASSUME NEW m, GoodMsg(m), ~IsSystem(m)
    PROVE  FormOf(AnthropicBlocks(m), m, "assistant")
<1> DEFINE v == AnthropicBlocks(m)
<1>0. GoodNative(v)
  BY AnthropicTurn DEF NativeOf
<1>1. CASE m.role = "tool"
  <2>1. v = [role |-> "user", blocks |-> <<Block("result", m.text, m.answers)>>]
    BY <1>1 DEF AnthropicBlocks
  <2> HIDE DEF v
  <2>2. FormOf(v, m, "assistant")
    BY <1>0, <1>1, <2>1, ResultForm
  <2> QED BY <2>2 DEF v
<1>2. CASE m.role # "tool"
  <2> DEFINE r == RoleOf(m, "assistant")
  <2> DEFINE asks == r = "assistant"
  <2> DEFINE x == TurnBlocks(m, asks)
  <2>1. v = [role |-> r, blocks |-> x]
    BY <1>2 DEF AnthropicBlocks, RoleOf
  <2>2. asks \/ m.calls = <<>>
    BY DEF GoodMsg, RoleOf
  <2> HIDE DEF asks
  <2>3. Ids(x, "call") = ToSet(m.calls)
    BY <2>2, CallIdsOf
  <2> HIDE DEF x, r, v
  <2>4. v.role = r /\ v.blocks = x
    BY <2>1
  <2> QED BY <1>0, <1>2, <2>3, <2>4 DEF FormOf, r, v
<1> QED BY <1>1, <1>2

LEMMA GoogleForm ==
    ASSUME NEW m, GoodMsg(m), ~IsSystem(m), NEW names, m.role = "tool" => m.answers \in names
    PROVE  FormOf(GoogleParts(m, names), m, "model")
<1> DEFINE v == GoogleParts(m, names)
<1>0. GoodNative(v)
  BY GoogleTurn DEF NativeOf
<1>1. CASE m.role = "tool"
  <2>1. v = [role |-> "user", blocks |-> <<Block("result", m.text, m.answers)>>]
    BY <1>1 DEF GoogleParts
  <2> HIDE DEF v
  <2>2. FormOf(v, m, "model")
    BY <1>0, <1>1, <2>1, ResultForm
  <2> QED BY <2>2 DEF v
<1>2. CASE m.role # "tool"
  <2> DEFINE r == RoleOf(m, "model")
  <2> DEFINE asks == r = "model"
  <2> DEFINE x == TurnBlocks(m, asks)
  <2>1. v = [role |-> r, blocks |-> x]
    BY <1>2 DEF GoogleParts, RoleOf
  <2>2. asks \/ m.calls = <<>>
    BY DEF GoodMsg, RoleOf
  <2> HIDE DEF asks
  <2>3. Ids(x, "call") = ToSet(m.calls)
    BY <2>2, CallIdsOf
  <2> HIDE DEF x, r, v
  <2>4. v.role = r /\ v.blocks = x
    BY <2>1
  <2> QED BY <1>0, <1>2, <2>3, <2>4 DEF FormOf, r, v
<1> QED BY <1>1, <1>2

\* Native message x ends with turn i, which calls, and the results among the
\* turns up to n are the first blocks of the message after it.
Follows(T, N, x, i, n) ==
    LET k == Len(T[i].calls) IN
    /\ i \in 1..n /\ k # 0 /\ Ids(N[x].blocks, "call") = ToSet(T[i].calls)
    /\ n = i => x = Len(N)
    /\ n # i => x + 1 =< Len(N) /\ N[x + 1].role = "user"
    /\ \A j \in 1..k : i + j =< n => /\ j =< Len(N[x + 1].blocks)
                                     /\ IsResult(N[x + 1].blocks[j], T[i + j].answers)
    /\ n # i /\ n =< i + k => x + 1 = Len(N) /\ Len(N[x + 1].blocks) = n - i

Alternates(N) == \A i \in 1..Len(N) : i + 1 =< Len(N) => N[i].role # N[i + 1].role

NativeTracks(T, N, n, A) ==
    /\ GoodNatives(N) /\ Alternates(N)
    /\ n = 0 => Len(N) = 0
    /\ n # 0 => Len(N) # 0 /\ N[Len(N)].role = RoleOf(T[n], A)
    /\ \A x \in 1..Len(N) : Ids(N[x].blocks, "call") # {} => \E i : Follows(T, N, x, i, n)

LEMMA CallsSome ==
    ASSUME NEW m, GoodMsg(m), ToSet(m.calls) # {} PROVE Len(m.calls) # 0 /\ m.role = "assistant"
<1>1. IsSeq(m.calls)
  BY DEF GoodMsg
<1>2. m.calls # <<>>
  BY SetOfNone
<1>3. Len(m.calls) # 0
  <2> DEFINE c == m.calls
  <2>1. IsSeq(c) /\ c # <<>>
    BY <1>1, <1>2
  <2> HIDE DEF c
  <2>2. Len(c) # 0
    BY <2>1, FlatNothing
  <2> QED BY <2>2 DEF c
<1> QED BY <1>2, <1>3 DEF GoodMsg

LEMMA NamesSome ==
    ASSUME NEW m, GoodMsg(m), Len(m.calls) # 0 PROVE m.role = "assistant"
<1>1. m.calls # <<>>
  BY Tuples
<1> QED BY <1>1 DEF GoodMsg

\* A turn that starts a message of its own.
LEMMA FollowsAppended ==
    ASSUME NEW T, AllDone(T), NEW n \in Nat, n + 1 =< Len(T), NEW A, A # "user",
           NEW N, NativeTracks(T, N, n, A), NEW v, FormOf(v, T[n + 1], A),
           Len(N) = 0 \/ N[Len(N)].role # v.role, NEW W, W = Append(N, v)
    PROVE  NativeTracks(T, W, n + 1, A)
<1> DEFINE m == T[n + 1]
<1> DEFINE l == Len(N)
<1>0. Len(T) \in Nat /\ n + 1 \in 1..Len(T) /\ GoodMsg(m) /\ \A i \in 1..n : i \in 1..Len(T) /\ i \in 1..(n + 1)
  <2>1. Len(T) \in Nat /\ \A i \in 1..Len(T) : GoodMsg(T[i])
    BY DEF AllDone, GoodMsgs, IsSeq
  <2>2. n + 1 \in 1..Len(T) /\ \A i \in 1..n : i \in 1..Len(T) /\ i \in 1..(n + 1)
    BY <2>1
  <2> QED BY <2>1, <2>2
<1>1. IsSeq(N) /\ l \in Nat /\ GoodNatives(N) /\ Alternates(N) /\ GoodNative(v)
  BY DEF NativeTracks, GoodNatives, IsSeq, FormOf
<1>2. IsSeq(W) /\ Len(W) = l + 1 /\ W[l + 1] = v /\ \A i \in 1..l : W[i] = N[i]
  BY <1>1, Appended
<1>3. \A i \in 1..Len(W) : i \in 1..l \/ i = l + 1
  BY <1>1, <1>2
<1>4. GoodNatives(W)
  BY <1>1, <1>2, <1>3 DEF GoodNatives
<1>5. Alternates(W)
  <2>1. ASSUME NEW i \in 1..Len(W), i + 1 =< Len(W) PROVE W[i].role # W[i + 1].role
    <3>1. CASE i = l
      <4>1. l # 0 /\ i \in 1..l
        BY <1>1, <3>1
      <4> QED BY <1>2, <3>1, <4>1
    <3>2. CASE i # l
      <4>1. i \in 1..l /\ i + 1 \in 1..l /\ i + 1 =< l
        BY <1>1, <1>2, <2>1, <3>2
      <4> QED BY <1>1, <1>2, <4>1 DEF Alternates
    <3> QED BY <3>1, <3>2
  <2> QED BY <2>1 DEF Alternates
<1>6. n + 1 # 0 /\ Len(W) # 0 /\ W[Len(W)].role = RoleOf(m, A)
  BY <1>1, <1>2 DEF FormOf
<1>7. ASSUME NEW x \in 1..l, Ids(N[x].blocks, "call") # {} PROVE \E i : Follows(T, W, x, i, n + 1)
  <2>1. PICK i : Follows(T, N, x, i, n)
    BY <1>7 DEF NativeTracks
  <2> DEFINE k == Len(T[i].calls)
  <2>2. /\ i \in 1..n /\ k # 0 /\ Ids(N[x].blocks, "call") = ToSet(T[i].calls)
        /\ n = i => x = l
        /\ n # i => x + 1 =< l /\ N[x + 1].role = "user"
        /\ \A j \in 1..k : i + j =< n => /\ j =< Len(N[x + 1].blocks)
                                         /\ IsResult(N[x + 1].blocks[j], T[i + j].answers)
        /\ n # i /\ n =< i + k => x + 1 = l /\ Len(N[x + 1].blocks) = n - i
    BY <2>1 DEF Follows
  <2>3. k \in Nat
    BY <1>0, <2>2 DEF AllDone, GoodMsgs, GoodMsg, IsSeq
  <2>4. n + 1 =< i + k => m.role = "tool"
    BY <2>2, WithinResults
  <2> HIDE DEF k
  <2>5. W[x] = N[x] /\ n + 1 # i /\ i \in 1..(n + 1)
    BY <1>2, <2>2
  <2>6. CASE n = i
    <3>1. x + 1 = Len(W) /\ x + 1 =< Len(W) /\ W[x + 1] = v /\ n + 1 =< i + k
      BY <1>1, <1>2, <2>2, <2>3, <2>6
    <3>2. v.role = "user" /\ Len(v.blocks) = 1 /\ IsResult(v.blocks[1], m.answers)
      BY <2>4, <3>1 DEF FormOf, RoleOf
    <3>3. \A j \in 1..k : i + j =< n + 1 => j = 1 /\ i + j = n + 1
      BY <2>2, <2>3, <2>6
    <3>4. \A j \in 1..k : i + j =< n + 1 => /\ j =< Len(W[x + 1].blocks)
                                           /\ IsResult(W[x + 1].blocks[j], T[i + j].answers)
      BY <3>1, <3>2, <3>3
    <3>5. Len(W[x + 1].blocks) = n + 1 - i
      <4>1. n + 1 - i = 1
        BY <2>2, <2>6
      <4> QED BY <3>1, <3>2, <4>1
    <3> QED BY <2>2, <2>5, <3>1, <3>2, <3>4, <3>5, SMTT(60) DEF Follows, k
  <2>7. CASE n # i
    <3>1. x + 1 =< l /\ N[x + 1].role = "user" /\ x + 1 \in 1..l
      BY <1>1, <2>2, <2>7
    <3>2. ~(n + 1 =< i + k)
      <4> SUFFICES ASSUME n + 1 =< i + k PROVE FALSE
        OBVIOUS
      <4>1. n =< i + k
        BY <2>2, <2>3
      <4>2. x + 1 = l
        BY <2>2, <2>7, <4>1
      <4>3. v.role = "user"
        BY <2>4 DEF FormOf, RoleOf
      <4>4. l # 0
        BY <1>1, <3>1
      <4> QED BY <3>1, <4>2, <4>3, <4>4
    <3>3. \A j \in 1..k : i + j =< n
      BY <2>2, <2>3, <3>2
    <3>4. W[x + 1] = N[x + 1] /\ x + 1 =< Len(W)
      BY <1>1, <1>2, <3>1
    <3>5. \A j \in 1..k : i + j =< n + 1 => /\ j =< Len(W[x + 1].blocks)
                                           /\ IsResult(W[x + 1].blocks[j], T[i + j].answers)
      BY <2>2, <3>3, <3>4
    <3> QED BY <2>2, <2>5, <3>1, <3>2, <3>4, <3>5 DEF Follows, k
  <2> QED BY <2>6, <2>7
<1>8. ASSUME Ids(v.blocks, "call") # {} PROVE Follows(T, W, l + 1, n + 1, n + 1)
  <2> DEFINE k == Len(m.calls)
  <2>1. Ids(v.blocks, "call") = ToSet(m.calls)
    BY DEF FormOf
  <2>2. k # 0 /\ k \in Nat
    BY <1>0, <1>8, <2>1, CallsSome DEF GoodMsg, IsSeq
  <2> HIDE DEF k
  <2>3. (\A j \in 1..k : ~((n + 1) + j =< n + 1)) /\ n + 1 \in 1..(n + 1)
    BY <2>2
  <2> QED BY <1>2, <2>1, <2>2, <2>3 DEF Follows, k
<1>9. ASSUME NEW x \in 1..Len(W), Ids(W[x].blocks, "call") # {} PROVE \E i : Follows(T, W, x, i, n + 1)
  <2>1. CASE x \in 1..l
    BY <1>2, <1>7, <1>9, <2>1
  <2>2. CASE x = l + 1
    BY <1>2, <1>8, <1>9, <2>2
  <2> QED BY <1>3, <2>1, <2>2
<1> QED BY <1>4, <1>5, <1>6, <1>9 DEF NativeTracks

\* A turn that joins the last message.
LEMMA FollowsGrown ==
    ASSUME NEW T, AllDone(T), NEW n \in Nat, n + 1 =< Len(T), NEW A, A # "user",
           NEW N, NativeTracks(T, N, n, A), NEW v, FormOf(v, T[n + 1], A),
           NEW W, GoodNatives(W), RoleGrows(N, v, W)
    PROVE  NativeTracks(T, W, n + 1, A)
<1> DEFINE m == T[n + 1]
<1> DEFINE l == Len(N)
<1>0. Len(T) \in Nat /\ n + 1 \in 1..Len(T) /\ GoodMsg(m) /\ \A i \in 1..n : i \in 1..Len(T) /\ i \in 1..(n + 1)
  <2>1. Len(T) \in Nat /\ \A i \in 1..Len(T) : GoodMsg(T[i])
    BY DEF AllDone, GoodMsgs, IsSeq
  <2>2. n + 1 \in 1..Len(T) /\ \A i \in 1..n : i \in 1..Len(T) /\ i \in 1..(n + 1)
    BY <2>1
  <2> QED BY <2>1, <2>2
<1>1. IsSeq(N) /\ l \in Nat /\ GoodNatives(N) /\ Alternates(N)
  BY DEF NativeTracks, GoodNatives, IsSeq
<1> DEFINE a == N[l].blocks
<1> DEFINE b == v.blocks
<1> DEFINE c == a \o b
<1>2. /\ l # 0 /\ Len(W) = l /\ N[l].role = v.role /\ \A i \in 1..l : i # l => W[i] = N[i]
      /\ W[l] = [role |-> v.role, blocks |-> c]
  BY DEF RoleGrows
<1>3. l \in 1..l /\ n # 0
  BY <1>1, <1>2 DEF NativeTracks
<1>4. IsSeq(a) /\ IsSeq(b) /\ Len(a) \in Nat /\ Len(b) \in Nat
  BY <1>1, <1>3 DEF GoodNatives, GoodNative, GoodBlocks, FormOf, IsSeq
<1>5. /\ Len(c) = Len(a) + Len(b) /\ \A i \in 1..Len(a) : c[i] = a[i]
      /\ \A i \in 1..Len(b) : c[Len(a) + i] = b[i]
      /\ Ids(c, "call") = Ids(a, "call") \cup Ids(b, "call")
  <2> HIDE DEF a, b
  <2> QED BY <1>4, Joined, IdsJoined
<1> HIDE DEF c
<1>6. W[l].role = v.role /\ W[l].blocks = c
  BY <1>2
<1>7. \A i \in 1..l : W[i].role = N[i].role
  BY <1>2, <1>6
<1>8. Alternates(W)
  <2>1. ASSUME NEW i \in 1..l, i + 1 =< l PROVE W[i].role # W[i + 1].role
    <3>1. i + 1 \in 1..l
      BY <1>1, <2>1
    <3> QED BY <1>1, <1>7, <2>1, <3>1 DEF Alternates
  <2> QED BY <1>2, <2>1 DEF Alternates
<1>9. n + 1 # 0 /\ Len(W) # 0 /\ W[Len(W)].role = RoleOf(m, A)
  BY <1>2, <1>6 DEF FormOf
<1>10. Ids(a, "call") = {}
  <2> SUFFICES ASSUME Ids(a, "call") # {} PROVE FALSE
    OBVIOUS
  <2>1. PICK i : Follows(T, N, l, i, n)
    BY <1>3 DEF NativeTracks
  <2> DEFINE k == Len(T[i].calls)
  <2>2. i \in 1..n /\ k # 0 /\ (n # i => l + 1 =< l)
    BY <2>1 DEF Follows
  <2>3. k \in Nat /\ GoodMsg(T[i])
    BY <1>0, <2>2 DEF AllDone, GoodMsgs, GoodMsg, IsSeq
  <2>4. n = i
    BY <1>1, <2>2
  <2>5. m.role = "tool"
    <3>1. n + 1 =< i + k
      <4> HIDE DEF k
      <4> QED BY <2>2, <2>3, <2>4
    <3> QED BY <2>2, <3>1, WithinResults
  <2>6. v.role = "user"
    BY <2>5 DEF FormOf, RoleOf
  <2>7. T[n].role = "assistant"
    BY <2>2, <2>3, <2>4, NamesSome
  <2>8. N[l].role = A
    BY <1>3, <2>7 DEF NativeTracks, RoleOf
  <2> QED BY <1>2, <2>6, <2>8
<1>11. ASSUME NEW x \in 1..l, x # l, Ids(N[x].blocks, "call") # {} PROVE \E i : Follows(T, W, x, i, n + 1)
  <2>1. PICK i : Follows(T, N, x, i, n)
    BY <1>11 DEF NativeTracks
  <2> DEFINE k == Len(T[i].calls)
  <2> DEFINE p == N[x + 1].blocks
  <2> DEFINE q == W[x + 1].blocks
  <2>2. /\ i \in 1..n /\ k # 0 /\ Ids(N[x].blocks, "call") = ToSet(T[i].calls)
        /\ n = i => x = l
        /\ n # i => x + 1 =< l /\ N[x + 1].role = "user"
        /\ \A j \in 1..k : i + j =< n => j =< Len(p) /\ IsResult(p[j], T[i + j].answers)
        /\ n # i /\ n =< i + k => x + 1 = l /\ Len(p) = n - i
    BY <2>1 DEF Follows
  <2>3. k \in Nat
    BY <1>0, <2>2 DEF AllDone, GoodMsgs, GoodMsg, IsSeq
  <2>4. n + 1 =< i + k => m.role = "tool"
    BY <2>2, WithinResults
  <2> HIDE DEF k
  <2>5. n # i /\ x + 1 =< l /\ x + 1 \in 1..l /\ W[x] = N[x] /\ n + 1 # i /\ i \in 1..(n + 1)
    BY <1>1, <1>2, <1>11, <2>2
  <2>6. W[x + 1].role = "user"
    BY <1>7, <2>2, <2>5
  <2>7. x + 1 # l => q = p
    BY <1>2, <2>5
  <2>8. x + 1 = l => p = a /\ q = c
    BY <1>6
  <2> HIDE DEF p, q, a, b
  <2>9. n + 1 =< i + k => x + 1 = l /\ Len(a) = n - i /\ Len(b) = 1 /\ IsResult(b[1], m.answers)
    <3> SUFFICES ASSUME n + 1 =< i + k
                 PROVE  x + 1 = l /\ Len(a) = n - i /\ Len(b) = 1 /\ IsResult(b[1], m.answers)
      OBVIOUS
    <3>1. n =< i + k
      BY <2>2, <2>3
    <3>2. x + 1 = l /\ Len(a) = n - i
      BY <2>2, <2>5, <2>8, <3>1
    <3> QED BY <2>4, <3>2 DEF FormOf, b
  <2>10. ASSUME NEW j \in 1..k, i + j =< n PROVE j =< Len(q) /\ IsResult(q[j], T[i + j].answers)
    <3>1. j =< Len(p) /\ IsResult(p[j], T[i + j].answers)
      BY <2>2, <2>10
    <3>2. CASE x + 1 = l
      <4>1. j =< Len(a) /\ IsResult(a[j], T[i + j].answers) /\ q = c
        BY <2>8, <3>1, <3>2
      <4>2. j \in 1..Len(a) /\ j =< Len(c)
        BY <1>4, <1>5, <2>3, <4>1
      <4> QED BY <1>5, <4>1, <4>2
    <3>3. CASE x + 1 # l
      BY <2>7, <3>1, <3>3
    <3> QED BY <3>2, <3>3
  <2>11. ASSUME NEW j \in 1..k, i + j = n + 1 PROVE j =< Len(q) /\ IsResult(q[j], T[i + j].answers)
    <3>1. n + 1 =< i + k
      BY <2>2, <2>3, <2>11
    <3>2. x + 1 = l /\ Len(a) = n - i /\ Len(b) = 1 /\ IsResult(b[1], m.answers) /\ q = c
      BY <2>8, <2>9, <3>1
    <3>3. j = Len(a) + 1 /\ 1 \in 1..Len(b) /\ j =< Len(c)
      BY <1>4, <1>5, <2>2, <2>11, <3>2
    <3>4. c[j] = b[1]
      BY <1>5, <3>3
    <3> QED BY <2>11, <3>2, <3>3, <3>4
  <2>12. \A j \in 1..k : i + j =< n + 1 => j =< Len(q) /\ IsResult(q[j], T[i + j].answers)
    <3>1. \A j \in 1..k : i + j =< n + 1 => i + j =< n \/ i + j = n + 1
      BY <2>2, <2>3
    <3> QED BY <2>10, <2>11, <3>1
  <2>13. n + 1 =< i + k => x + 1 = Len(W) /\ Len(q) = n + 1 - i
    <3> SUFFICES ASSUME n + 1 =< i + k PROVE x + 1 = Len(W) /\ Len(q) = n + 1 - i
      OBVIOUS
    <3>1. x + 1 = l /\ Len(a) = n - i /\ Len(b) = 1 /\ q = c
      BY <2>8, <2>9
    <3>2. Len(c) = (n - i) + 1
      BY <1>5, <3>1
    <3>3. (n - i) + 1 = n + 1 - i
      BY <2>2
    <3> QED BY <1>2, <3>1, <3>2, <3>3
  <2>14. x + 1 =< Len(W)
    BY <1>2, <2>5
  <2>15. /\ i \in 1..(n + 1) /\ k # 0 /\ Ids(W[x].blocks, "call") = ToSet(T[i].calls)
         /\ n + 1 = i => x = Len(W)
         /\ n + 1 # i => x + 1 =< Len(W) /\ W[x + 1].role = "user"
         /\ n + 1 # i /\ n + 1 =< i + k => x + 1 = Len(W) /\ Len(q) = n + 1 - i
    BY <2>2, <2>5, <2>6, <2>13, <2>14
  <2>16. Follows(T, W, x, i, n + 1)
    <3>1. \A j \in 1..k : i + j =< n + 1 => /\ j =< Len(W[x + 1].blocks)
                                           /\ IsResult(W[x + 1].blocks[j], T[i + j].answers)
      BY <2>12 DEF q
    <3>2. n + 1 # i /\ n + 1 =< i + k => x + 1 = Len(W) /\ Len(W[x + 1].blocks) = n + 1 - i
      BY <2>15 DEF q
    <3> QED BY <2>15, <3>1, <3>2 DEF Follows, k
  <2> QED BY <2>16
<1>12. ASSUME Ids(c, "call") # {} PROVE Follows(T, W, l, n + 1, n + 1)
  <2> DEFINE k == Len(m.calls)
  <2>1. Ids(c, "call") = ToSet(m.calls)
    BY <1>5, <1>10 DEF FormOf
  <2>2. k # 0 /\ k \in Nat
    BY <1>0, <1>12, <2>1, CallsSome DEF GoodMsg, IsSeq
  <2> HIDE DEF k
  <2>3. (\A j \in 1..k : ~((n + 1) + j =< n + 1)) /\ n + 1 \in 1..(n + 1)
    BY <2>2
  <2> QED BY <1>2, <1>6, <2>1, <2>2, <2>3 DEF Follows, k
<1>13. ASSUME NEW x \in 1..l, Ids(W[x].blocks, "call") # {} PROVE \E i : Follows(T, W, x, i, n + 1)
  <2>1. CASE x # l
    BY <1>2, <1>11, <1>13, <2>1
  <2>2. CASE x = l
    BY <1>6, <1>12, <1>13, <2>2
  <2> QED BY <2>1, <2>2
<1> QED BY <1>2, <1>8, <1>9, <1>13 DEF NativeTracks

LEMMA RolesFollow ==
    ASSUME NEW T, AllDone(T), NEW A, A # "user",
           NEW L, IsSeq(L), Len(L) = Len(T), \A i \in 1..Len(T) : FormOf(L[i], T[i], A)
    PROVE  NativeTracks(T, JoinRoles(L), Len(T), A)
<1>0. Len(L) \in Nat /\ Len(T) \in Nat
  BY DEF IsSeq
<1>1. PICK f : Goes("roles", <<>>, L, f) /\ JoinRoles(L) = f[Len(L)]
  BY <1>0, RolesLoop
<1>2. f[0] = <<>> /\ \A n \in 1..Len(L) : f[n] = JoinRole(f[n - 1], L[n])
  BY <1>1 DEF Goes, StepOf
<1>3. NativeTracks(T, f[0], 0, A)
  <2> DEFINE e == f[0]
  <2>1. IsSeq(e) /\ Len(e) = 0
    BY <1>2, Tuples
  <2> HIDE DEF e
  <2> QED BY <2>1 DEF NativeTracks, GoodNatives, Alternates, e
<1>4. ASSUME NEW n \in Nat, n + 1 =< Len(T), NativeTracks(T, f[n], n, A)
      PROVE  NativeTracks(T, f[n + 1], n + 1, A)
  <2> DEFINE N == f[n]
  <2> DEFINE W == f[n + 1]
  <2> DEFINE v == L[n + 1]
  <2>1. n + 1 \in 1..Len(L) /\ n + 1 \in 1..Len(T) /\ (n + 1) - 1 = n
    BY <1>0, <1>4
  <2>2. W = JoinRole(N, v) /\ FormOf(v, T[n + 1], A) /\ NativeTracks(T, N, n, A)
    BY <1>2, <1>4, <2>1
  <2> HIDE DEF N, W, v
  <2>3. GoodNative(v) /\ GoodNatives(N)
    BY <2>2 DEF FormOf, NativeTracks
  <2>4. GoodNatives(W)
    BY <2>2, <2>3, RoleBlocks
  <2>5. \/ RoleGrows(N, v, W)
        \/ W = Append(N, v) /\ (Len(N) = 0 \/ N[Len(N)].role # v.role)
    BY <2>2, <2>3, RoleAdded
  <2>6. CASE RoleGrows(N, v, W)
    BY <1>4, <2>2, <2>4, <2>6, FollowsGrown DEF W
  <2>7. CASE W = Append(N, v) /\ (Len(N) = 0 \/ N[Len(N)].role # v.role)
    BY <1>4, <2>2, <2>7, FollowsAppended DEF W
  <2> QED BY <2>5, <2>6, <2>7
<1> DEFINE S == {n \in Nat : n =< Len(T) => NativeTracks(T, f[n], n, A)}
<1>5. \A n \in Nat : n \in S
  <2>1. 0 \in S
    BY <1>3
  <2>2. ASSUME NEW n \in Nat, n \in S PROVE n + 1 \in S
    <3>1. n + 1 =< Len(T) => n =< Len(T)
      BY <1>0
    <3>2. n + 1 =< Len(T) => NativeTracks(T, f[n + 1], n + 1, A)
      BY <1>4, <2>2, <3>1
    <3>3. n + 1 \in Nat
      OBVIOUS
    <3> QED BY <3>2, <3>3
  <2> HIDE DEF S
  <2> QED BY <2>1, <2>2, ByNat
<1> QED BY <1>0, <1>1, <1>5

LEMMA FirstBlocks ==
    ASSUME NEW s, IsSeq(s), NEW k \in Nat, k =< Len(s)
    PROVE  LET t == SubSeq(s, 1, k) IN IsSeq(t) /\ Len(t) = k /\ \A i \in 1..k : t[i] = s[i]
<1> DEFINE t == SubSeq(s, 1, k)
<1>1. Len(s) \in Nat /\ s = [i \in 1..Len(s) |-> s[i]]
  BY DEF IsSeq
<1> DEFINE X == {s[i] : i \in 1..Len(s)}
<1>2. \A i \in 1..Len(s) : s[i] \in X
  OBVIOUS
<1> HIDE DEF X
<1>3. s \in Seq(X)
  BY <1>1, <1>2
<1>4. Len(t) = k /\ \A i \in 1..k : t[i] = s[i]
  BY <1>1, <1>3
<1>5. t \in Seq(X)
  BY <1>1, <1>3
<1>6. IsSeq(t)
  BY <1>5, SeqIsSeq
<1> QED BY <1>4, <1>6

\* The rule for one message of a native request.
Replied(N, x) ==
    LET asked == Ids(N[x].blocks, "call") IN
    asked # {} =>
      /\ x < Len(N) /\ N[x + 1].role = "user"
      /\ Len(N[x + 1].blocks) >= Cardinality(asked)
      /\ Ids(SubSeq(N[x + 1].blocks, 1, Cardinality(asked)), "result") = asked

LEMMA WellFormedIs ==
    ASSUME NEW N, IsSeq(N)
    PROVE  WellFormed(N) <=> Alternates(N) /\ \A x \in 1..Len(N) : Replied(N, x)
<1>1. Len(N) \in Nat /\ DOMAIN N = 1..Len(N)
  BY DEF IsSeq
<1>2. \A i : i \in 1..(Len(N) - 1) <=> i \in 1..Len(N) /\ i + 1 =< Len(N)
  BY <1>1
<1> DEFINE R == \A x \in 1..Len(N) : Replied(N, x)
<1>3. WellFormed(N) <=> (\A i \in 1..(Len(N) - 1) : N[i].role # N[i + 1].role) /\ R
  BY <1>1 DEF WellFormed, Replied
<1> HIDE DEF R
<1>4. Alternates(N) <=> \A i \in 1..(Len(N) - 1) : N[i].role # N[i + 1].role
  BY <1>2 DEF Alternates
<1> QED BY <1>3, <1>4 DEF R

LEMMA TracksWellFormed ==
    ASSUME NEW T, Settled(T), NEW A, NEW N, NativeTracks(T, N, Len(T), A)
    PROVE  WellFormed(N)
<1>0. GoodMsgs(T) /\ Len(T) \in Nat /\ AllDone(T) /\ GoodNatives(N) /\ IsSeq(N) /\ Len(N) \in Nat /\ Alternates(N)
  BY DEF Settled, AllDone, GoodMsgs, NativeTracks, GoodNatives, IsSeq
<1>1. ASSUME NEW x \in 1..Len(N), Ids(N[x].blocks, "call") # {} PROVE Replied(N, x)
  <2>1. PICK i : Follows(T, N, x, i, Len(T))
    BY <1>1 DEF NativeTracks
  <2> DEFINE k == Len(T[i].calls)
  <2> DEFINE asked == Ids(N[x].blocks, "call")
  <2> DEFINE p == N[x + 1].blocks
  <2>2. /\ i \in 1..Len(T) /\ k # 0 /\ asked = ToSet(T[i].calls)
        /\ Len(T) # i => x + 1 =< Len(N) /\ N[x + 1].role = "user"
        /\ \A j \in 1..k : i + j =< Len(T) => j =< Len(p) /\ IsResult(p[j], T[i + j].answers)
    BY <2>1 DEF Follows
  <2>3. k \in Nat /\ Cardinality(asked) = k
    <3>1. Len(T[i].calls) \in Nat
      BY <1>0, <2>2 DEF GoodMsgs, GoodMsg, IsSeq
    <3>2. Distinct(T[i])
      BY <2>2 DEF Settled
    <3> QED BY <2>2, <3>1, <3>2 DEF Distinct
  <2>4. i + k =< Len(T) /\ {T[j].answers : j \in (i + 1)..(i + k)} = ToSet(T[i].calls)
    BY <1>0, <2>2 DEF AllDone, Answered
  <2> HIDE DEF k, asked
  <2>5. /\ Len(T) # i /\ k \in 1..k /\ \A j \in 1..k : i + j =< Len(T) /\ i + j \in (i + 1)..(i + k)
        /\ \A j \in (i + 1)..(i + k) : j - i \in 1..k /\ i + (j - i) = j
    BY <1>0, <2>2, <2>3, <2>4
  <2>6. x + 1 =< Len(N) /\ x + 1 \in 1..Len(N) /\ x < Len(N) /\ N[x + 1].role = "user"
    BY <1>0, <2>2, <2>5
  <2>7. IsSeq(p) /\ Len(p) \in Nat
    BY <1>0, <2>6 DEF GoodNatives, GoodNative, GoodBlocks, IsSeq
  <2> HIDE DEF p
  <2>8. \A j \in 1..k : IsResult(p[j], T[i + j].answers)
    BY <2>2, <2>5
  <2>9. k =< Len(p)
    BY <2>2, <2>5
  <2> DEFINE s == SubSeq(p, 1, k)
  <2>10. IsSeq(s) /\ Len(s) = k /\ \A j \in 1..k : s[j] = p[j]
    BY <2>3, <2>7, <2>9, FirstBlocks
  <2> HIDE DEF s
  <2>11. Ids(s, "result") = asked
    <3>1. \A y : y \in Ids(s, "result") <=> \E j \in 1..k : s[j].type = "result" /\ s[j].id = y
      BY <2>10, IdsIs
    <3>2. \A j \in 1..k : s[j].type = "result" /\ s[j].id = T[i + j].answers
      BY <2>8, <2>10 DEF IsResult
    <3>3. ASSUME NEW y \in Ids(s, "result") PROVE y \in asked
      <4>1. PICK j \in 1..k : s[j].id = y
        BY <3>1
      <4> DEFINE h == i + j
      <4>2. h \in (i + 1)..(i + k) /\ y = T[h].answers
        BY <2>5, <3>2, <4>1
      <4> HIDE DEF h
      <4> QED BY <2>2, <2>4, <4>2
    <3>4. ASSUME NEW y \in asked PROVE y \in Ids(s, "result")
      <4>1. PICK j \in (i + 1)..(i + k) : y = T[j].answers
        BY <2>2, <2>4
      <4> DEFINE h == j - i
      <4>2. h \in 1..k /\ i + h = j
        BY <2>5
      <4> HIDE DEF h
      <4> QED BY <3>1, <3>2, <4>1, <4>2
    <3> QED BY <3>3, <3>4
  <2>12. Len(p) >= Cardinality(asked)
    BY <2>3, <2>7, <2>9
  <2>13. Ids(SubSeq(p, 1, Cardinality(asked)), "result") = asked
    BY <2>3, <2>11 DEF s
  <2> QED BY <2>6, <2>12, <2>13 DEF Replied, p, asked
<1>2. \A x \in 1..Len(N) : Replied(N, x)
  BY <1>1 DEF Replied
<1> QED BY <1>0, <1>2, WellFormedIs

\* So does the request with the opening user turn.
LEMMA OpenedWellFormed ==
    ASSUME NEW N, GoodNatives(N), WellFormed(N), N[1].role # "user",
           NEW M, IsSeq(M), Len(M) = Len(N) + 1, M[1] = Continue, \A i \in 1..Len(N) : M[i + 1] = N[i]
    PROVE  WellFormed(M)
<1>0. IsSeq(N) /\ Len(N) \in Nat
  BY DEF GoodNatives, IsSeq
<1>1. Alternates(N) /\ \A x \in 1..Len(N) : Replied(N, x)
  BY <1>0, WellFormedIs
<1>2. Continue.role = "user" /\ Continue.blocks = <<Block("text", <<0>>, NoId)>>
  BY DEF Continue
<1>3. \A i \in 1..Len(M) : i = 1 \/ (i - 1 \in 1..Len(N) /\ (i - 1) + 1 = i)
  BY <1>0
<1>4. ASSUME NEW i \in 1..Len(M), i + 1 =< Len(M) PROVE M[i].role # M[i + 1].role
  <2>1. i \in 1..Len(N)
    BY <1>0, <1>4
  <2>2. M[i + 1] = N[i]
    BY <2>1
  <2>3. CASE i = 1
    BY <1>2, <2>2, <2>3
  <2>4. CASE i # 1
    <3> DEFINE j == i - 1
    <3>1. j \in 1..Len(N) /\ j + 1 = i /\ j + 1 =< Len(N)
      BY <1>0, <2>1, <2>4
    <3> HIDE DEF j
    <3>2. M[i] = N[j] /\ N[j].role # N[i].role
      BY <1>1, <3>1 DEF Alternates
    <3> QED BY <2>2, <3>2
  <2> QED BY <2>3, <2>4
<1>5. ASSUME NEW x \in 1..Len(M) PROVE Replied(M, x)
  <2>1. CASE x = 1
    <3> DEFINE b == Block("text", <<0>>, NoId)
    <3> DEFINE bs == <<b>>
    <3>1. b.type = "text" /\ M[x].blocks = bs
      BY <1>2, <2>1, BlockFields
    <3> HIDE DEF b
    <3>2. IsSeq(bs) /\ Len(bs) = 1 /\ bs[1] = b
      BY Tuples
    <3> HIDE DEF bs
    <3>3. Ids(bs, "call") = {}
      <4>1. \A i \in 1..Len(bs) : bs[i].type = "text"
        BY <3>1, <3>2
      <4> QED BY <3>2, <4>1, IdsIs
    <3> QED BY <3>1, <3>3 DEF Replied
  <2>2. CASE x # 1
    <3> DEFINE y == x - 1
    <3>1. y \in 1..Len(N) /\ y + 1 = x /\ x + 1 = (y + 1) + 1
      BY <1>0, <1>3, <2>2
    <3> HIDE DEF y
    <3>2. M[x] = N[y] /\ Replied(N, y)
      BY <1>1, <3>1
    <3> SUFFICES ASSUME Ids(M[x].blocks, "call") # {} PROVE Replied(M, x)
      BY DEF Replied
    <3>3. /\ y < Len(N) /\ N[y + 1].role = "user"
          /\ Len(N[y + 1].blocks) >= Cardinality(Ids(N[y].blocks, "call"))
          /\ Ids(SubSeq(N[y + 1].blocks, 1, Cardinality(Ids(N[y].blocks, "call"))), "result")
               = Ids(N[y].blocks, "call")
      BY <3>2 DEF Replied
    <3>4. y + 1 \in 1..Len(N) /\ x < Len(M)
      BY <1>0, <3>1, <3>3
    <3>5. M[x + 1] = N[y + 1]
      BY <3>1, <3>4
    <3> QED BY <3>2, <3>3, <3>4, <3>5 DEF Replied
  <2> QED BY <2>1, <2>2
<1>6. Alternates(M)
  BY <1>4 DEF Alternates
<1> QED BY <1>5, <1>6, WellFormedIs

LEMMA GoogleWellFormed ==
    ASSUME NEW T, GoodTurns(T), Settled(T)
    PROVE  WellFormed(GoogleContents(T))
<1> DEFINE names == Names(T)
<1> DEFINE L == GoogleList(T, names)
<1>1. GoogleContents(T) = JoinRoles(L)
  BY DEF GoogleContents, GoogleList, Names
<1>2. \A i \in 1..Len(T) : T[i].role = "tool" => T[i].answers \in names
  BY DEF Settled, ResultsKnown
<1> HIDE DEF names
<1>3. NativesOf(L, T) /\ \A i \in 1..Len(T) : L[i] = GoogleParts(T[i], names)
  BY <1>2, GoogleNatives
<1>4. ASSUME NEW i \in 1..Len(T) PROVE FormOf(L[i], T[i], "model")
  <2> DEFINE m == T[i]
  <2>1. GoodMsg(m) /\ ~IsSystem(m) /\ (m.role = "tool" => m.answers \in names) /\ L[i] = GoogleParts(m, names)
    BY <1>2, <1>3 DEF GoodTurns, GoodMsgs
  <2> HIDE DEF m
  <2>2. FormOf(GoogleParts(m, names), m, "model")
    BY <2>1, GoogleForm
  <2> QED BY <2>1, <2>2 DEF m
<1> HIDE DEF L
<1>5. IsSeq(L) /\ Len(L) = Len(T) /\ AllDone(T)
  BY <1>3 DEF NativesOf, Settled
<1> DEFINE A == "model"
<1>6. A # "user" /\ \A i \in 1..Len(T) : FormOf(L[i], T[i], A)
  BY <1>4
<1> HIDE DEF A
<1>7. NativeTracks(T, JoinRoles(L), Len(T), A)
  BY <1>5, <1>6, RolesFollow
<1> QED BY <1>1, <1>7, TracksWellFormed

LEMMA AnthropicWellFormed ==
    ASSUME NEW T, GoodTurns(T), Settled(T)
    PROVE  /\ WellFormed(AnthropicMessages(T))
           /\ T # <<>> => AnthropicMessages(T)[1].role = "user"
<1> DEFINE L == AnthropicList(T)
<1>1. NativesOf(L, T) /\ \A i \in 1..Len(T) : L[i] = AnthropicBlocks(T[i])
  BY AnthropicNatives
<1>2. ASSUME NEW i \in 1..Len(T) PROVE FormOf(L[i], T[i], "assistant")
  <2> DEFINE m == T[i]
  <2>1. GoodMsg(m) /\ ~IsSystem(m) /\ L[i] = AnthropicBlocks(m)
    BY <1>1 DEF GoodTurns, GoodMsgs
  <2> HIDE DEF m
  <2>2. FormOf(AnthropicBlocks(m), m, "assistant")
    BY <2>1, AnthropicForm
  <2> QED BY <2>1, <2>2 DEF m
<1> DEFINE N == JoinRoles(L)
<1>3. \/ AnthropicMessages(T) = N /\ (N = <<>> \/ N[1].role = "user")
      \/ AnthropicMessages(T) = <<Continue>> \o N /\ N # <<>> /\ N[1].role # "user"
  BY AnthropicIs
<1> HIDE DEF L
<1>4. IsSeq(L) /\ Len(L) = Len(T) /\ AllDone(T)
  BY <1>1 DEF NativesOf, Settled
<1> DEFINE A == "assistant"
<1>5. A # "user" /\ \A i \in 1..Len(T) : FormOf(L[i], T[i], A)
  BY <1>2
<1> HIDE DEF A
<1>6. NativeTracks(T, N, Len(T), A) /\ GoodBlocks(Blocks(N))
  BY <1>1, <1>4, <1>5, RolesFollow, NativesTold
<1> HIDE DEF N
<1>7. WellFormed(N) /\ GoodNatives(N)
  BY <1>6, TracksWellFormed DEF NativeTracks
<1>8. T # <<>> => N # <<>>
  <2>1. T # <<>> => Len(T) # 0
    BY FlatNothing DEF GoodTurns, GoodMsgs
  <2>2. Len(T) # 0 => Len(N) # 0
    BY <1>6 DEF NativeTracks
  <2> QED BY <2>1, <2>2, Tuples
<1>9. CASE AnthropicMessages(T) = N /\ (N = <<>> \/ N[1].role = "user")
  BY <1>7, <1>8, <1>9
<1>10. CASE AnthropicMessages(T) = <<Continue>> \o N /\ N # <<>> /\ N[1].role # "user"
  <2> DEFINE M == <<Continue>> \o N
  <2>1. IsSeq(M) /\ Len(M) = Len(N) + 1 /\ M[1] = Continue /\ \A i \in 1..Len(N) : M[i + 1] = N[i]
    BY <1>6, <1>7, Opened
  <2>2. AnthropicMessages(T) = M
    BY <1>10
  <2> HIDE DEF M
  <2>3. WellFormed(M)
    BY <1>7, <1>10, <2>1, OpenedWellFormed
  <2>4. Continue.role = "user"
    BY DEF Continue
  <2> QED BY <2>1, <2>2, <2>3, <2>4
<1> QED BY <1>3, <1>9, <1>10

LEMMA KeepsRules ==
    ASSUME ClientOK
    PROVE  DialectRulesKept
<1> DEFINE C == conversation
<1>0. IsSeq(C) /\ DOMAIN C = 1..Len(C)
  BY DEF ClientOK, ConvOK, ConvGood, IsSeq
<1> SUFFICES ASSUME Ready, NEW ins \in Instructions
             PROVE  LET chat == Chat(ins)
                        rest == Turns(ins)
                    IN
                    /\ \A i \in DOMAIN chat :
                         LET n == Len(chat[i].calls) IN
                         n > 0 => /\ i + n =< Len(chat)
                                  /\ {chat[j].answers : j \in (i + 1)..(i + n)} = ToSet(chat[i].calls)
                    /\ WellFormed(AnthropicMessages(rest))
                    /\ rest # <<>> => AnthropicMessages(rest)[1].role = "user"
                    /\ WellFormed(GoogleContents(rest))
  BY DEF DialectRulesKept
<1>1. Sound(C) /\ OutOf(C) = {}
  BY <1>0, OutstandingIs DEF Ready, Refused, Sound
<1> DEFINE L == Chat(ins)
<1> DEFINE T == Turns(ins)
<1>2. ChatOK(L, {})
  BY <1>1 DEF ClientOK, ConvOK, Chat
<1>3. T = SystemAndTurns(L).turns
  BY DEF Turns
<1> HIDE DEF L, T
<1>4. Settled(L)
  BY <1>2, ChatSettled
<1>5. GoodTurns(T) /\ Settled(T)
  BY <1>3, <1>4, TurnsSettled
<1>6. /\ WellFormed(AnthropicMessages(T)) /\ WellFormed(GoogleContents(T))
      /\ T # <<>> => AnthropicMessages(T)[1].role = "user"
  BY <1>5, AnthropicWellFormed, GoogleWellFormed
<1>7. ASSUME NEW i \in DOMAIN L, Len(L[i].calls) > 0
      PROVE  LET n == Len(L[i].calls) IN
             /\ i + n =< Len(L)
             /\ {L[j].answers : j \in (i + 1)..(i + n)} = ToSet(L[i].calls)
  <2>1. i \in 1..Len(L) /\ Len(L[i].calls) # 0
    <3>1. DOMAIN L = 1..Len(L)
      BY <1>4 DEF Settled, AllDone, GoodMsgs, IsSeq
    <3> QED BY <1>7, <3>1
  <2>2. Answered(L, i)
    BY <1>4, <2>1 DEF Settled, AllDone
  <2> QED BY <2>1, <2>2 DEF Answered
<1> QED BY <1>6, <1>7 DEF L, T

\* Whatever the answers were and in whatever order the results came, what the
\* client replays is a request every dialect accepts (the comment in
\* responsesMessages; BuildRequest of both native adapters).
THEOREM DialectRulesAreKept == AgentSpec => []DialectRulesKept
<1>1. StreamInv /\ ClientOK => DialectRulesKept
  BY KeepsRules
<1> QED BY <1>1, AgentKeeps, PTL DEF AgentSpec
=============================================================================
