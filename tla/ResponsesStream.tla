-------------------------- MODULE ResponsesStream --------------------------
(***************************************************************************)
(* One streamed call of /v1/responses: the provider that speaks, the       *)
(* adapter that decodes its stream into chat chunks (DecodeStream of the   *)
(* three dialects), the gateway that may move on to another provider as    *)
(* long as nothing was sent, and responsesStream, which frames every piece *)
(* of output as an item that is opened, filled and closed.                 *)
(*                                                                         *)
(* Text and arguments are fragments, numbered in the order in which the    *)
(* providers produce them; a chunk is the sequence of pieces consume takes *)
(* from it, one piece per step.  A choice is the only one of its chunk.    *)
(***************************************************************************)
EXTENDS Integers, FiniteSets, SequencesExt

CONSTANTS
    Adapters,     \* the dialects of the candidates
    MaxAttempts,  \* candidates of the chain
    MaxFragments, \* fragments of text and arguments of all attempts together
    MaxCalls,     \* tool calls of one answer
    MaxBlocks     \* content blocks of one Anthropic answer

ASSUME BoundsAssumption ==
    /\ Adapters \subseteq {"openai", "indexless", "anthropic", "google"}
    /\ MaxAttempts \in Nat \ {0}
    /\ MaxFragments \in Nat
    /\ MaxCalls \in Nat
    /\ MaxBlocks \in Nat

VARIABLES
    attempt, adapter, \* the candidate being tried and its dialect
    phase,            \* where streamResponses is
    sent,             \* attemptChain: a chunk of this attempt was emitted
    frags,            \* fragments produced so far
    saidText,         \* what this provider said: text fragments
    saidCalls,        \* and calls, each with its fragments of arguments
    first, toolIndex, calls, \* the decoder's own state
    pending,          \* pieces of the chunk consume is working on
    started, textIdx, text, tools, toolOrder, nextIdx, seq, output,
    events            \* what the client has received

provider == <<frags, saidText, saidCalls>>
decoder == <<first, toolIndex, calls>>
gateway == <<attempt, adapter, phase, sent>>
itemVars == <<textIdx, text, tools, toolOrder, nextIdx, output>>
vars == <<provider, decoder, gateway, itemVars, pending, started, seq, events>>

NoAdapter == "none"
NoItem == -1    \* textOpen is false
NoCall == -1    \* a content block that is not a tool_use
NoIndex == -1   \* a tool-call fragment without an index field
Nothing == 0    \* an absent id and name, or absent arguments

Begin == [kind |-> "begin", index |-> NoIndex, pos |-> 0,
          head |-> Nothing, frag |-> Nothing]
TextPiece(f) == [Begin EXCEPT !.kind = "text", !.frag = f]
ToolPiece(i, p, h, f) ==
    [kind |-> "tool", index |-> i, pos |-> p, head |-> h, frag |-> f]

Init ==
    /\ attempt = 1 /\ adapter = NoAdapter /\ phase = "dialling"
    /\ sent = FALSE
    /\ frags = 0 /\ saidText = <<>> /\ saidCalls = <<>>
    /\ first = TRUE /\ toolIndex = <<>> /\ calls = 0
    /\ pending = <<>>
    /\ started = FALSE /\ textIdx = NoItem /\ text = <<>>
    /\ tools = <<>> /\ toolOrder = <<>> /\ nextIdx = 0
    /\ seq = 0 /\ output = <<>> /\ events = <<>>

(***************************************************************************)
(* The provider speaks and its adapter decodes.  A decoder runs emit, and  *)
(* so consume, to its end before it reads on: pending is empty.            *)
(***************************************************************************)
\* Gateway.attempt: the next candidate's adapter builds and sends its request.
Dial ==
    /\ phase = "dialling"
    /\ phase' = "reading" /\ adapter' \in Adapters
    /\ UNCHANGED <<attempt, sent, provider, decoder, itemVars, pending, started,
                   seq, events>>

Reading == phase = "reading" /\ pending = <<>>

\* A delta of the OpenAI dialect: perhaps text, then fragments of calls.  A
\* fragment names its call, may bring id and name, may bring arguments.
Fragment == [call : 1..MaxCalls, head : BOOLEAN, args : BOOLEAN]
Pieces == {<<>>} \cup {<<a>> : a \in Fragment}
             \cup {<<a, b>> : a \in Fragment, b \in Fragment}

\* The number the arguments of the i-th fragment of a delta get.
Number(t, d, i) ==
    IF ~d[i].args THEN Nothing
    ELSE frags + t + Cardinality({j \in 1..i : d[j].args})

Opens(d) == {i \in DOMAIN d : d[i].call > Len(saidCalls)}

\* What a provider may send: calls are opened in order, the id and the name
\* of a call come once, and a fragment is not empty.
Sensible(d) ==
    /\ \A i \in DOMAIN d : d[i].args \/ d[i].head
    /\ \A i, j \in DOMAIN d : i < j => d[i].call < d[j].call
    /\ \A i \in DOMAIN d : d[i].head /\ i \notin Opens(d)
                              => ~saidCalls[d[i].call].head
    /\ \A i \in Opens(d) : d[i].call = Len(saidCalls)
                               + Cardinality({j \in Opens(d) : j <= i})

Say(t, d) ==
    /\ frags + t + Cardinality({i \in DOMAIN d : d[i].args}) =< MaxFragments
    /\ frags' = frags + t + Cardinality({i \in DOMAIN d : d[i].args})
    /\ saidText' = IF t = 0 THEN saidText ELSE Append(saidText, frags + 1)
    /\ saidCalls' =
         [k \in 1..(Len(saidCalls) + Cardinality(Opens(d))) |->
            LET old == IF k =< Len(saidCalls) THEN saidCalls[k]
                       ELSE [head |-> FALSE, args |-> <<>>]
                at  == {i \in DOMAIN d : d[i].call = k}
            IN  [head |-> old.head \/ \E i \in at : d[i].head,
                 args |-> IF \E i \in at : d[i].args
                          THEN Append(old.args,
                                      Number(t, d, CHOOSE i \in at : TRUE))
                          ELSE old.args]]

\* The id and name a fragment brings: those of its call.
Brings(f) == IF f.head THEN f.call ELSE Nothing

TextPieces(t) == IF t = 0 THEN <<>> ELSE <<TextPiece(frags + 1)>>

\* openai.go DecodeStream relays the chunk as it is; a provider of this
\* dialect that sends no index sends its calls whole, in one delta.
OpenAIChunk(t, d) ==
    /\ adapter \in {"openai", "indexless"}
    /\ Sensible(d)
    /\ adapter = "indexless" =>
         \A i \in DOMAIN d : i \in Opens(d) /\ d[i].head /\ d[i].args
    /\ adapter = "indexless" /\ d # <<>> => saidCalls = <<>>
    /\ Say(t, d)
    /\ pending' = <<Begin>> \o TextPieces(t) \o
         [i \in DOMAIN d |->
            ToolPiece(IF adapter = "openai" THEN d[i].call - 1 ELSE NoIndex,
                      i - 1, Brings(d[i]), Number(t, d, i))]
    /\ UNCHANGED decoder

\* google.go DecodeStream: calls come whole and are numbered by a running
\* count.
GoogleChunk(t, d) ==
    /\ adapter = "google"
    /\ Sensible(d)
    /\ \A i \in DOMAIN d : i \in Opens(d) /\ d[i].head /\ d[i].args
    /\ Say(t, d)
    /\ pending' = <<Begin>> \o TextPieces(t) \o
         [i \in DOMAIN d |->
            ToolPiece(calls + i - 1, i - 1, Brings(d[i]), Number(t, d, i))]
    /\ calls' = calls + Len(d)
    /\ first' = FALSE
    /\ UNCHANGED toolIndex

\* anthropic.go emitDelta: the role goes out in a chunk of its own.
EmitDelta(piece) ==
    /\ pending' = (IF first THEN <<Begin>> ELSE <<>>) \o <<Begin, piece>>
    /\ first' = FALSE

\* content_block_start of a text block: nothing is relayed.
TextBlock ==
    /\ adapter = "anthropic" /\ Len(toolIndex) < MaxBlocks
    /\ toolIndex' = Append(toolIndex, NoCall)
    /\ UNCHANGED <<provider, pending, first, calls>>

ToolCount == Cardinality({b \in DOMAIN toolIndex : toolIndex[b] # NoCall})

\* content_block_start of a tool_use block: toolIndex maps the block's index
\* to the call's.
ToolBlock ==
    /\ adapter = "anthropic" /\ Len(toolIndex) < MaxBlocks
    /\ Len(saidCalls) < MaxCalls
    /\ toolIndex' = Append(toolIndex, ToolCount)
    /\ saidCalls' = Append(saidCalls, [head |-> TRUE, args |-> <<>>])
    /\ EmitDelta(ToolPiece(ToolCount, 0, Len(saidCalls) + 1, Nothing))
    /\ UNCHANGED <<frags, saidText, calls>>

\* content_block_delta of the block that is open, text_delta or
\* input_json_delta.
BlockDelta ==
    /\ adapter = "anthropic" /\ toolIndex # <<>> /\ frags < MaxFragments
    /\ frags' = frags + 1
    /\ LET at == toolIndex[Len(toolIndex)] IN
       IF at = NoCall
       THEN /\ saidText' = Append(saidText, frags + 1)
            /\ EmitDelta(TextPiece(frags + 1))
            /\ UNCHANGED saidCalls
       ELSE /\ saidCalls' = [saidCalls EXCEPT
                               ![Len(saidCalls)].args = Append(@, frags + 1)]
            /\ EmitDelta(ToolPiece(at, 0, Nothing, frags + 1))
            /\ UNCHANGED saidText
    /\ UNCHANGED <<toolIndex, calls>>

\* message_delta: the finish reason, in a chunk that skips emitDelta.
MessageDelta ==
    /\ adapter = "anthropic"
    /\ pending' = <<Begin>>
    /\ UNCHANGED <<provider, decoder>>

Speak ==
    /\ Reading
    /\ \/ \E t \in {0, 1}, d \in Pieces : OpenAIChunk(t, d) \/ GoogleChunk(t, d)
       \/ TextBlock \/ ToolBlock \/ BlockDelta \/ MessageDelta
    /\ sent' = (sent \/ pending' # <<>>)
    /\ UNCHANGED <<attempt, adapter, phase, itemVars, started, seq, events>>

\* The stream is over: attemptChain returns and streamResponses finishes.
UpstreamEnds ==
    /\ Reading
    /\ phase' = "opening"
    /\ UNCHANGED <<attempt, adapter, sent, provider, decoder, itemVars, pending,
                   started, seq, events>>

\* Each attempt has a decoder of its own.
NewDecoder ==
    /\ saidText' = <<>> /\ saidCalls' = <<>>
    /\ first' = TRUE /\ toolIndex' = <<>> /\ calls' = 0

\* The call or its stream fails: a refusal, a timeout, a malformed chunk, an
\* error event, a caller that left.  Another candidate is tried only while
\* the client has seen nothing.
UpstreamFails ==
    /\ Reading
    /\ IF sent \/ attempt = MaxAttempts
       THEN /\ phase' = IF started THEN "failing" ELSE "refused"
            /\ UNCHANGED <<attempt, adapter, saidText, saidCalls, decoder>>
       ELSE /\ attempt' = attempt + 1 /\ adapter' = NoAdapter
            /\ phase' = "dialling"
            /\ NewDecoder
    /\ UNCHANGED <<sent, frags, itemVars, pending, started, seq, events>>

(***************************************************************************)
(* responsesStream.                                                        *)
(***************************************************************************)
Event(kind, at, data) == [kind |-> kind, at |-> at, data |-> data]

\* send: every event carries the running sequence number.
Send(es) ==
    /\ events' = events \o [i \in DOMAIN es |->
                              [kind |-> es[i].kind, at |-> es[i].at,
                               data |-> es[i].data, n |-> seq + i - 1]]
    /\ seq' = seq + Len(es)

\* Mutant of Opening: the opening pair is sent by every chunk.
OpeningAlways ==
    <<Event("created", NoItem, <<>>), Event("in_progress", NoItem, <<>>)>>

Opening ==
    IF started THEN <<>>
    ELSE <<Event("created", NoItem, <<>>), Event("in_progress", NoItem, <<>>)>>

\* begin, called for every chunk: the opening pair of events, once.
ConsumeBegin ==
    /\ phase = "reading" /\ pending # <<>> /\ Head(pending).kind = "begin"
    /\ pending' = Tail(pending)
    /\ started' = TRUE
    /\ Send(Opening)
    /\ UNCHANGED <<gateway, provider, decoder, itemVars>>

AppendText ==
    /\ phase = "reading" /\ pending # <<>> /\ Head(pending).kind = "text"
    /\ LET f  == Head(pending).frag
           at == IF textIdx = NoItem THEN nextIdx ELSE textIdx
       IN  /\ textIdx' = at
           /\ nextIdx' = IF textIdx = NoItem THEN nextIdx + 1 ELSE nextIdx
           /\ text' = Append(text, f)
           /\ Send((IF textIdx = NoItem
                    THEN <<Event("added_message", at, <<>>),
                           Event("part_added", at, <<>>)>>
                    ELSE <<>>) \o <<Event("text_delta", at, <<f>>)>>)
    /\ pending' = Tail(pending)
    /\ UNCHANGED <<gateway, provider, decoder, started, tools, toolOrder,
                   output>>

\* Mutant of CallOf: the index a provider gives is ignored.
CallByPlace(p) == p.pos

\* The call a fragment belongs to: by its index, or by its place in the
\* delta where the provider gives none.
CallOf(p) == IF p.index # NoIndex THEN p.index ELSE p.pos

\* Mutant of Extended: only the first fragment of a call can name it.
ExtendedArgs(call, p) ==
    [call EXCEPT !.args = IF p.frag # Nothing THEN Append(@, p.frag) ELSE @]

\* The call with what the fragment adds; an id and a name that come late
\* replace the ones made up for it.
Extended(call, p) ==
    [call EXCEPT !.head = IF p.head # Nothing THEN p.head ELSE @,
                 !.args = IF p.frag # Nothing THEN Append(@, p.frag) ELSE @]

AppendToolCall ==
    /\ phase = "reading" /\ pending # <<>> /\ Head(pending).kind = "tool"
    /\ LET p   == Head(pending)
           key == CallOf(p)
           new == key \notin DOMAIN tools
           call == IF new THEN [idx |-> nextIdx, head |-> p.head, args |-> <<>>]
                   ELSE tools[key]
       IN  /\ tools' = [k \in DOMAIN tools \cup {key} |->
                          IF k = key THEN Extended(call, p) ELSE tools[k]]
           /\ toolOrder' = IF new THEN Append(toolOrder, key) ELSE toolOrder
           /\ nextIdx' = IF new THEN nextIdx + 1 ELSE nextIdx
           /\ Send((IF new THEN <<Event("added_call", call.idx, <<p.head>>)>>
                    ELSE <<>>)
                   \o (IF p.frag # Nothing
                       THEN <<Event("args_delta", call.idx, <<p.frag>>)>>
                       ELSE <<>>))
    /\ pending' = Tail(pending)
    /\ UNCHANGED <<gateway, provider, decoder, started, textIdx, text, output>>

Message(data) == [type |-> "message", head |-> Nothing, data |-> data]
FunctionCall(head, data) ==
    [type |-> "function_call", head |-> head, data |-> data]

\* finish: a stream that produced nothing still opens; the text item is
\* closed first, then the calls in the order they were opened, then the
\* response.
FinishOpen ==
    /\ phase = "opening"
    /\ started' = TRUE
    /\ Send(Opening)
    /\ phase' = IF textIdx # NoItem THEN "closing_text" ELSE "closing_calls"
    /\ UNCHANGED <<attempt, adapter, sent, provider, decoder, itemVars, pending>>

CloseText ==
    /\ phase = "closing_text"
    /\ output' = Append(output, Message(text))
    /\ Send(<<Event("text_done", textIdx, text), Event("part_done", textIdx, text),
              Event("item_done", textIdx, <<Message(text)>>)>>)
    /\ phase' = "closing_calls"
    /\ UNCHANGED <<attempt, adapter, sent, provider, decoder, pending, started,
                   textIdx, text, tools, toolOrder, nextIdx>>

\* Calls already closed: what output holds besides the text.
Closed == Len(output) - (IF textIdx # NoItem THEN 1 ELSE 0)

CloseCall ==
    /\ phase = "closing_calls" /\ Closed < Len(toolOrder)
    /\ LET call == tools[toolOrder[Closed + 1]]
           item == FunctionCall(call.head, call.args)
       IN  /\ output' = Append(output, item)
           /\ Send(<<Event("args_done", call.idx, call.args),
                     Event("item_done", call.idx, <<item>>)>>)
    /\ UNCHANGED <<gateway, provider, decoder, pending, started, textIdx, text,
                   tools, toolOrder, nextIdx>>

Complete ==
    /\ phase = "closing_calls" /\ Closed = Len(toolOrder)
    /\ Send(<<Event("completed", NoItem, output)>>)
    /\ phase' = "completed"
    /\ UNCHANGED <<attempt, adapter, sent, provider, decoder, itemVars, pending,
                   started>>

\* fail: the status line is out, so the failure goes in band.
Fail ==
    /\ phase = "failing"
    /\ Send(<<Event("failed", NoItem, output)>>)
    /\ phase' = "failed"
    /\ UNCHANGED <<attempt, adapter, sent, provider, decoder, itemVars, pending,
                   started>>

Consume == ConsumeBegin \/ AppendText \/ AppendToolCall
Finish == FinishOpen \/ CloseText \/ CloseCall \/ Complete

Next == Dial \/ Speak \/ UpstreamEnds \/ UpstreamFails \/ Consume \/ Finish \/ Fail

Spec == Init /\ [][Next]_vars

\* streamResponses builds a responsesStream of its own for every request.
StartOver ==
    /\ attempt' = 1 /\ adapter' = NoAdapter /\ phase' = "dialling"
    /\ sent' = FALSE /\ frags' = 0 /\ NewDecoder
    /\ pending' = <<>>
    /\ started' = FALSE /\ textIdx' = NoItem /\ text' = <<>>
    /\ tools' = <<>> /\ toolOrder' = <<>> /\ nextIdx' = 0
    /\ seq' = 0 /\ output' = <<>> /\ events' = <<>>

(***************************************************************************)
(* What the translation promises.                                          *)
(***************************************************************************)
Deltas == {"text_delta", "args_delta"}
Terminal == {"completed", "failed"}
Adds == {"added_message", "added_call"}

At(kinds) == {i \in DOMAIN events : events[i].kind \in kinds}

\* What one event brings of an item: the fragment of a delta, or nothing.
DeltaOf(e, at) == IF e.kind \in Deltas /\ e.at = at THEN e.data ELSE <<>>

\* The client's own reassembly: the deltas of one item, put together.
Reassembled(at) == FlattenSeq([i \in DOMAIN events |-> DeltaOf(events[i], at)])

\* The items added by events of one kind, in the order of the events.
ItemOf(e, kind) == IF e.kind = kind THEN <<e.at>> ELSE <<>>
Items(kind) == FlattenSeq([i \in DOMAIN events |-> ItemOf(events[i], kind)])

\* The stream is framed as the Responses API frames it (begin, appendText,
\* appendToolCall, finish, fail, send): numbered without gaps, opened once and
\* first, every delta inside an item that was added and is not done, items
\* numbered in the order they are added, exactly one terminal event and
\* nothing after it, every item closed once by a completed response, and an
\* HTTP error only in place of a stream.
Framed ==
    /\ seq = Len(events) /\ \A i \in DOMAIN events : events[i].n = i - 1
    /\ At({"created"}) \subseteq {1} /\ At({"in_progress"}) \subseteq {2}
    /\ events # <<>> => At({"created", "in_progress"}) = {1, 2}
    /\ \A i \in At(Adds) :
          events[i].at = Cardinality({j \in At(Adds) : j < i})
    /\ \A i \in At(Deltas \cup {"text_done", "args_done", "item_done"}) :
          /\ \E j \in At(Adds) : j < i /\ events[j].at = events[i].at
          /\ \A j \in At({"item_done"}) : events[j].at = events[i].at => j >= i
    /\ \A i \in At(Terminal) : i = Len(events)
    /\ phase \in Terminal => At({phase}) = {Len(events)}
    /\ phase = "completed" =>
          \A i \in At(Adds) : \E j \in At({"item_done"}) :
             events[j].at = events[i].at
    /\ phase = "refused" => events = <<>>

\* Every item's deltas are what the one provider that answers said, whatever
\* the order, the grouping and the dialect its fragments came in: no fragment
\* is lost, repeated, moved to another call, or left over from a provider that
\* failed before it (consume, appendToolCall, the three DecodeStreams and the
\* rule of attemptChain that nothing is retried once something was sent).  The
\* calls are numbered 0, 1, 2, ... in the order the provider made them, though
\* Anthropic numbers all content blocks and Google none.
DeltasAreWhatWasSaid ==
    pending = <<>> =>
      LET messages == Items("added_message")
          callItems == Items("added_call")
      IN  /\ Len(messages) = IF saidText = <<>> THEN 0 ELSE 1
          /\ \A i \in DOMAIN messages : Reassembled(messages[i]) = saidText
          /\ Len(callItems) = Len(saidCalls)
          /\ \A i \in DOMAIN callItems :
                Reassembled(callItems[i]) = saidCalls[i].args
          /\ \A i \in DOMAIN toolOrder : toolOrder[i] = i - 1

EmptyObject == <<Nothing>>   \* "{}"

\* The answer, had the same provider given it whole: DecodeResponse, which
\* for the native dialects turns missing arguments into {}, followed by
\* responsesFromChat.
ResponsesFromChat ==
    (IF saidText = <<>> THEN <<>> ELSE <<Message(saidText)>>) \o
    [k \in DOMAIN saidCalls |->
       FunctionCall(IF saidCalls[k].head THEN k ELSE Nothing,
                    IF saidCalls[k].args = <<>> /\ adapter \in {"anthropic", "google"}
                    THEN EmptyObject ELSE saidCalls[k].args)]

\* What response.completed carries is what the same answer gives without
\* streaming, item for item, and each item is what its own deltas and its
\* done events said (finish against responsesFromChat).  Calls without
\* arguments are compared up to {}.
StreamedAsWhole ==
    phase = "completed" =>
      /\ Len(output) = Len(ResponsesFromChat)
      /\ \A i \in DOMAIN output :
            LET whole == ResponsesFromChat[i] IN
            \/ output[i] = whole
            \/ /\ whole.data = EmptyObject
               /\ output[i] = [whole EXCEPT !.data = <<>>]
      /\ \A i \in At({"text_done", "args_done"}) :
            events[i].data = Reassembled(events[i].at)
      /\ \A i \in At({"item_done"}) :
            /\ events[i].data[1].data = Reassembled(events[i].at)
            /\ \E k \in DOMAIN output : events[i].data[1] = output[k]
=============================================================================
