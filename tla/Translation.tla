---------------------------- MODULE Translation ----------------------------
(***************************************************************************)
(* How a Responses conversation becomes a request of each dialect: the     *)
(* items of input are flattened into chat messages (responsesMessages),    *)
(* and the native adapters split off the system prompt (SystemAndTurns)    *)
(* and join what is left into alternating turns of blocks.                 *)
(*                                                                         *)
(* A text is the sequence of the tokens it holds; a call's name is         *)
(* identified with its id.                                                 *)
(***************************************************************************)
EXTENDS Naturals, SequencesExt

NoId == 0   \* an absent call_id or tool_call_id

\* api/responses.go responsesItem.
Item(type, role, words, call) ==
    [type |-> type, role |-> role, text |-> words, call |-> call]

\* provider/types.go Message.
Msg(role, words, asks, answers) ==
    [role |-> role, text |-> words, calls |-> asks, answers |-> answers]

\* An item with a role and no type is the message shorthand.
Kind(it) == IF it.type = "" /\ it.role # "" THEN "message" ELSE it.type

\* An item whose call_id is missing: the whole request is refused.
Malformed(it) ==
    Kind(it) \in {"function_call", "function_call_output"} /\ it.call = NoId

\* The message of an item; reasoning and other kinds have none.
MessageFromItem(it) ==
    CASE Kind(it) = "message" ->
           <<Msg(IF it.role = "" THEN "user" ELSE it.role, it.text, <<>>, NoId)>>
      [] Kind(it) = "function_call" ->
           <<Msg("assistant", <<>>, <<it.call>>, NoId)>>
      [] Kind(it) = "function_call_output" ->
           <<Msg("tool", it.text, <<>>, it.call)>>
      [] OTHER -> <<>>

\* Mutant of AddItem: every item becomes a message of its own.
AddApart(out, it) == out \o MessageFromItem(it)

\* Calls join the assistant message just before them, whether it holds the
\* text of the same turn or the turn's other calls.
AddItem(out, it) ==
    LET new == MessageFromItem(it) IN
    IF /\ new # <<>> /\ out # <<>>
       /\ new[1].calls # <<>>
       /\ Last(out).role = "assistant" /\ Last(out).answers = NoId
    THEN [out EXCEPT ![Len(out)].calls = @ \o new[1].calls]
    ELSE out \o new

\* The instructions come first, as a system message.
Briefing(instructions) ==
    IF instructions = <<>> THEN <<>>
    ELSE <<Msg("system", instructions, <<>>, NoId)>>

\* The messages after the first n items, for every n.
ResponsesMessages(instructions, list) ==
    LET out[n \in 0..Len(list)] ==
          IF n = 0 THEN Briefing(instructions) ELSE AddItem(out[n - 1], list[n])
    IN  out[Len(list)]

\* chatRequestFrom: what is answered 400 instead of being routed.
Refused(instructions, list) ==
    \/ \E i \in DOMAIN list : Malformed(list[i])
    \/ ResponsesMessages(instructions, list) = <<>>

IsSystem(m) == m.role \in {"system", "developer"}

\* Mutant of Mergeable: turns of one role are merged whatever they carry.
MergeableByRole(a, b) == a.role = b.role

\* Only plain turns of one role are merged: a call or a result stays whole.
Mergeable(a, b) ==
    /\ a.role = b.role
    /\ a.calls = <<>> /\ b.calls = <<>>
    /\ a.answers = NoId /\ b.answers = NoId

MergeTurn(turns, m) ==
    IF turns # <<>> /\ Mergeable(Last(turns), m)
    THEN [turns EXCEPT ![Len(turns)].text = @ \o m.text]
    ELSE Append(turns, m)

SystemText(m) == IF IsSystem(m) THEN m.text ELSE <<>>
AddTurn(turns, m) == IF IsSystem(m) THEN turns ELSE MergeTurn(turns, m)

SystemAndTurns(msgs) ==
    LET turns[n \in 0..Len(msgs)] ==
          IF n = 0 THEN <<>> ELSE AddTurn(turns[n - 1], msgs[n])
    IN  [system |-> FlattenSeq([i \in DOMAIN msgs |-> SystemText(msgs[i])]),
         turns |-> turns[Len(msgs)]]

Block(type, words, id) == [type |-> type, text |-> words, id |-> id]

\* The blocks of an assistant or user turn: its text, unless it only calls,
\* then its calls.
TurnBlocks(m, asks) ==
    (IF m.text # <<>> \/ m.calls = <<>> THEN <<Block("text", m.text, NoId)>>
     ELSE <<>>)
    \o (IF asks THEN [i \in DOMAIN m.calls |-> Block("call", <<>>, m.calls[i])]
        ELSE <<>>)

AnthropicBlocks(m) ==
    IF m.role = "tool"
    THEN [role |-> "user", blocks |-> <<Block("result", m.text, m.answers)>>]
    ELSE LET role == IF m.role = "assistant" THEN "assistant" ELSE "user"
         IN  [role |-> role, blocks |-> TurnBlocks(m, role = "assistant")]

\* A functionResponse names its function, recovered from the call it
\* answers: callNames.
GoogleParts(m, names) ==
    IF m.role = "tool"
    THEN [role |-> "user",
          blocks |-> <<Block("result", m.text,
                             IF m.answers \in names THEN m.answers ELSE NoId)>>]
    ELSE LET role == IF m.role = "assistant" THEN "model" ELSE "user"
         IN  [role |-> role, blocks |-> TurnBlocks(m, role = "model")]

\* Turns SystemAndTurns left apart join one message where the role is one.
JoinRole(out, m) ==
    IF out # <<>> /\ Last(out).role = m.role
    THEN [out EXCEPT ![Len(out)].blocks = @ \o m.blocks]
    ELSE Append(out, m)

JoinRoles(list) ==
    LET out[n \in 0..Len(list)] ==
          IF n = 0 THEN <<>> ELSE JoinRole(out[n - 1], list[n])
    IN  out[Len(list)]

Continue == [role |-> "user", blocks |-> <<Block("text", <<0>>, NoId)>>]

\* anthropic.go BuildRequest: the conversation opens with a user turn.
AnthropicMessages(turns) ==
    LET out == JoinRoles([i \in DOMAIN turns |-> AnthropicBlocks(turns[i])])
    IN  IF out # <<>> /\ out[1].role # "user" THEN <<Continue>> \o out ELSE out

\* google.go BuildRequest.
GoogleContents(turns) ==
    LET names == UNION {ToSet(turns[i].calls) : i \in DOMAIN turns}
    IN  JoinRoles([i \in DOMAIN turns |-> GoogleParts(turns[i], names)])
=============================================================================
