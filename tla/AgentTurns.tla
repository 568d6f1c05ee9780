----------------------------- MODULE AgentTurns -----------------------------
(***************************************************************************)
(* A client of /v1/responses over several turns.  The gateway stores       *)
(* nothing, so the client sends the whole conversation each time: what it  *)
(* said, the output of the earlier responses in the order they carried it, *)
(* and the results of the calls they asked for.  The stream of a turn is   *)
(* that of ResponsesStream, the requests it makes are those of Translation.*)
(***************************************************************************)
EXTENDS ResponsesStream, Translation

CONSTANTS
    MaxItems,  \* items at which the client adds none of its own and asks no more
    MaxOwn,    \* items of its own the client adds before a turn
    MaxTurns   \* turns asked; after the last, own items are bounded by MaxItems

VARIABLES
    conversation, \* the items of input
    asking,       \* a request is being answered
    own,          \* items of its own added since the last turn
    turns         \* turns asked so far

client == <<conversation, asking, own, turns>>
allVars == <<vars, client>>

Calls == {i \in DOMAIN conversation : conversation[i].type = "function_call"}
Results == {i \in DOMAIN conversation :
              conversation[i].type = "function_call_output"}
Outstanding ==
    {conversation[i].call : i \in Calls} \ {conversation[i].call : i \in Results}

AgentInit ==
    /\ Init
    /\ conversation = <<Item("", "user", <<1>>, NoId)>>
    /\ asking = FALSE /\ own = MaxOwn /\ turns = 0

\* The client adds an item of its own; the token of its text is its place.
Add(type, role, id) ==
    conversation' =
      Append(conversation, Item(type, role, <<Len(conversation) + 1>>, id))

\* Messages, in the long form or the shorthand, and items the gateway cannot
\* represent, between turns; in the end perhaps a result without call_id.
Says ==
    /\ ~asking /\ Outstanding = {} /\ Len(conversation) < MaxItems
    /\ own < MaxOwn \/ turns = MaxTurns
    /\ own' = IF own < MaxOwn THEN own + 1 ELSE own
    /\ \/ \E role \in {"user", "developer", "assistant"} :
             Add(IF role = "user" THEN "" ELSE "message", role, NoId)
       \/ Add("reasoning", "", NoId)
       \/ turns = MaxTurns /\ Add("function_call_output", "", NoId)
    /\ UNCHANGED <<vars, asking, turns>>

\* The results of a turn's calls, in any order.
ToolReturns(id) ==
    /\ ~asking /\ id \in Outstanding
    /\ Add("function_call_output", "", id)
    /\ UNCHANGED <<vars, asking, own, turns>>

\* handleResponses: a conversation that translates is routed.
HandleResponses ==
    /\ ~asking /\ Outstanding = {} /\ turns < MaxTurns
    /\ Len(conversation) < MaxItems
    /\ ~Refused(<<>>, conversation)
    /\ asking' = TRUE /\ own' = 0 /\ turns' = turns + 1
    /\ UNCHANGED <<vars, conversation>>

\* The items a client keeps of a response's output; a call's id is its place.
Kept(out) ==
    [i \in DOMAIN out |->
       IF out[i].type = "message"
       THEN Item("message", "assistant", <<Len(conversation) + i>>, NoId)
       ELSE Item("function_call", "", <<>>, Len(conversation) + i)]

\* The response is over.  A completed one joins the conversation, a failed
\* one is dropped; the next turn starts a stream of its own.
TurnEnds ==
    /\ asking /\ phase \in {"completed", "failed", "refused"}
    /\ conversation' = IF phase = "completed" THEN conversation \o Kept(output)
                       ELSE conversation
    /\ asking' = FALSE
    /\ StartOver
    /\ UNCHANGED <<own, turns>>

Stream == asking /\ Next /\ UNCHANGED client

AgentNext ==
    \/ Says \/ HandleResponses \/ Stream \/ TurnEnds
    \/ \E id \in Outstanding : ToolReturns(id)

AgentSpec == AgentInit /\ [][AgentNext]_allVars

(***************************************************************************)
(* The request each dialect gets, between turns.                           *)
(***************************************************************************)
Ready == ~asking /\ Outstanding = {} /\ ~Refused(<<>>, conversation)

\* The instructions field, which a client sends or not with each request.
Instructions == {<<>>, <<0>>}

Chat(ins) == ResponsesMessages(ins, conversation)
Turns(ins) == SystemAndTurns(Chat(ins)).turns

Ids(blocks, type) ==
    {blocks[j].id : j \in {i \in DOMAIN blocks : blocks[i].type = type}}

\* Rules of both native dialects: roles alternate, and a turn that calls is
\* followed by a user turn that opens with the results of all its calls.
WellFormed(msgs) ==
    /\ \A i \in 1..(Len(msgs) - 1) : msgs[i].role # msgs[i + 1].role
    /\ \A i \in DOMAIN msgs :
         LET asked == Ids(msgs[i].blocks, "call") IN
         asked # {} =>
           /\ i < Len(msgs) /\ msgs[i + 1].role = "user"
           /\ Len(msgs[i + 1].blocks) >= Cardinality(asked)
           /\ Ids(SubSeq(msgs[i + 1].blocks, 1, Cardinality(asked)), "result")
                = asked

\* What the client replays is a request every dialect accepts, whatever the
\* earlier answers were, in whatever order their fragments and the results of
\* their calls came: a chat message that calls is followed directly by its
\* results (the comment in responsesMessages), the native requests alternate
\* and answer each turn's calls at the start of the next one, and Anthropic's
\* opens with the user (BuildRequest of both adapters).
DialectRulesKept ==
    Ready =>
      \A ins \in Instructions :
        LET chat == Chat(ins)
            rest == Turns(ins)
        IN
        /\ \A i \in DOMAIN chat :
             LET n == Len(chat[i].calls) IN
             n > 0 => /\ i + n =< Len(chat)
                      /\ {chat[j].answers : j \in (i + 1)..(i + n)}
                           = ToSet(chat[i].calls)
        /\ WellFormed(AnthropicMessages(rest))
        /\ rest # <<>> => AnthropicMessages(rest)[1].role = "user"
        /\ WellFormed(GoogleContents(rest))

\* What an item of the conversation is to bring the provider: words for the
\* system prompt, words of the turns, and the id of a call or of a result.
OfItem(it, what) ==
    CASE what = "system" -> IF it.role = "developer" THEN it.text ELSE <<>>
      [] what = "words" -> IF it.type = "reasoning" \/ it.role = "developer"
                           THEN <<>> ELSE it.text
      [] what = "ids" -> IF it.call = NoId THEN <<>> ELSE <<it.call>>

Carried(what) ==
    FlattenSeq([i \in DOMAIN conversation |-> OfItem(conversation[i], what)])

\* And what a native request holds, block by block.
OfBlock(b, what) ==
    CASE what = "words" -> b.text
      [] what = "ids" -> IF b.id = NoId THEN <<>> ELSE <<b.id>>

Blocks(msgs) == FlattenSeq([i \in DOMAIN msgs |-> msgs[i].blocks])

OfBlocks(blocks, what) ==
    FlattenSeq([i \in DOMAIN blocks |-> OfBlock(blocks[i], what)])

\* Every word, every call and every result of the conversation reaches each
\* native provider once and in order, with nothing added but the user turn
\* Anthropic's conversation may have to open with; developer text goes to the
\* system prompt (responsesMessages, SystemAndTurns, anthropicBlocks,
\* googleParts).  Reasoning items, which stand for every kind of item that the
\* gateway does not know, go nowhere: messageFromItem drops them by design.  A
\* call or a result that does not say its id is refused.
NothingLost ==
  /\ (\E i \in Results : conversation[i].call = NoId)
        => Refused(<<>>, conversation)
  /\ Ready =>
      \A ins \in Instructions :
        LET anthropic == Blocks(AnthropicMessages(Turns(ins)))
            google == Blocks(GoogleContents(Turns(ins)))
        IN  /\ SystemAndTurns(Chat(ins)).system = ins \o Carried("system")
            /\ OfBlocks(anthropic, "words")
                 \in {Carried("words"), <<0>> \o Carried("words")}
            /\ OfBlocks(google, "words") = Carried("words")
            /\ OfBlocks(anthropic, "ids") = Carried("ids")
            /\ OfBlocks(google, "ids") = Carried("ids")
=============================================================================
