----------------------------- MODULE IotBridge -----------------------------
(***************************************************************************)
(* The IoT bridge: the MQTT session and its subscriptions, the handler of  *)
(* inbound messages, inference on the edge box or through the gateway, the *)
(* answers, the devices and telemetry tables, and the HTTP twins of both   *)
(* topics running beside them.                                             *)
(*                                                                         *)
(* The MQTT client and the broker are external, modelled from how the      *)
(* bridge uses them: callbacks run one at a time in the order of arrival,  *)
(* a session that is lost takes the undelivered messages and the           *)
(* subscriptions with it, the client reconnects by itself and calls the    *)
(* connect handler each time, and a device that sees no acknowledgement    *)
(* sends its message again.                                                *)
(***************************************************************************)
EXTENDS Naturals, Sequences, FiniteSets

CONSTANTS
    Devices,
    Nameless,     \* the empty device id
    Callers,      \* HTTP requests under way, each with a client key of its own
    IotKey,       \* IOT_API_KEY's client key
    NoKey,        \* an IOT_API_KEY that is unset or not valid
    MaxMessages,  \* bound: messages and HTTP requests of a behaviour
    MaxLosses,    \* bound: lost sessions
    MaxRepeats    \* bound: messages sent again

ASSUME BridgeAssumption ==
    /\ Nameless \notin Devices
    /\ IotKey \notin Callers /\ NoKey \notin Callers \cup {IotKey}
    /\ "callback" \notin Callers
    /\ MaxMessages \in Nat /\ MaxLosses \in Nat /\ MaxRepeats \in Nat

VARIABLES
    edge,       \* IOT_EDGE_ENDPOINT is set
    apiKey,     \* Config.APIKey: IotKey or NoKey
    link,       \* the session is up
    topics,     \* the topics the connect handler has yet to subscribe to
    subs,       \* the topics subscribed to
    inbox,      \* messages for the bridge, in order of arrival
    task,       \* what the callback and each HTTP request is at
    devices, readings,  \* the two tables
    answers,    \* what was published on response topics
    bills,      \* whom the gateway billed for which request
    cutOff,     \* requests during whose handling the session went down
    sent, losses, repeats

session == <<link, topics, subs>>
tables == <<devices, readings>>
results == <<answers, bills, cutOff>>
bounds == <<sent, losses, repeats>>
bridgeVars == <<edge, apiKey, session, inbox, task, tables, results, bounds>>

Callback == "callback"
Workers == {Callback} \cup Callers
Kinds == {"telemetry", "inference"}
Idle == [pc |-> "idle", id |-> 0]

\* What a topic may have for a device, and a payload for its device_id: the
\* subscription's + matches an empty level too.
Ids == Devices \cup {Nameless}

\* A message: the device its topic names, the device its payload claims, and
\* whether the payload is garbled, without a prompt, or in order.  A garbled one
\* claims nothing.
Message(kind) ==
    {m \in [id : {sent + 1}, kind : {kind}, device : Ids, claims : Ids,
            payload : {"garbled", "sound", "blank"}] :
        /\ m.payload = "garbled" => m.claims = Nameless
        /\ m.payload = "blank" => kind = "inference"}

\* startBridge: Connect dials the broker; one that does not answer is left.
BridgeInit ==
    /\ edge \in BOOLEAN /\ apiKey \in {IotKey, NoKey}
    /\ link \in BOOLEAN
    /\ topics = IF link THEN <<"telemetry", "inference">> ELSE <<>>
    /\ subs = {} /\ inbox = <<>>
    /\ task = [w \in Workers |-> Idle]
    /\ devices = {} /\ readings = {} /\ answers = {} /\ bills = {}
    /\ cutOff = {}
    /\ sent = 0 /\ losses = 0 /\ repeats = 0

Goto(w, pc) == task' = [task EXCEPT ![w].pc = pc]
Return(w) == task' = [task EXCEPT ![w] = Idle]

(***************************************************************************)
(* The session.                                                            *)
(***************************************************************************)
\* The connect handler subscribes to one topic after the other and gives up,
\* with a line in the log, at the first that fails.
Subscribe ==
    /\ topics # <<>>
    /\ \/ /\ link
          /\ subs' = subs \cup {Head(topics)}
          /\ topics' = Tail(topics)
       \/ topics' = <<>> /\ UNCHANGED subs
    /\ UNCHANGED <<edge, apiKey, link, inbox, task, tables, results, bounds>>

\* The message the callback is at.
Handling == IF task[Callback].pc = "idle" THEN {} ELSE {task[Callback].id}

SessionLost ==
    /\ link /\ losses < MaxLosses
    /\ link' = FALSE /\ subs' = {} /\ inbox' = <<>>
    /\ cutOff' = cutOff \cup Handling
    /\ losses' = losses + 1
    /\ UNCHANGED <<edge, apiKey, topics, task, tables, answers, bills, sent, repeats>>

Reconnect ==
    /\ ~link /\ topics = <<>>
    /\ link' = TRUE
    /\ topics' = <<"telemetry", "inference">>
    /\ UNCHANGED <<edge, apiKey, subs, inbox, task, tables, results, bounds>>

(***************************************************************************)
(* Devices publish; the broker forwards what is subscribed to.             *)
(***************************************************************************)
Publish ==
    /\ sent < MaxMessages
    /\ sent' = sent + 1
    /\ \E kind \in Kinds : \E m \in Message(kind) :
         inbox' = IF kind \in subs THEN Append(inbox, m) ELSE inbox
    /\ UNCHANGED <<edge, apiKey, session, task, tables, results, losses, repeats>>

PublishAgain ==
    /\ repeats < MaxRepeats /\ inbox # <<>>
    /\ repeats' = repeats + 1
    /\ inbox' = Append(inbox, Head(inbox))
    /\ UNCHANGED <<edge, apiKey, session, task, tables, results, sent, losses>>

(***************************************************************************)
(* HandleMQTTMessage, in the callback, and the HTTP handlers.              *)
(***************************************************************************)
\* Mutant of DeviceOf: the payload is believed.
DeviceClaimed(m) == m.claims

\* The topic is authoritative where it names a device; where it names none, the
\* payload is believed.
DeviceOf(m) == IF m.device # Nameless THEN m.device ELSE m.claims

\* What a worker carries: the request, whose it is by topic or by name, the
\* device it is taken for, and the key it came with.
Work(m, device, key) ==
    [pc |-> IF m.kind = "telemetry" THEN "ingest" ELSE "infer", id |-> m.id,
     origin |-> m.device, device |-> device, key |-> key, prompt |-> m.payload = "sound",
     source |-> "none"]

\* A payload that does not parse is dropped with a line in the log.
Deliver ==
    /\ task[Callback].pc = "idle" /\ inbox # <<>>
    /\ LET m == Head(inbox) IN
       task' = [task EXCEPT ![Callback] =
                 IF m.payload # "garbled" THEN Work(m, DeviceOf(m), apiKey) ELSE Idle]
    /\ inbox' = Tail(inbox)
    /\ UNCHANGED <<edge, apiKey, session, tables, results, bounds>>

\* handleTelemetry and handleIoTInference: the caller's key is valid, and the
\* device names itself, as it must for telemetry.
HandleHTTP(w) ==
    /\ w \in Callers /\ task[w].pc = "idle" /\ sent < MaxMessages
    /\ \E kind \in Kinds : \E m \in Message(kind) :
         /\ m.payload # "garbled" /\ m.claims = m.device
         /\ kind = "telemetry" => m.device # Nameless
         /\ task' = [task EXCEPT ![w] = Work(m, m.claims, w)]
    /\ sent' = sent + 1
    /\ UNCHANGED <<edge, apiKey, session, inbox, tables, results, losses, repeats>>

\* SaveTelemetry: a reading of no device is refused; otherwise the device and its
\* reading are stored in one transaction.
IngestTelemetry(w) ==
    /\ task[w].pc = "ingest"
    /\ \/ /\ task[w].device # Nameless
          /\ devices' = devices \cup {task[w].device}
          /\ readings' = readings \cup {[id |-> task[w].id, of |-> task[w].device,
                                         origin |-> task[w].origin]}
       \/ UNCHANGED tables
    /\ Return(w)
    /\ UNCHANGED <<edge, apiKey, session, inbox, results, bounds>>

\* InferAs: an empty prompt is an error; the device is touched if it can be.
Infer(w) ==
    /\ task[w].pc = "infer"
    /\ \/ /\ ~task[w].prompt
          /\ Goto(w, "answer")
          /\ UNCHANGED devices
       \/ /\ task[w].prompt
          /\ devices' \in {devices, devices \cup ({task[w].device} \ {Nameless})}
          /\ Goto(w, IF edge THEN "edge" ELSE "cloud")
    /\ UNCHANGED <<edge, apiKey, session, inbox, readings, results, bounds>>

\* The edge is best effort.
EdgeInference(w) ==
    /\ task[w].pc = "edge"
    /\ \/ task' = [task EXCEPT ![w].pc = "answer", ![w].source = "edge"]
       \/ Goto(w, "cloud")
    /\ UNCHANGED <<edge, apiKey, session, inbox, tables, results, bounds>>

\* InferAs: a request without a key is the bridge's own.
BilledTo(w) == IF task[w].key = NoKey THEN apiKey ELSE task[w].key

\* Gateway.Complete.
Complete(w) ==
    /\ task[w].pc = "cloud"
    /\ bills' = bills \cup {[to |-> BilledTo(w), by |-> w]}
    /\ \/ task' = [task EXCEPT ![w].pc = "answer", ![w].source = "cloud"]
       \/ Goto(w, "answer")
    /\ UNCHANGED <<edge, apiKey, session, inbox, tables, answers, cutOff, bounds>>

\* Mutant of Told: an error is returned, not published.
ToldIfServed(w) == link /\ task[w].source # "none"

\* An answer or an error is published whenever the session is up.
Told(w) == link

\* publishResponse.
PublishResponse ==
    /\ task[Callback].pc = "answer"
    /\ answers' = IF ~Told(Callback) THEN answers
                  ELSE answers \cup {[id |-> task[Callback].id,
                                      to |-> task[Callback].device,
                                      origin |-> task[Callback].origin]}
    /\ Return(Callback)
    /\ UNCHANGED <<edge, apiKey, session, inbox, tables, bills, cutOff, bounds>>

\* writeJSON or writeError.
RespondHTTP(w) ==
    /\ w \in Callers /\ task[w].pc = "answer"
    /\ Return(w)
    /\ UNCHANGED <<edge, apiKey, session, inbox, tables, results, bounds>>

BridgeNext ==
    \/ Subscribe \/ SessionLost \/ Reconnect \/ Publish \/ PublishAgain \/ Deliver
    \/ PublishResponse
    \/ \E w \in Workers :
         \/ HandleHTTP(w) \/ IngestTelemetry(w) \/ Infer(w) \/ EdgeInference(w)
         \/ Complete(w) \/ RespondHTTP(w)

\* The callback goes on: every call it makes has a deadline of its own or the
\* two minutes of its context.  Nothing is assumed of the session, the devices
\* or the HTTP callers.
Fairness ==
    WF_bridgeVars(\/ IngestTelemetry(Callback) \/ Infer(Callback)
                  \/ EdgeInference(Callback) \/ Complete(Callback)
                  \/ PublishResponse)

BridgeSpec == BridgeInit /\ [][BridgeNext]_bridgeVars /\ Fairness

(***************************************************************************)
(* What the code promises.                                                 *)
(***************************************************************************)
\* Who a message's traffic goes to: the device its topic names, if it names one.
Owned(origin, device) == origin # Nameless => device = origin

\* A device that its topic names has its traffic to itself, whatever payloads
\* claim: its answers go to it, and its readings are stored under it, which is
\* then a known device; and the gateway bills a caller's own key, and the bridge's
\* for what came by MQTT (HandleMQTTMessage, SaveTelemetry, InferAs).  A topic
\* with an empty device level names none, and what comes by it goes to whatever
\* device the payload claims ("The topic is authoritative: a device cannot claim
\* to be another" does not hold of it); but no device is ever known by an empty
\* id, for SaveTelemetry and TouchDevice each refuse one.
EachItsOwn ==
    /\ \A a \in answers : Owned(a.origin, a.to)
    /\ \A t \in readings : Owned(t.origin, t.of) /\ t.of \in devices
    /\ Nameless \notin devices
    /\ \A b \in bills : b.to = IF b.by = Callback THEN apiKey ELSE b.by

\* "Devices get told the request failed rather than waiting forever": once the
\* callback has an inference request, its answer or its error is published,
\* unless the session went down meanwhile.
NotLeftWaiting ==
    \A i \in 1..MaxMessages :
        task[Callback].pc = "infer" /\ task[Callback].id = i
            ~> i \in cutOff \/ \E a \in answers : a.id = i
=============================================================================
