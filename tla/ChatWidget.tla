----------------------------- MODULE ChatWidget -----------------------------
(***************************************************************************)
(* The widget in the visitor's page (chat-widget/src: chat.js, websocket.js *)
(* and the messages ui.js acts on) and the server's end of its sockets     *)
(* (api/routes/websocket.py), of ONE chat session on one worker: what the  *)
(* frames between them do to isStreaming, handoffActive and the input.     *)
(*                                                                         *)
(* A socket delivers in order until it breaks; the widget and the server   *)
(* notice that on their own, and the turn of a message runs on.  Frames of *)
(* text, pings and the page context are left out: no state is kept of them.*)
(*                                                                         *)
(* The page has the session's id in its storage from the start: it is not  *)
(* the first one of the visit.                                             *)
(*                                                                         *)
(* `cut`, `reloaded`, `missed`, `unawares` and `mute` are history.         *)
(***************************************************************************)
EXTENDS Naturals, Sequences

CONSTANTS
  MaxConns,      \* bound: sockets the widget opens
  MaxMessages,   \* bound: messages the visitor sends
  MaxAgentActs,  \* bound: what the human agent does
  MaxAttempts,   \* maxReconnectAttempts
  Faults         \* which failures this instance has, a subset of FaultKinds

FaultKinds == {"break", "reload", "error", "cutoff"}

ASSUME ChatWidgetAssumption ==
  /\ MaxConns \in Nat \ {0}
  /\ MaxMessages \in Nat /\ MaxAgentActs \in Nat /\ MaxAttempts \in Nat
  /\ Faults \subseteq FaultKinds

Conns == 1..MaxConns

\* stream_end comes in two kinds: "ask_human" has requires_human.
ServerFrames == {"session_info", "stream_start", "stream_end", "ask_human",
                 "agent_joined", "agent_message", "agent_left", "error"}
ClientFrames == {"user_message", "confirm_handoff"}

VARIABLES
  widget,      \* the page's state
  link,        \* the state of its socket: websocket.js
  attempts,    \* reconnectAttempts
  conns,       \* how many sockets were opened; the last one is the widget's
  broken,      \* the sockets whose network is gone
  up, down,    \* socket -> frames on their way to the server, to the widget
  handler,     \* socket -> the task that serves it
  registered,  \* the socket in active_connections, 0 if none
  session,     \* handoff_active and agent_joined_sent
  sent,        \* messages sent
  agentActs,   \* what the human agent did
  cut,         \* a socket broke while an answer was awaited
  reloaded,    \* the page was left while an answer was awaited
  missed,      \* an agent_left was lost with its socket
  unawares,    \* a message was relayed that the widget awaits an answer to
  mute         \* a turn was over without a last frame

vars == <<widget, link, attempts, conns, broken, up, down, handler, registered,
          session, sent, agentActs, cut, reloaded, missed, unawares, mute>>
history  == <<cut, reloaded, missed, unawares, mute>>
visitor  == <<widget, link, attempts, conns, sent>>
server   == <<handler, registered, session>>

NewPage == [streaming |-> FALSE, handoff |-> FALSE, input |-> TRUE, suggested |-> FALSE]

TypeOK ==
  /\ widget \in [streaming : BOOLEAN, handoff : BOOLEAN,
                 input : BOOLEAN, suggested : BOOLEAN]
  /\ link \in {"connecting", "open", "waiting", "failed"}
  /\ attempts \in 0..MaxAttempts
  /\ conns \in 0..MaxConns
  /\ broken \subseteq Conns
  /\ up \in [Conns -> Seq(ClientFrames)]
  /\ down \in [Conns -> Seq(ServerFrames)]
  /\ handler \in [Conns -> {"none", "idle", "turn", "over"}]
  /\ registered \in 0..MaxConns
  /\ session \in [handoff : BOOLEAN, joined : BOOLEAN]
  /\ sent \in 0..MaxMessages
  /\ agentActs \in 0..MaxAgentActs
  /\ cut \in BOOLEAN /\ reloaded \in BOOLEAN /\ missed \in BOOLEAN
  /\ unawares \in BOOLEAN /\ mute \in BOOLEAN

Init ==
  /\ widget = NewPage
  /\ link = "connecting"
  /\ attempts = 0
  /\ conns = 0
  /\ broken = {}
  /\ up = [c \in Conns |-> <<>>]
  /\ down = [c \in Conns |-> <<>>]
  /\ handler = [c \in Conns |-> "none"]
  /\ registered = 0
  /\ session = [handoff |-> FALSE, joined |-> FALSE]
  /\ sent = 0
  /\ agentActs = 0
  /\ cut = FALSE /\ reloaded = FALSE /\ missed = FALSE
  /\ unawares = FALSE /\ mute = FALSE

-----------------------------------------------------------------------------
Open == link = "open" /\ conns \notin broken

\* send_json: to the registered socket, whichever task sends; a frame for a
\* broken or missing one is dropped.
Send(frames) ==
  IF registered = 0 \/ registered \in broken THEN down
  ELSE [down EXCEPT ![registered] = @ \o frames]

\* The visitor awaits an answer, or one is being made.
Awaiting == widget.streaming \/ \E c \in Conns : handler[c] = "turn" \/ up[c] # <<>>

\* The handshake: connect() registers the socket and greets it.
Accept ==
  LET c == conns + 1
  IN /\ link = "connecting"
     /\ conns < MaxConns
     /\ conns' = c
     /\ link' = "open"
     /\ attempts' = 0
     /\ handler' = [handler EXCEPT ![c] = "idle"]
     /\ registered' = c
     /\ down' = [down EXCEPT ![c] = <<"session_info">>]
     /\ UNCHANGED <<widget, sent, broken, up, session, agentActs, history>>

\* Slip: one attempt too many.
ClosedOnceMore == link' = IF attempts <= MaxAttempts THEN "waiting" ELSE "failed"

\* ws.onclose: try again, or give up after maxReconnectAttempts.
Closed == link' = IF attempts < MaxAttempts THEN "waiting" ELSE "failed"

ConnectFails ==
  /\ "break" \in Faults
  /\ link = "connecting"
  /\ Closed
  /\ UNCHANGED <<widget, attempts, conns, sent, broken, up, down, server,
                 agentActs, history>>

\* The timer of the reconnect delay.
Retry ==
  /\ link = "waiting"
  /\ attempts' = attempts + 1
  /\ link' = "connecting"
  /\ UNCHANGED <<widget, conns, sent, broken, up, down, server, agentActs, history>>

\* The network goes away under the socket, with the frames it carried down.
Break ==
  /\ "break" \in Faults
  /\ Open
  /\ broken' = broken \cup {conns}
  /\ down' = [down EXCEPT ![conns] = <<>>]
  /\ \E n \in 0..Len(up[conns]) :
       up' = [up EXCEPT ![conns] = SubSeq(@, 1, n)]
  /\ cut' = (cut \/ Awaiting)
  /\ missed' = (missed \/ \E i \in DOMAIN down[conns] : down[conns][i] = "agent_left")
  /\ UNCHANGED <<visitor, server, agentActs, reloaded, unawares, mute>>

WidgetNotices ==
  /\ link = "open"
  /\ conns \in broken
  /\ Closed
  /\ UNCHANGED <<widget, attempts, conns, sent, broken, up, down, server,
                 agentActs, history>>

\* The page is loaded again (or another page of the site): a new widget with
\* the stored session id.
Reload ==
  /\ "reload" \in Faults
  /\ link \in {"open", "failed"}
  /\ widget' = NewPage
  /\ link' = "connecting"
  /\ attempts' = 0
  /\ broken' = broken \cup ({conns} \cap Conns)
  /\ down' = [c \in Conns |-> <<>>]
  /\ reloaded' = (reloaded \/ Awaiting)
  /\ UNCHANGED <<conns, sent, up, server, agentActs, cut, missed, unawares, mute>>

\* The receive loop of a dead socket ends: websocket_chat_endpoint.
ServerNotices(c) ==
  /\ handler[c] = "idle"
  /\ c \in broken
  /\ up[c] = <<>>
  /\ handler' = [handler EXCEPT ![c] = "over"]
  /\ registered' = IF registered = c THEN 0 ELSE registered
  /\ UNCHANGED <<visitor, broken, up, down, session, agentActs, history>>

-----------------------------------------------------------------------------
\* A frame into the socket; a broken one swallows it.
Sends(frame) == up' = IF ~Open THEN up
                      ELSE [up EXCEPT ![conns] = Append(@, frame)]

(* sendMessage: refused while an answer is streaming; outside a handoff    *)
(* the input waits for the answer.                                         *)
UserSends ==
  /\ link = "open"
  /\ widget.input /\ ~widget.streaming
  /\ sent < MaxMessages
  /\ sent' = sent + 1
  /\ Sends("user_message")
  /\ widget' = IF widget.handoff THEN widget
               ELSE [widget EXCEPT !.streaming = TRUE, !.input = FALSE]
  /\ cut' = (cut \/ conns \in broken)
  /\ UNCHANGED <<link, attempts, conns, broken, down, server, agentActs,
                 reloaded, missed, unawares, mute>>

\* The button of handoff_suggested, which goes away even if nothing was sent.
UserConfirms ==
  /\ widget.suggested
  /\ Sends("confirm_handoff")
  /\ widget' = [widget EXCEPT !.suggested = FALSE]
  /\ UNCHANGED <<link, attempts, conns, sent, broken, down, server, agentActs,
                 history>>

\* Slip: the input comes back, and the flag that blocks it is forgotten.
AfterNoRelease(page, frame) ==
  CASE frame = "session_info" -> [page EXCEPT !.input = TRUE]
    [] frame = "stream_start" -> [page EXCEPT !.streaming = TRUE]
    [] frame \in {"stream_end", "ask_human"} -> [page EXCEPT !.input = TRUE]
    [] OTHER -> page

\* Slip: an agent who leaves frees the input, and the handoff goes on.
AfterAgentStays(page, frame) ==
  CASE frame = "session_info" -> [page EXCEPT !.input = TRUE]
    [] frame = "stream_start" -> [page EXCEPT !.streaming = TRUE]
    [] frame = "agent_joined" -> [page EXCEPT !.handoff = TRUE]
    [] frame \in {"stream_end", "ask_human", "agent_left", "error"} ->
         [page EXCEPT !.streaming = FALSE, !.input = TRUE,
                      !.suggested = @ \/ frame = "ask_human"]
    [] OTHER -> page

\* handleServerMessage of chat.js, and what ui.js does to the input.
After(page, frame) ==
  CASE frame = "session_info"  -> [page EXCEPT !.input = TRUE]
    [] frame = "stream_start"  -> [page EXCEPT !.streaming = TRUE]
    [] frame = "stream_end"    -> [page EXCEPT !.streaming = FALSE, !.input = TRUE]
    [] frame = "ask_human"     -> [page EXCEPT !.streaming = FALSE, !.input = TRUE,
                                              !.suggested = TRUE]
    [] frame = "agent_joined"  -> [page EXCEPT !.handoff = TRUE]
    [] frame = "agent_message" -> page
    [] frame = "agent_left"    -> [page EXCEPT !.handoff = FALSE, !.streaming = FALSE,
                                              !.input = TRUE]
    [] frame = "error"         -> [page EXCEPT !.streaming = FALSE, !.input = TRUE]

WidgetReceives ==
  /\ Open
  /\ down[conns] # <<>>
  /\ widget' = After(widget, Head(down[conns]))
  /\ down' = [down EXCEPT ![conns] = Tail(@)]
  /\ UNCHANGED <<link, attempts, conns, sent, broken, up, server, agentActs, history>>

-----------------------------------------------------------------------------
\* The receive loop hands the next frame to handle_client_message.
NextFrame(c, frame) ==
  /\ handler[c] = "idle"
  /\ up[c] # <<>>
  /\ Head(up[c]) = frame
  /\ up' = [up EXCEPT ![c] = Tail(@)]

\* handle_user_message in a handoff: to Slack, with no answer of the bot.
Relay(c) ==
  /\ session.handoff
  /\ NextFrame(c, "user_message")
  /\ unawares' = (unawares \/ widget.streaming)
  /\ UNCHANGED <<visitor, broken, down, server, agentActs, cut, reloaded, missed,
                 mute>>

\* ... and otherwise: the answer starts,
TurnStarts(c) ==
  /\ ~session.handoff
  /\ NextFrame(c, "user_message")
  /\ handler' = [handler EXCEPT ![c] = "turn"]
  /\ down' = Send(<<"stream_start">>)
  /\ UNCHANGED <<visitor, broken, registered, session, agentActs, history>>

\* and ends, whatever became of the socket it was asked on ...
TurnEnds(c) ==
  /\ handler[c] = "turn"
  /\ handler' = [handler EXCEPT ![c] = "idle"]
  /\ \E frame \in {"stream_end", "ask_human"}
                    \cup (IF "error" \in Faults THEN {"error"} ELSE {}) :
       down' = Send(<<frame>>)
  /\ UNCHANGED <<visitor, broken, up, registered, session, agentActs, history>>

\* ... with no last frame if the model's stream was cut off (CutOff of
\* AnswerTurn).
TurnCutOff(c) ==
  /\ "cutoff" \in Faults
  /\ handler[c] = "turn"
  /\ handler' = [handler EXCEPT ![c] = "idle"]
  /\ mute' = TRUE
  /\ UNCHANGED <<visitor, broken, up, down, registered, session, agentActs,
                 cut, reloaded, missed, unawares>>

\* handle_confirm_handoff: a thread is created in Slack, or not (Handoff has
\* the details).
ConfirmHandoff(c) ==
  /\ NextFrame(c, "confirm_handoff")
  /\ \E created \in BOOLEAN : session' = [session EXCEPT !.handoff = @ \/ created]
  /\ UNCHANGED <<visitor, broken, down, handler, registered, agentActs, history>>

\* _deliver_agent_message: the first one announces the agent.
AgentSpeaks ==
  /\ session.handoff
  /\ registered # 0
  /\ agentActs < MaxAgentActs
  /\ agentActs' = agentActs + 1
  /\ session' = [session EXCEPT !.joined = TRUE]
  /\ down' = Send(IF session.joined THEN <<"agent_message">>
                  ELSE <<"agent_joined", "agent_message">>)
  /\ UNCHANGED <<visitor, broken, up, handler, registered, history>>

\* _deliver_handoff_resolved.
AgentLeaves ==
  /\ session.handoff
  /\ registered # 0
  /\ agentActs < MaxAgentActs
  /\ agentActs' = agentActs + 1
  /\ session' = [handoff |-> FALSE, joined |-> FALSE]
  /\ down' = Send(<<"agent_left">>)
  /\ missed' = (missed \/ registered \in broken)
  /\ UNCHANGED <<visitor, broken, up, handler, registered, cut, reloaded, unawares,
                 mute>>

Next ==
  \/ Accept \/ ConnectFails \/ Retry \/ Break \/ WidgetNotices \/ Reload
  \/ UserSends \/ UserConfirms \/ WidgetReceives
  \/ AgentSpeaks \/ AgentLeaves
  \/ \E c \in Conns : \/ ServerNotices(c) \/ Relay(c) \/ TurnStarts(c)
                      \/ TurnEnds(c) \/ TurnCutOff(c) \/ ConfirmHandoff(c)

Spec == Init /\ [][Next]_vars

\* A browser handles what it receives, the event loop runs its tasks, and a
\* turn ends: every call it makes has a time limit.
FairSpec ==
  /\ Spec
  /\ WF_vars(WidgetReceives)
  /\ \A c \in Conns : WF_vars(Relay(c) \/ TurnStarts(c) \/ TurnEnds(c)
                                \/ ConfirmHandoff(c))

-----------------------------------------------------------------------------
\* The widget awaits an answer that nobody is making or sending.
Stuck ==
  /\ Open /\ widget.streaming
  /\ up[conns] = <<>> /\ down[conns] = <<>>
  /\ \A c \in Conns : handler[c] # "turn" /\ up[c] = <<>>

(* The widget waits in vain only if a socket broke (or the page was left)  *)
(* while it awaited an answer, if its message was relayed to an agent it   *)
(* had not been told of, or if the model's stream was cut off.             *)
StuckOnlyIfCutOrUnawares == Stuck => cut \/ reloaded \/ unawares \/ mute

(* A widget that takes the visitor for connected to an agent (his messages *)
(* do not wait for an answer, the banner is up) is right, unless the       *)
(* agent_left it was sent went to a socket that had broken.                *)
HandoffIsReal ==
  Open /\ widget.handoff /\ down[conns] = <<>> => session.handoff \/ missed

(* The input comes back: an answer that is awaited on a socket that stays  *)
(* arrives, in a session whose handoffs the widget knows of and whose      *)
(* answers are complete.                                                   *)
InputComesBack ==
  widget.streaming ~> ~widget.streaming \/ cut \/ reloaded \/ unawares \/ mute
=============================================================================
