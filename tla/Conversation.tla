---------------------------- MODULE Conversation ----------------------------
(***************************************************************************)
(* The conversations of ONE chat session: the connection registry          *)
(* (active_connections), the conversation counters that ride in the        *)
(* session dict, and the message_received / conversation_ended events that *)
(* api/routes/websocket.py logs for them.  A session is a series of        *)
(* conversations; a boundary (inactivity, another page) or the end of the  *)
(* connection ends one.                                                    *)
(*                                                                         *)
(* A visitor has one live socket at a time, but the server may notice that *)
(* a socket died long after the visitor came back on another one, on this  *)
(* worker or on another, and the turn of the dead socket runs on.  A save  *)
(* is one step here: SessionStore takes it apart.                          *)
(*                                                                         *)
(* `received`, `ended`, `answered`, `messages`, `overlapped` and `orderly`   *)
(* are history: what the log files show and what led to it.  Only the     *)
(* bound on `messages` is read by a guard.                                 *)
(***************************************************************************)
EXTENDS Naturals, Sequences

CONSTANTS
  Workers,      \* uvicorn worker processes
  MaxConns,     \* bound: how often the visitor connects
  MaxMessages,  \* bound: how many messages the visitor sends
  MaxRevisions, \* bound: other messages are not saved past this revision
  Pages,        \* pages of the site, records [type, ident]
  Faults,       \* which failures this instance has, a subset of FaultKinds
  None          \* no session, no connection, no page, no identity

FaultKinds == {"write", "expiry", "crash"}

ASSUME ConversationAssumption ==
  /\ MaxConns \in Nat \ {0}
  /\ MaxMessages \in Nat
  /\ MaxRevisions \in Nat
  /\ Faults \subseteq FaultKinds
  /\ None \notin Workers

Conns == 1..MaxConns
Ids   == 1..MaxMessages    \* conversation_counter values in use

VARIABLES
  registered,  \* worker -> connection in active_connections, or None
  session,     \* worker -> the session dict, or None
  saved,       \* the session's copy in Redis, or None
  conn,        \* the server's side of each connection
  gone,        \* the connections whose client side is closed
  received,    \* conversation id -> the message indexes logged under it
  ended,       \* conversation id -> its conversation_ended events
  answered,    \* the conversation ids one of whose messages was answered
  messages,    \* how many messages the server has read
  overlapped,  \* a message or a clean-up met another connection's turn
  orderly      \* no session copy was lost, refused or used on two workers

vars == <<registered, session, saved, conn, gone,
          received, ended, answered, messages, overlapped, orderly>>
history == <<received, ended, answered, messages>>

Sessions ==
  [rev       : Nat,            \* revision
   counter   : 0..MaxMessages, \* conversation_counter
   turns     : 0..MaxMessages, \* conversation_message_counter
   started   : BOOLEAN,        \* conversation_start_time is not None
   responded : BOOLEAN,        \* conversation_has_response
   page      : Pages \cup {None}]

ASSUME NoneIsNoSession == None \notin Sessions

NewSession == [rev |-> 0, counter |-> 0, turns |-> 0, started |-> FALSE,
               responded |-> FALSE, page |-> None]

NewConn == [pc |-> "new", worker |-> None, id |-> 0, orphan |-> FALSE]

TerminalStates == {"navigated", "inactive_end", "abandoned"}

TypeOK ==
  /\ registered \in [Workers -> Conns \cup {None}]
  /\ session \in [Workers -> Sessions \cup {None}]
  /\ saved \in Sessions \cup {None}
  /\ conn \in [Conns -> [pc     : {"new", "open", "turn", "over"},
                         worker : Workers \cup {None},
                         id     : 0..MaxMessages,
                         orphan : BOOLEAN]]
  /\ gone \subseteq Conns
  /\ received \in [Ids -> Seq(1..MaxMessages)]
  /\ ended \in [Ids -> Seq([turns : 0..MaxMessages, state : TerminalStates])]
  /\ answered \subseteq Ids
  /\ messages \in 0..MaxMessages
  /\ overlapped \in BOOLEAN
  /\ orderly \in BOOLEAN

Live(c) == conn[c].pc \in {"open", "turn"}

Init ==
  /\ registered = [w \in Workers |-> None]
  /\ session = [w \in Workers |-> None]
  /\ saved = None
  /\ conn = [c \in Conns |-> NewConn]
  /\ gone = {}
  /\ received = [i \in Ids |-> <<>>]
  /\ ended = [i \in Ids |-> <<>>]
  /\ answered = {}
  /\ messages = 0
  /\ overlapped = FALSE
  /\ orderly = TRUE

-----------------------------------------------------------------------------
\* save_session for the dict s of worker w, as one step.
SaveRefused(s) == saved # None /\ saved.rev > s.rev

SaveSession(w, s) ==
  IF SaveRefused(s)
    THEN /\ session' = [session EXCEPT ![w] = s]
         /\ UNCHANGED saved
         /\ orderly' = FALSE
    ELSE LET t == [s EXCEPT !.rev = @ + 1]
         IN /\ session' = [session EXCEPT ![w] = t]
            /\ \/ saved' = t /\ UNCHANGED orderly
               \/ "write" \in Faults /\ UNCHANGED saved /\ orderly' = FALSE

\* Slip: whatever this process remembers wins over Redis.
KeepsAnyLocal(w) == session[w] # None

\* connect(): what sessions[session_id] is after the load.
KeepsLocal(w) ==
  session[w] # None /\ (saved = None \/ session[w].rev >= saved.rev)

Adopted(w) ==
  IF KeepsLocal(w) THEN session[w]
  ELSE IF saved = None THEN NewSession ELSE saved

(* websocket_chat_endpoint up to its receive loop: register the socket and *)
(* settle on a copy.  A dict that is replaced is orphaned: the turns that  *)
(* hold it no longer write to the session.                                 *)
Connect(c, w) ==
  /\ conn[c].pc = "new"
  /\ \A d \in Conns : d < c => conn[d].pc # "new" /\ d \in gone
  /\ registered' = [registered EXCEPT ![w] = c]
  /\ session' = [session EXCEPT ![w] = Adopted(w)]
  /\ conn' = [d \in Conns |->
       IF d = c THEN [NewConn EXCEPT !.pc = "open", !.worker = w]
       ELSE IF conn[d].worker = w /\ ~KeepsLocal(w)
            THEN [conn[d] EXCEPT !.orphan = TRUE]
            ELSE conn[d]]
  /\ orderly' = (orderly /\ \A d \in Conns : Live(d) => conn[d].worker = w)
  /\ UNCHANGED <<saved, gone, history, overlapped>>

\* The visitor's side of the socket closes or dies; the server learns later.
ClientLeaves(c) ==
  /\ Live(c)
  /\ c \notin gone
  /\ gone' = gone \cup {c}
  /\ UNCHANGED <<registered, session, saved, conn, history, overlapped, orderly>>

-----------------------------------------------------------------------------
\* _check_conversation_boundary; idle: ten minutes since the last message.
Boundary(s, page, idle) ==
  \/ idle
  \/ s.page.type # page.type
  \/ /\ page.type # "general"
     /\ s.page.ident # None /\ page.ident # None
     /\ s.page.ident # page.ident
     /\ s.responded

StartNewConversation(s) ==
  [s EXCEPT !.counter = @ + 1, !.turns = 0, !.started = TRUE, !.responded = FALSE]

Emit(s, state) ==
  ended' = [ended EXCEPT ![s.counter] =
              Append(@, [turns |-> s.turns, state |-> state])]

OthersTurn(c) ==
  \E d \in Conns \ {c} : conn[d].pc = "turn" /\ conn[d].worker = conn[c].worker

(* handle_user_message up to the answer: the boundary, the counters and    *)
(* the message_received event, all before the first await.                 *)
Receive(c, page, idle) ==
  LET w  == conn[c].worker
      s  == session[w]
      b  == s.started /\ Boundary(s, page, idle)
      s1 == IF ~s.started \/ b THEN StartNewConversation(s) ELSE s
      s2 == [s1 EXCEPT !.turns = @ + 1, !.page = page]
  IN /\ conn[c].pc = "open"
     /\ messages < MaxMessages
     /\ messages' = messages + 1
     /\ IF b THEN Emit(s, "navigated") ELSE UNCHANGED ended
     /\ session' = [session EXCEPT ![w] = s2]
     /\ received' = [received EXCEPT ![s2.counter] = Append(@, s2.turns)]
     /\ conn' = [conn EXCEPT ![c].pc = "turn", ![c].id = s2.counter,
                             ![c].orphan = FALSE]
     /\ overlapped' = (overlapped \/ OthersTurn(c))
     /\ UNCHANGED <<registered, saved, gone, answered, orderly>>

(* The turn is over: answered by the bot, or not (an error, or the message *)
(* was relayed to a human agent).  handle_client_message then saves.       *)
TurnEnds(c, answer) ==
  LET w    == conn[c].worker
      s    == session[w]
      mine == answer /\ ~conn[c].orphan
  IN /\ conn[c].pc = "turn"
     /\ SaveSession(w, IF mine THEN [s EXCEPT !.responded = TRUE] ELSE s)
     /\ conn' = [conn EXCEPT ![c].pc = "open", ![c].orphan = FALSE]
     /\ answered' = IF answer THEN answered \cup {conn[c].id} ELSE answered
     /\ UNCHANGED <<registered, gone, received, ended, messages, overlapped>>

\* A context_update, a confirm_handoff or an agent's message: saved, and no
\* concern of the conversation counters.
OtherMessage(c) ==
  /\ conn[c].pc = "open"
  /\ session[conn[c].worker].rev < MaxRevisions
  /\ SaveSession(conn[c].worker, session[conn[c].worker])
  /\ UNCHANGED <<registered, conn, gone, history, overlapped>>

\* Slip: the clean-up of any connection removes the registered one.
OwnsAny(c) == registered[conn[c].worker] # None

\* disconnect(): only the registered connection has something to clean up.
Owns(c) == registered[conn[c].worker] = c

\* Slip: a terminal state the analytics do not know.
TerminalStateClosed(s, error) == IF error THEN "abandoned" ELSE "closed"

\* How the end of the connection ends a conversation: a clean close looks at
\* whether it was answered, any other error does not.
TerminalState(s, error) ==
  IF s.responded /\ ~error THEN "inactive_end" ELSE "abandoned"

Reset(s) == [s EXCEPT !.turns = 0, !.responded = FALSE, !.started = FALSE]

(* The receive loop ends: the server notices that the socket is gone, or   *)
(* cannot read a frame (not JSON).                                         *)
Cleanup(c, error) ==
  LET w == conn[c].worker
      s == session[w]
  IN /\ conn[c].pc = "open"
     /\ error \/ c \in gone
     /\ gone' = gone \cup {c}
     /\ conn' = [conn EXCEPT ![c].pc = "over"]
     /\ IF Owns(c)
          THEN /\ registered' = [registered EXCEPT ![w] = None]
               /\ overlapped' = (overlapped \/ OthersTurn(c))
               /\ IF s.turns > 0
                    THEN /\ Emit(s, TerminalState(s, error))
                         /\ SaveSession(w, Reset(s))
                    ELSE /\ UNCHANGED ended
                         /\ SaveSession(w, s)
          ELSE UNCHANGED <<registered, session, saved, ended, overlapped, orderly>>
     /\ UNCHANGED <<received, answered, messages>>

\* SESSION_TTL runs out.
Expire ==
  /\ "expiry" \in Faults
  /\ saved # None
  /\ saved' = None
  /\ orderly' = FALSE
  /\ UNCHANGED <<registered, session, conn, gone, history, overlapped>>

\* A worker dies: what was not saved is lost, and its sockets close.  A
\* message whose turn is not over has not been saved.
Crash(w) ==
  /\ "crash" \in Faults
  /\ session[w] # None
  /\ registered' = [registered EXCEPT ![w] = None]
  /\ session' = [session EXCEPT ![w] = None]
  /\ conn' = [c \in Conns |->
       IF conn[c].worker = w THEN [conn[c] EXCEPT !.pc = "over"] ELSE conn[c]]
  /\ gone' = gone \cup {c \in Conns : conn[c].worker = w}
  /\ orderly' = (orderly /\ \A c \in Conns :
                   conn[c].worker = w => conn[c].pc # "turn")
  /\ UNCHANGED <<saved, history, overlapped>>

Next ==
  \/ \E c \in Conns :
       \/ \E w \in Workers : Connect(c, w)
       \/ ClientLeaves(c)
       \/ \E page \in Pages, idle \in BOOLEAN : Receive(c, page, idle)
       \/ \E answer \in BOOLEAN : TurnEnds(c, answer)
       \/ OtherMessage(c)
       \/ \E error \in BOOLEAN : Cleanup(c, error)
  \/ Expire
  \/ \E w \in Workers : Crash(w)

Spec == Init /\ [][Next]_vars

-----------------------------------------------------------------------------
(* "Reset conversation state to prevent duplicate events on reconnect"     *)
(* (websocket.py): a conversation ends at most once, over any number of    *)
(* reconnects, late clean-ups and turns that outlive their connection.     *)
EndedAtMostOnce == \A i \in Ids : Len(ended[i]) <= 1

(* conversation_ended counts every message of its conversation: none is    *)
(* logged under a conversation that is over (the docstring of              *)
(* _check_conversation_boundary: each message is logged against its final  *)
(* conversation_id), and none is missing.                                  *)
EndedCountsEveryMessage ==
  \A i \in Ids : \A n \in 1..Len(ended[i]) :
    ended[i][n].turns = Len(received[i])

(* conversation_message_index numbers the messages of a conversation 1, 2, *)
(* 3 ...: a conversation_id is never used again for another conversation.  *)
MessagesNumberedInOrder ==
  \A i \in Ids : \A n \in 1..Len(received[i]) : received[i][n] = n

(* disconnect(): the newest connection of a worker stays registered until  *)
(* its own clean-up, however late the older ones are cleaned up: what the  *)
(* session sends has somewhere to go.                                      *)
NewestIsRegistered ==
  \A c \in Conns :
    Live(c) /\ (\A d \in Conns : d > c => conn[d].worker # conn[c].worker)
      => registered[conn[c].worker] = c

(* A conversation logged as inactive_end (the visitor stopped asking) had  *)
(* an answer, unless two connections of the visitor were served at once:   *)
(* then an answer may be credited to a conversation it does not belong to. *)
NaturalEndWasAnswered ==
  \A i \in Ids : \A n \in 1..Len(ended[i]) :
    ended[i][n].state = "inactive_end" => i \in answered \/ overlapped

(* What the log says of the conversations is right over any number of      *)
(* connections, late clean-ups, crashes and failing saves, as long as the  *)
(* visitor's connections do not overlap on two workers and no copy of the  *)
(* session is lost or refused.                                             *)
OrderlyLog ==
  orderly => /\ EndedAtMostOnce
             /\ EndedCountsEveryMessage
             /\ MessagesNumberedInOrder
             /\ NaturalEndWasAnswered
=============================================================================
