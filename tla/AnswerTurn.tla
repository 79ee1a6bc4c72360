---------------------------- MODULE AnswerTurn ----------------------------
(***************************************************************************)
(* The bot's turns: a message asked over the WebSocket                     *)
(* (api/routes/websocket.py) or /chat/stream (api/routes/chat.py), the     *)
(* agent's pipeline that answers it (process_message_stream and            *)
(* _gather_premodel_context of core/agent.py), the lookups it runs beside  *)
(* retrieval, and the model's stream (services/llm.py).                    *)
(*                                                                         *)
(* The turns share the saved answer of one button, whose life is           *)
(* ButtonCache's; whether an answer's last frame arrives is ChatWidget's.  *)
(*                                                                         *)
(* A text is the sequence of its pieces, each named for the attempt at an  *)
(* answer it came from; `left` and `cutOff` are history.                   *)
(***************************************************************************)
EXTENDS Naturals, Sequences

CONSTANTS
  Turns,      \* the messages
  Lookups,    \* the lookups a message may call for, ...
  BillInfo,   \* ... and the one that a low confidence may start late
  MaxPieces,  \* bound: pieces of text in one attempt
  Faults,     \* which failures this instance has, a subset of FaultKinds
  None        \* no text

FaultKinds == {"retrieval",  \* retrieval fails
               "model",      \* a call of the model fails, before or amid its text
               "cutoff",     \* the model's stream ends without its last event
               "leave"}      \* a client of /chat/stream closes its connection

ASSUME AnswerTurnAssumption ==
  /\ BillInfo \in Lookups
  /\ MaxPieces \in Nat \ {0}
  /\ Faults \subseteq FaultKinds

Attempts == {"web",       \* Responses API with web search
             "plain",     \* Chat Completions
             "fallback"}  \* Chat Completions, after "web" failed
Texts == Seq(Attempts)

VARIABLES
  at,       \* turn -> where its coroutine is
  channel,  \* turn -> how it was asked
  button,   \* turn -> it was asked with the quick-action button
  lookup,   \* turn -> lookup -> its task
  attempt,  \* turn -> the model call under way
  text,     \* turn -> the agent's full_response
  sent,     \* turn -> the text its channel was given
  ending,   \* turn -> the last frame its channel was given
  stored,   \* turn -> the assistant message added to the session
  logged,   \* turn -> the response of its query_processed event
  saved,    \* the button's saved answer
  left,     \* the turns whose client closed its connection
  cutOff    \* the turns whose model stream was cut off

vars == <<at, channel, button, lookup, attempt, text, sent, ending, stored,
          logged, saved, left, cutOff>>
asked   == <<channel, button>>
kept    == <<stored, logged, saved>>
history == <<left, cutOff>>

Stages == {"idle", "asked", "retrieving", "awaiting", "releasing", "streaming",
           "replaying", "completed", "kept", "over"}

TypeOK ==
  /\ at \in [Turns -> Stages]
  /\ channel \in [Turns -> {"websocket", "sse"}]
  /\ button \in [Turns -> BOOLEAN]
  /\ lookup \in [Turns -> [Lookups -> {"off", "running", "ended", "cancelled"}]]
  /\ attempt \in [Turns -> Attempts \cup {None}]
  /\ text \in [Turns -> Texts]
  /\ sent \in [Turns -> Texts]
  /\ ending \in [Turns -> {"none", "stream_end", "error"}]
  /\ stored \in [Turns -> Texts \cup {None}]
  /\ logged \in [Turns -> Texts \cup {None}]
  /\ saved \in Texts \cup {None}
  /\ left \subseteq Turns
  /\ cutOff \subseteq Turns

Init ==
  /\ at = [t \in Turns |-> "idle"]
  /\ channel \in [Turns -> {"websocket", "sse"}]
  /\ button \in [Turns -> BOOLEAN]
  /\ lookup = [t \in Turns |-> [l \in Lookups |-> "off"]]
  /\ attempt = [t \in Turns |-> None]
  /\ text = [t \in Turns |-> <<>>]
  /\ sent = [t \in Turns |-> <<>>]
  /\ ending = [t \in Turns |-> "none"]
  /\ stored = [t \in Turns |-> None]
  /\ logged = [t \in Turns |-> None]
  /\ saved = None
  /\ left = {}
  /\ cutOff = {}

-----------------------------------------------------------------------------
Goes(t, from, to) == at[t] = from /\ at' = [at EXCEPT ![t] = to]

Running(t) == {l \in Lookups : lookup[t][l] = "running"}

\* A frame to the channel: the last one, or a piece of text.
Closes(t, frame) == ending' = [ending EXCEPT ![t] = frame]
Shows(t, pieces) ==
  /\ text' = [text EXCEPT ![t] = @ \o pieces]
  /\ sent' = [sent EXCEPT ![t] = @ \o pieces]

Ask(t) ==
  /\ Goes(t, "idle", "asked")
  /\ UNCHANGED <<asked, lookup, attempt, text, sent, ending, kept, history>>

-----------------------------------------------------------------------------
(* A hit in the button cache: the whole text as one piece, then the last   *)
(* frame.                                                                  *)
Replay(t) ==
  /\ button[t] /\ saved # None
  /\ Goes(t, "asked", "replaying")
  /\ Shows(t, saved)
  /\ UNCHANGED <<asked, lookup, attempt, ending, kept, history>>

Replayed(t) ==
  /\ Goes(t, "replaying", "kept")
  /\ Closes(t, "stream_end")
  /\ UNCHANGED <<asked, lookup, attempt, text, sent, kept, history>>

(* A miss (a saved answer may be of another version): the lookups the      *)
(* message calls for start, then retrieval.                                *)
Gather(t) ==
  /\ Goes(t, "asked", "retrieving")
  /\ \E started \in SUBSET Lookups :
       lookup' = [lookup EXCEPT ![t] =
         [l \in Lookups |-> IF l \in started THEN "running" ELSE "off"]]
  /\ UNCHANGED <<asked, attempt, text, sent, ending, kept, history>>

\* One that fails ends too, with no context.
LookupEnds(t, l) ==
  /\ lookup[t][l] = "running"
  /\ lookup' = [lookup EXCEPT ![t][l] = "ended"]
  /\ UNCHANGED <<at, asked, attempt, text, sent, ending, kept, history>>

\* The confidence in what was retrieved may call for the bill's live data.
Retrieved(t) ==
  /\ Goes(t, "retrieving", "awaiting")
  /\ \/ UNCHANGED lookup
     \/ /\ lookup[t][BillInfo] = "off"
        /\ lookup' = [lookup EXCEPT ![t][BillInfo] = "running"]
  /\ UNCHANGED <<asked, attempt, text, sent, ending, kept, history>>

\* Slip: the failure goes up past the lookups.
RetrievalFailsAtOnce(t) ==
  /\ "retrieval" \in Faults
  /\ Goes(t, "retrieving", "over")
  /\ Closes(t, "error")
  /\ UNCHANGED <<asked, lookup, attempt, text, sent, kept, history>>

RetrievalFails(t) ==
  /\ "retrieval" \in Faults
  /\ Goes(t, "retrieving", "releasing")
  /\ UNCHANGED <<asked, lookup, attempt, text, sent, ending, kept, history>>

\* cancel_and_wait: what still runs is cancelled, and waited for, ...
LookupCancelled(t, l) ==
  /\ at[t] = "releasing"
  /\ lookup[t][l] = "running"
  /\ lookup' = [lookup EXCEPT ![t][l] = "cancelled"]
  /\ UNCHANGED <<at, asked, attempt, text, sent, ending, kept, history>>

\* Slip: a failure is not told to the visitor.
ReleasedSilently(t) ==
  /\ Goes(t, "releasing", "over")
  /\ Running(t) = {}
  /\ UNCHANGED <<asked, lookup, attempt, text, sent, ending, kept, history>>

\* ... and the failure goes up to the handler; nobody is left to be told of it
\* when the client is gone.
Released(t) ==
  /\ Goes(t, "releasing", "over")
  /\ Running(t) = {}
  /\ IF t \in left THEN UNCHANGED ending ELSE Closes(t, "error")
  /\ UNCHANGED <<asked, lookup, attempt, text, sent, kept, history>>

\* Slip: no API may be chosen.
AskModelAnyhow(t) ==
  /\ Goes(t, "awaiting", "streaming")
  /\ Running(t) = {}
  /\ \E api \in {"web", "plain", None} : attempt' = [attempt EXCEPT ![t] = api]
  /\ UNCHANGED <<asked, lookup, text, sent, ending, kept, history>>

\* Every lookup was awaited; web search decides which API answers.
AskModel(t) ==
  /\ Goes(t, "awaiting", "streaming")
  /\ Running(t) = {}
  /\ \E api \in {"web", "plain"} : attempt' = [attempt EXCEPT ![t] = api]
  /\ UNCHANGED <<asked, lookup, text, sent, ending, kept, history>>

-----------------------------------------------------------------------------
PiecesOf(t, a) == Len(SelectSeq(text[t], LAMBDA p : p = a))

Delta(t) ==
  /\ at[t] = "streaming"
  /\ PiecesOf(t, attempt[t]) < MaxPieces
  /\ Shows(t, <<attempt[t]>>)
  /\ UNCHANGED <<at, asked, lookup, attempt, ending, kept, history>>

\* finish_reason or response.completed: the channel is told the answer's end.
Completed(t) ==
  /\ Goes(t, "streaming", "completed")
  /\ Closes(t, "stream_end")
  /\ UNCHANGED <<asked, lookup, attempt, text, sent, kept, history>>

\* Slip: the agent starts its text over, the visitor has both.
FallsBackAfresh(t) ==
  /\ "model" \in Faults
  /\ at[t] = "streaming" /\ attempt[t] = "web"
  /\ attempt' = [attempt EXCEPT ![t] = "fallback"]
  /\ text' = [text EXCEPT ![t] = <<>>]
  /\ UNCHANGED <<at, asked, lookup, sent, ending, kept, history>>

\* The Responses API failed: Chat Completions is asked, and what was sent stays.
FallsBack(t) ==
  /\ "model" \in Faults
  /\ at[t] = "streaming" /\ attempt[t] = "web"
  /\ attempt' = [attempt EXCEPT ![t] = "fallback"]
  /\ UNCHANGED <<at, asked, lookup, text, sent, ending, kept, history>>

ModelFails(t) ==
  /\ "model" \in Faults
  /\ attempt[t] # "web"
  /\ Goes(t, "streaming", "over")
  /\ Closes(t, "error")
  /\ UNCHANGED <<asked, lookup, attempt, text, sent, kept, history>>

\* Slip: whatever ends the stream, the answer is logged.
CutOffLogged(t) ==
  /\ "cutoff" \in Faults
  /\ Goes(t, "streaming", "over")
  /\ stored' = IF channel[t] = "websocket" THEN [stored EXCEPT ![t] = text[t]]
               ELSE stored
  /\ logged' = [logged EXCEPT ![t] = text[t]]
  /\ cutOff' = cutOff \cup {t}
  /\ UNCHANGED <<asked, lookup, attempt, text, sent, ending, saved, left>>

(* The Responses API ends without response.completed (response.incomplete: *)
(* max_output_tokens was reached; response.failed), or Chat Completions    *)
(* without a finish_reason: no last frame, nothing logged, and what came is*)
(* the session's answer.                                                   *)
CutOff(t) ==
  /\ "cutoff" \in Faults
  /\ Goes(t, "streaming", "over")
  /\ stored' = IF channel[t] = "websocket" THEN [stored EXCEPT ![t] = text[t]]
               ELSE stored
  /\ cutOff' = cutOff \cup {t}
  /\ UNCHANGED <<asked, lookup, attempt, text, sent, ending, logged, saved, left>>

-----------------------------------------------------------------------------
\* Slip: a save that fails is the turn's failure.
SaveRaises(t) ==
  /\ button[t]
  /\ \/ Goes(t, "completed", "kept") /\ saved' = text[t] /\ UNCHANGED ending
     \/ Goes(t, "completed", "over") /\ Closes(t, "error") /\ UNCHANGED saved
  /\ UNCHANGED <<asked, lookup, attempt, text, sent, stored, logged, history>>

(* The button cache is filled after the last frame; a scope that is not    *)
(* known, or a Redis that fails, saves nothing.                            *)
Save(t) ==
  /\ button[t]
  /\ Goes(t, "completed", "kept")
  /\ saved' \in {saved, text[t]}
  /\ UNCHANGED <<asked, lookup, attempt, text, sent, ending, stored, logged, history>>

\* query_processed, the generator's end, and the session's assistant message.
Finish(t) ==
  /\ at[t] = "kept" \/ (at[t] = "completed" /\ ~button[t])
  /\ at' = [at EXCEPT ![t] = "over"]
  /\ logged' = [logged EXCEPT ![t] = text[t]]
  /\ stored' = IF channel[t] = "websocket" THEN [stored EXCEPT ![t] = sent[t]]
               ELSE stored
  /\ UNCHANGED <<asked, lookup, attempt, text, sent, ending, saved, history>>

\* The entry expires, or is invalidated.
Expire ==
  /\ saved # None
  /\ saved' = None
  /\ UNCHANGED <<at, asked, lookup, attempt, text, sent, ending, stored, logged, history>>

(* A client of /chat/stream goes away: the coroutine is cancelled where it *)
(* is, and what it started is released.  (A WebSocket's turn runs on.)     *)
Leave(t) ==
  /\ "leave" \in Faults
  /\ channel[t] = "sse"
  /\ at[t] \notin {"idle", "releasing", "over"}
  /\ at' = [at EXCEPT ![t] = IF @ \in {"retrieving", "awaiting"} THEN "releasing"
                             ELSE "over"]
  /\ left' = left \cup {t}
  /\ saved' \in {saved} \cup IF at[t] = "completed" /\ button[t] THEN {text[t]} ELSE {}
  /\ UNCHANGED <<asked, lookup, attempt, text, sent, ending, stored, logged, cutOff>>

-----------------------------------------------------------------------------
Proceeds(t) ==
  \/ Replay(t) \/ Replayed(t) \/ Gather(t) \/ Retrieved(t) \/ Released(t)
  \/ AskModel(t) \/ Delta(t) \/ Completed(t) \/ Save(t) \/ Finish(t)
  \/ \E l \in Lookups : LookupEnds(t, l) \/ LookupCancelled(t, l)

Next ==
  \/ Expire
  \/ \E t \in Turns : \/ Ask(t) \/ Proceeds(t) \/ Leave(t)
                      \/ RetrievalFails(t) \/ FallsBack(t) \/ ModelFails(t)
                      \/ CutOff(t)

Spec == Init /\ [][Next]_vars

(* The event loop runs what is ready, and every call a turn or a lookup    *)
(* awaits answers, fails or times out.  An answer's text is finite.        *)
FairSpec == Spec /\ \A t \in Turns : WF_vars(Proceeds(t))

-----------------------------------------------------------------------------
(* "none outlives the request that started it" (utils/tasks.py), however   *)
(* the request ends: a lookup runs only while its turn gathers or releases.*)
NoLookupOutlivesTurn ==
  \A t \in Turns :
    Running(t) # {} => at[t] \in {"retrieving", "awaiting", "releasing"}

(* A saved answer is one that somebody was sent, piece for piece, and told *)
(* the end of: neither half an answer nor another text is ever replayed.   *)
SavedWasShownWhole ==
  saved # None => \E t \in Turns : sent[t] = saved /\ ending[t] = "stream_end"

(* Of an answer that was ended with stream_end, the visitor's screen, the  *)
(* session's history and the event log have the same text, unless the      *)
(* client was gone; of one that ended otherwise, the log has nothing.      *)
RecordsAgree ==
  \A t \in Turns :
    /\ at[t] = "over" /\ ending[t] = "stream_end" /\ t \notin left =>
         /\ logged[t] = sent[t]
         /\ channel[t] = "websocket" => stored[t] = sent[t]
    /\ ending[t] # "stream_end" => logged[t] = None

(* The visitor is told one end: no error follows stream_end (though the    *)
(* cache is filled and the answer logged after it), no text follows either.*)
OneEnding ==
  [][\A t \in Turns : ending[t] # "none" =>
       ending'[t] = ending[t] /\ sent'[t] = sent[t]]_vars

(* Who stays is told the end of his answer, whatever fails, unless the     *)
(* model's stream was cut off.                                             *)
AnswerEnds ==
  \A t \in Turns :
    at[t] = "asked" ~> ending[t] # "none" \/ t \in left \/ t \in cutOff

(* "Server sends: stream_end" (the protocol in websocket_chat_endpoint): a *)
(* turn that is over has ended its stream.                                 *)
StreamIsEnded ==
  \A t \in Turns :
    at[t] = "over" /\ channel[t] = "websocket" => ending[t] # "none"
=============================================================================
