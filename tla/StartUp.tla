-------------------------------- MODULE StartUp --------------------------------
(***************************************************************************)
(* What the first connections of ONE worker start: the Slack socket and the*)
(* subscriber to agents' events (ConnectionManager.connect and             *)
(* _ensure_slack_started of api/routes/websocket.py, SlackService.start,   *)
(* RedisStore.subscribe_agent_events).  Every step up to an await is one   *)
(* action; connect is called outside the endpoint's try, so an error in it *)
(* ends the endpoint without its clean-up.  Slack has its credentials here *)
(* (without them there are no agents to hear), Redis is available, and each*)
(* connection is of a session of its own.                                  *)
(***************************************************************************)
CONSTANTS
  Connections,  \* websocket connections
  None          \* no connection

Parameters == None \notin Connections

VARIABLES
  conn,        \* connection -> how far its connect() is
  registered,  \* active_connections: connections that have a socket there
  started,     \* _slack_started
  sockets,     \* Slack sockets that are open, by the connect that opened them
  pubsub,      \* _pubsub: by the connect that made it, or None
  subscribed,  \* pubsubs whose subscription Redis has confirmed
  reading,     \* pubsubs that a live listener reads
  task,        \* _subscriber_task: the pubsub it reads, or None (none, or over)
  deafened,    \* history: a subscription failed, or a listener crashed
  collided     \* history: two listeners read the same pubsub

vars == <<conn, registered, started, sockets, pubsub, subscribed, reading,
          task, deafened, collided>>

Phases == {"off", "loading", "starting", "subscribing", "serving", "broken", "closed"}

TypeOK ==
  /\ conn \in [Connections -> Phases]
  /\ registered \subseteq Connections
  /\ started \in BOOLEAN
  /\ sockets \subseteq Connections
  /\ pubsub \in Connections \cup {None}
  /\ subscribed \subseteq Connections
  /\ reading \subseteq subscribed
  /\ task \in reading \cup {None}
  /\ deafened \in BOOLEAN /\ collided \in BOOLEAN

Init ==
  /\ conn = [c \in Connections |-> "off"]
  /\ registered = {}
  /\ started = FALSE
  /\ sockets = {}
  /\ pubsub = None
  /\ subscribed = {} /\ reading = {}
  /\ task = None
  /\ deafened = FALSE /\ collided = FALSE

-----------------------------------------------------------------------------
Goes(c, phase) == conn' = [conn EXCEPT ![c] = phase]
ListenersUnchanged == UNCHANGED <<pubsub, subscribed, reading, task, deafened, collided>>

\* connect: accept, register, then await load_session.
Accept(c) ==
  /\ conn[c] = "off"
  /\ Goes(c, "loading")
  /\ registered' = registered \cup {c}
  /\ UNCHANGED <<started, sockets>>
  /\ ListenersUnchanged

\* _ensure_slack_started up to its first await.
Ensure(c) ==
  /\ conn[c] = "loading"
  /\ Goes(c, IF started THEN "serving" ELSE "starting")
  /\ UNCHANGED <<registered, started, sockets>>
  /\ ListenersUnchanged

\* SlackService.start returns; then subscribe_agent_events up to its await,
\* which has nothing to do while the task runs.
SlackConnects(c) ==
  /\ conn[c] = "starting"
  /\ sockets' = sockets \cup {c}
  /\ started' = TRUE
  /\ \/ task # None /\ Goes(c, "serving") /\ UNCHANGED pubsub
     \/ task = None /\ Goes(c, "subscribing") /\ pubsub' = c
  /\ UNCHANGED <<registered, subscribed, reading, task, deafened, collided>>

\* Slip: the flag is set before Slack is reached.
StartedAnyway == TRUE
\* _slack_started when start() has raised: set by others only.
StartedAfterFailure == started

\* ... or start raises, through connect: nobody serves the socket.
SlackFails(c) ==
  /\ conn[c] = "starting"
  /\ started' = StartedAfterFailure
  /\ Goes(c, "broken")
  /\ UNCHANGED <<registered, sockets>>
  /\ ListenersUnchanged

\* The subscription is confirmed and a listener created.  It reads whatever
\* `_pubsub` is when it runs: one that is not confirmed yet ends it at once;
\* one that is being read fails it, and may fail the other one too (that is the
\* Redis client's choice, so both are taken).
Subscribed(c) ==
  /\ conn[c] = "subscribing"
  /\ Goes(c, "serving")
  /\ subscribed' = subscribed \cup {c}
  /\ LET read == pubsub \in reading IN
     /\ collided' = (collided \/ read)
     /\ task' = IF read \/ pubsub \notin subscribed' THEN None ELSE pubsub
     /\ \/ reading' = IF pubsub \in subscribed' THEN reading \cup {pubsub} ELSE reading
        \/ read /\ reading' = reading \ {pubsub}
  /\ UNCHANGED <<registered, started, sockets, pubsub, deafened>>

SubscribeFails(c) ==
  /\ conn[c] = "subscribing"
  /\ Goes(c, "broken")
  /\ deafened' = TRUE
  /\ UNCHANGED <<registered, started, sockets, pubsub, subscribed, reading, task, collided>>

\* The connection to Redis breaks: "pub/sub listener crashed".
ListenerCrashes(p) ==
  /\ p \in reading
  /\ reading' = reading \ {p}
  /\ task' = IF task = p THEN None ELSE task
  /\ deafened' = TRUE
  /\ UNCHANGED <<conn, registered, started, sockets, pubsub, subscribed, collided>>

\* The visitor leaves: the endpoint notices while it serves, and only then.
Leave(c) ==
  /\ conn[c] = "serving"
  /\ Goes(c, "closed")
  /\ registered' = registered \ {c}
  /\ UNCHANGED <<started, sockets>>
  /\ ListenersUnchanged

Next ==
  \E c \in Connections :
    \/ Accept(c) \/ Ensure(c) \/ SlackConnects(c) \/ SlackFails(c)
    \/ Subscribed(c) \/ SubscribeFails(c) \/ ListenerCrashes(c) \/ Leave(c)

Spec == Init /\ [][Next]_vars

-----------------------------------------------------------------------------
Settled == \A c \in Connections : conn[c] \in {"off", "serving", "broken", "closed"}

(* _ensure_slack_started: once no connect is under way, a worker that has  *)
(* served a visitor hears the agents, on Slack and from the other workers, *)
(* unless a subscription failed, a listener crashed, or two listeners met  *)
(* on one subscription.  The last is what first connects that overlap can  *)
(* do to each other, and only they: each of the two has then opened a      *)
(* Slack socket of its own.  Without it nobody is heard twice.             *)
HearsUnlessBroken ==
  /\ Settled /\ ~deafened /\ ~collided
     /\ (\E c \in Connections : conn[c] \in {"serving", "closed"})
       => reading # {} /\ sockets # {}
  /\ (\E p, q \in reading : p # q) => collided
  /\ collided => \E c, d \in sockets : c # d

(* connect outside the endpoint's try: the sockets that stay registered    *)
(* with nobody to serve them are those whose connect failed.               *)
OnlyFailedConnectsLeak ==
  Settled => \A c \in Connections :
    c \in registered <=> conn[c] \in {"serving", "broken"}
=============================================================================
