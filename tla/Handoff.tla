------------------------------ MODULE Handoff ------------------------------
(***************************************************************************)
(* The hand-over of ONE chat session to a human agent in Slack and back:   *)
(* initiate_handoff, the routing of what the agent does (a reply in the    *)
(* thread, a check mark) from whichever worker Slack's socket delivers it  *)
(* to, over Redis pub/sub, to whichever worker holds the visitor's socket, *)
(* and the copies of the handoff state that follow the visitor when he     *)
(* reconnects (api/routes/websocket.py, services/redis_store.py and        *)
(* services/slack.py).                                                     *)
(*                                                                         *)
(* Loads and saves of the session are single steps (SessionStore takes     *)
(* them apart), except that a connect registers its socket, awaits its     *)
(* load and adopts, with agent events delivered in between.  What an agent *)
(* does is handled by a task of its own, which awaits Slack, the thread's  *)
(* session, the publish, the removal of the mapping and Slack again, with  *)
(* anything in between.  Slack itself is modelled from how the code uses   *)
(* it: it posts threads, and delivers each event of the support channel to *)
(* one started worker.                                                     *)
(*                                                                         *)
(* `shown`, `routed`, `calm`, the two counters and the fields `failed` and *)
(* `rivals` of `act` are history; only the bounds on the counters are read *)
(* by guards.                                                              *)
(***************************************************************************)
EXTENDS Naturals, Sequences, FiniteSets

CONSTANTS
  Workers,      \* uvicorn worker processes
  Threads,      \* Slack threads (thread_ts values)
  RedisModes,   \* which values of redis_store.is_available to consider
  MaxConnects,  \* bound: how often the visitor connects
  MaxEvents,    \* bound: how many replies and check marks there are
  MaxSaves,     \* bound: at this revision the visitor sends nothing more
  Faults,       \* which failures this instance has, a subset of FaultKinds
  None          \* no worker, thread, session or saved copy

\* Slack's API fails, a subscriber dies, a worker dies, a PUBLISH or a command
\* on the hash of threads fails (loads and saves do not fail here).
FaultKinds == {"slack", "listener", "crash", "redis"}

ASSUME HandoffAssumption ==
  /\ RedisModes \subseteq BOOLEAN
  /\ MaxConnects \in Nat /\ MaxEvents \in Nat /\ MaxSaves \in Nat
  /\ Faults \subseteq FaultKinds
  /\ None \notin Workers \cup Threads
  /\ IsFiniteSet(Threads)

Acts     == 1..MaxEvents            \* what agents do, numbered as they do it
Sessions ==
  [rev    : Nat,
   active : BOOLEAN,                \* handoff_active
   thread : Threads \cup {None},    \* slack_thread_ts
   joined : BOOLEAN,                \* agent_joined_sent
   heard  : SUBSET Acts]            \* the agent's messages in the history

\* Slip: a new session without its slack_thread_ts.
NewSessionUnthreaded == [rev |-> 0, active |-> FALSE, joined |-> FALSE, heard |-> {}]

NewSession == [rev |-> 0, active |-> FALSE, thread |-> None,
               joined |-> FALSE, heard |-> {}]

ActTypes == {"agent_message", "agent_left"}   \* a reply, a check mark

\* What Redis pub/sub carries; `act` is the act it tells of.
AgentEvents == [type : ActTypes, thread : Threads, act : Acts]

\* Where the task that handles an act is.
Stages == {"asking",       \* awaits Slack's channel and user, then the session
           "publishing",   \* has the session, its PUBLISH is on its way
           "clearing",     \* a check mark: the session is told, the mapping not gone
           "posting",      \* ... the mapping is gone, Slack is not told
           "over"}

Handlings ==
  [type   : ActTypes,
   thread : Threads,
   worker : Workers,
   stage  : Stages,
   failed : BOOLEAN,        \* its PUBLISH failed
   rivals : SUBSET Acts]    \* what was being handled when the agent did this

VARIABLES
  redis,       \* redis_store.is_available, the same for all workers
  session,     \* worker -> the session dict, or None
  saved,       \* the session's copy in Redis, or None
  registered,  \* worker -> number of the connection in active_connections, 0 if none
  at,          \* the worker that has the visitor's live socket, or None
  connects,    \* how many connections the visitor has opened
  loading,     \* worker -> the answer its connect() awaits: <<>> or <<copy>>
  creating,    \* thread -> the confirm_handoff that creates it, or None
  slack,       \* thread -> what Slack shows of it
  localMap,    \* worker -> thread_to_session of that process
  redisMap,    \* the hash votebot:threads
  started,     \* workers whose Slack client and subscriber were started
  listening,   \* workers whose subscriber task is alive
  inbox,       \* worker -> events published and not yet handled there
  events,      \* how many replies and check marks there were
  act,         \* act -> its handling, or None while nobody did it
  shown,       \* the agent's replies the visitor's live socket was sent
  routed,      \* the agent's replies that found their session
  calm         \* no event met a visitor between two sockets, or a fault

vars == <<redis, session, saved, registered, at, connects, loading, creating, slack,
          localMap, redisMap, started, listening, inbox, events, act, shown,
          routed, calm>>
visitor == <<at, connects, registered, loading>>
routing == <<localMap, redisMap, slack, creating>>
agents  == <<started, listening, inbox, events, act>>
seen    == <<shown, routed, calm>>

Confirms == [worker : Workers, conn : 1..MaxConnects]
Shows    == {"none", "open", "resolved"}

ASSUME NoneIsNoValue == None \notin Sessions \cup Confirms \cup Handlings

TypeOK ==
  /\ redis \in BOOLEAN
  /\ session \in [Workers -> Sessions \cup {None}]
  /\ saved \in Sessions \cup {None}
  /\ registered \in [Workers -> 0..MaxConnects]
  /\ at \in Workers \cup {None}
  /\ connects \in 0..MaxConnects
  /\ loading \in [Workers -> {<<>>} \cup (Sessions \cup {None}) \X {TRUE}]
  /\ creating \in [Threads -> Confirms \cup {None}]
  /\ slack \in [Threads -> Shows]
  /\ localMap \in [Workers -> SUBSET Threads]
  /\ redisMap \subseteq Threads
  /\ started \subseteq Workers /\ listening \subseteq started
  /\ inbox \in [Workers -> Seq(AgentEvents)]
  /\ events \in 0..MaxEvents
  /\ act \in [Acts -> Handlings \cup {None}]
  /\ shown \in Seq(Acts)
  /\ routed \subseteq Acts
  /\ calm \in BOOLEAN

\* Other visitors have started Slack and the subscriber on every worker.
Init ==
  /\ redis \in RedisModes
  /\ session = [w \in Workers |-> None]
  /\ saved = None
  /\ registered = [w \in Workers |-> 0]
  /\ at = None
  /\ connects = 0
  /\ loading = [w \in Workers |-> <<>>]
  /\ creating = [t \in Threads |-> None]
  /\ slack = [t \in Threads |-> "none"]
  /\ localMap = [w \in Workers |-> {}]
  /\ redisMap = {}
  /\ started = Workers
  /\ listening = Workers
  /\ inbox = [w \in Workers |-> <<>>]
  /\ events = 0
  /\ act = [n \in Acts |-> None]
  /\ shown = <<>>
  /\ routed = {}
  /\ calm = TRUE

-----------------------------------------------------------------------------
\* save_session of worker w's dict s, as one step.
Refused(s) == saved # None /\ saved.rev > s.rev

Stores(s) == IF redis /\ ~Refused(s) THEN [s EXCEPT !.rev = @ + 1] ELSE s

SaveSession(w, s) ==
  /\ session' = [session EXCEPT ![w] = Stores(s)]
  /\ saved' = IF redis /\ ~Refused(s) THEN Stores(s) ELSE saved

\* The worker of a confirm_handoff that awaits Slack.
CreatingAt(w) == \E t \in Threads : creating[t] # None /\ creating[t].worker = w

(* connect(): the socket is registered first, then the load is awaited.    *)
Register(w) ==
  /\ at = None
  /\ connects < MaxConnects
  /\ loading[w] = <<>>
  /\ connects' = connects + 1
  /\ at' = w
  /\ registered' = [registered EXCEPT ![w] = connects + 1]
  /\ loading' = [loading EXCEPT ![w] = <<saved, TRUE>>]
  /\ calm' = /\ calm
             /\ \A u \in Workers : /\ u # w => registered[u] = 0
                                   /\ inbox[u] = <<>>
                                   /\ ~CreatingAt(u)
  /\ UNCHANGED <<session, saved, routing, agents, shown, routed>>

\* Slip: whatever this process remembers wins over Redis.
KeepsAnyLocal(w, copy) == session[w] # None

KeepsLocal(w, copy) ==
  session[w] # None /\ (copy = None \/ session[w].rev >= copy.rev)

(* ... then the newer copy is adopted, and Slack and the subscriber are    *)
(* started: once per process, so a subscriber that died is not restarted.  *)
Adopt(w) ==
  /\ loading[w] # <<>>
  /\ loading' = [loading EXCEPT ![w] = <<>>]
  /\ LET copy == loading[w][1]
     IN session' = [session EXCEPT ![w] =
          IF KeepsLocal(w, copy) THEN @
          ELSE IF copy = None THEN NewSession ELSE copy]
  /\ started' = started \cup {w}
  /\ listening' = IF w \in started THEN listening ELSE listening \cup {w}
  /\ UNCHANGED <<saved, at, connects, registered, routing, inbox, events, act, seen>>

\* The visitor's socket dies; the worker may learn it much later.
VisitorLeaves ==
  /\ at # None
  /\ at' = None
  /\ UNCHANGED <<session, saved, connects, registered, loading, routing,
                 agents, seen>>

\* The newest connection of a worker is still its visitor's.
Current(w) == at = w /\ registered[w] = connects

(* The end of a dead connection that is still the registered one: its      *)
(* clean-up saves the session (the conversation counters are not modelled  *)
(* here).  An older connection's clean-up changes nothing.                 *)
Cleanup(w) ==
  /\ registered[w] # 0 /\ ~Current(w)
  /\ loading[w] = <<>>
  /\ \A t \in Threads : creating[t] # [worker |-> w, conn |-> registered[w]]
  /\ registered' = [registered EXCEPT ![w] = 0]
  /\ IF session[w] = None THEN UNCHANGED <<session, saved>>
     ELSE SaveSession(w, session[w])
  /\ calm' = (calm /\ inbox[w] = <<>>)
  /\ UNCHANGED <<at, connects, loading, routing, agents, shown, routed>>

\* The connection of the live socket is free to read its next frame.
Ready(w) ==
  /\ Current(w) /\ loading[w] = <<>> /\ session[w] # None
  /\ \A t \in Threads : creating[t] # [worker |-> w, conn |-> connects]

(* A message of the visitor: relayed to his thread in a handoff, answered  *)
(* by the bot otherwise, and saved.  relay_to_slack ignores failures.      *)
UserMessage(w) ==
  /\ redis
  /\ Ready(w)
  /\ session[w].rev < MaxSaves
  /\ SaveSession(w, session[w])
  /\ UNCHANGED <<visitor, routing, agents, seen>>

-----------------------------------------------------------------------------
\* Slip: a visitor in a handoff may confirm another one.
ConfirmAgain(w, t) ==
  /\ Ready(w)
  /\ session[w].rev < MaxSaves
  /\ slack[t] = "none" /\ creating[t] = None
  /\ creating' = [creating EXCEPT ![t] = [worker |-> w, conn |-> connects]]
  /\ UNCHANGED <<session, saved, visitor, slack, localMap, redisMap, agents, seen>>

\* confirm_handoff: not in a handoff yet, so ask Slack for a thread.
ConfirmHandoff(w, t) ==
  /\ Ready(w)
  /\ ~session[w].active
  /\ session[w].rev < MaxSaves
  /\ slack[t] = "none" /\ creating[t] = None
  /\ creating' = [creating EXCEPT ![t] = [worker |-> w, conn |-> connects]]
  /\ UNCHANGED <<session, saved, visitor, slack, localMap, redisMap, agents, seen>>

\* Slack posts the thread: agents see it before the worker has its answer.
SlackPosts(t) ==
  /\ creating[t] # None
  /\ slack[t] = "none"
  /\ slack' = [slack EXCEPT ![t] = "open"]
  /\ UNCHANGED <<session, saved, visitor, creating, localMap, redisMap, agents, seen>>

(* initiate_handoff, back from Slack with the thread's thread_ts: the      *)
(* session enters the handoff and the thread is mapped, here and in Redis, *)
(* where the HSET may fail unnoticed.                                      *)
HandoffCreated(t) ==
  LET w == creating[t].worker
  IN /\ creating[t] # None
     /\ slack[t] # "none"
     /\ creating' = [creating EXCEPT ![t] = None]
     /\ localMap' = [localMap EXCEPT ![w] = @ \cup {t}]
     /\ \/ redisMap' = IF redis THEN redisMap \cup {t} ELSE redisMap
        \/ "redis" \in Faults /\ UNCHANGED redisMap
     /\ SaveSession(w, [session[w] EXCEPT !.active = TRUE, !.thread = t])
     /\ UNCHANGED <<visitor, slack, agents, seen>>

\* The call fails, or its answer is lost after the thread was posted.
HandoffFails(t) ==
  /\ "slack" \in Faults
  /\ creating[t] # None
  /\ creating' = [creating EXCEPT ![t] = None]
  /\ SaveSession(creating[t].worker, session[creating[t].worker])
  /\ UNCHANGED <<visitor, slack, localMap, redisMap, agents, seen>>

-----------------------------------------------------------------------------
\* The thread's session is found here, or else in Redis.
Mapped(t, w) == t \in localMap[w] \cup redisMap

\* The visitor's worker is there to handle an event published now.
Attended == \E w \in Workers :
  registered[w] # 0 /\ loading[w] = <<>> /\ w \in listening

\* Slip: the newest event is handled first.
PublishNewestFirst(event) ==
  /\ inbox' = [w \in Workers |->
       IF w \in listening THEN <<event>> \o inbox[w] ELSE inbox[w]]
  /\ calm' = (calm /\ Attended)

\* publish_agent_event: Redis hands a copy to every live subscriber.
Publish(event) ==
  /\ inbox' = [w \in Workers |->
       IF w \in listening THEN Append(inbox[w], event) ELSE inbox[w]]
  /\ calm' = (calm /\ Attended)

\* _deliver_agent_message on worker w, for a session it may not have (yet).
Heard(w, reply) ==
  IF session[w] = None THEN None
  ELSE [session[w] EXCEPT !.heard = @ \cup {reply}, !.joined = TRUE]

\* Slip: the first message only announces the agent.
ShownOnceJoined(w, reply) ==
  IF at = w /\ session[w].joined THEN Append(shown, reply) ELSE shown

Shown(w, reply) == IF at = w THEN Append(shown, reply) ELSE shown

\* Slip: the agent leaves, the handoff stays.
ReturnedStillActive(w) ==
  IF session[w] = None THEN None ELSE [session[w] EXCEPT !.joined = FALSE]

\* _deliver_handoff_resolved: whatever thread the session is in.
Returned(w) ==
  IF session[w] = None THEN None
  ELSE [session[w] EXCEPT !.active = FALSE, !.joined = FALSE]

(* An agent writes in thread t, or puts a check mark on it, and Slack hands *)
(* the event to the client of worker w, which acknowledges it and handles   *)
(* it in a task of its own.                                                 *)
Going(n) == act[n] # None /\ act[n].stage \in {"asking", "publishing"}

AgentActs(type, t, w) ==
  /\ slack[t] # "none"
  /\ w \in started
  /\ events < MaxEvents
  /\ events' = events + 1
  /\ act' = [act EXCEPT ![events + 1] =
       [type |-> type, thread |-> t, worker |-> w, stage |-> "asking",
        failed |-> FALSE, rivals |-> {n \in Acts : Going(n)}]]
  /\ UNCHANGED <<session, saved, visitor, routing, started, listening, inbox, seen>>

\* Act n's task is at this stage.
Stands(n, stage) == act[n] # None /\ act[n].stage = stage

\* A reply is done with once it is published or delivered.
AfterTold(n) == IF act[n].type = "agent_message" THEN "over" ELSE "clearing"

Moves(n, stage) == act' = [act EXCEPT ![n].stage = stage]

\* _get_support_channel_id fails, or no session is found: the act is dropped.
Dropped(n) ==
  /\ Stands(n, "asking")
  /\ \/ ~Mapped(act[n].thread, act[n].worker)
     \/ "slack" \in Faults
     \/ "redis" \in Faults /\ act[n].thread \notin localMap[act[n].worker]
  /\ Moves(n, "over")
  /\ UNCHANGED <<session, saved, visitor, routing, started, listening, inbox,
                 events, seen>>

\* get_session_for_thread: found, and there is a Redis to publish to.
Finds(n) ==
  /\ redis
  /\ Stands(n, "asking")
  /\ Mapped(act[n].thread, act[n].worker)
  /\ Moves(n, "publishing")
  /\ UNCHANGED <<session, saved, visitor, routing, started, listening, inbox,
                 events, seen>>

(* Without Redis the session found is told at once, on this worker.        *)
DeliversHere(n) ==
  LET w     == act[n].worker
      reply == act[n].type = "agent_message"
  IN /\ ~redis
     /\ Stands(n, "asking")
     /\ Mapped(act[n].thread, w)
     /\ Moves(n, AfterTold(n))
     /\ session' = [session EXCEPT ![w] = IF reply THEN Heard(w, n) ELSE Returned(w)]
     /\ shown' = IF reply /\ registered[w] # 0 THEN Shown(w, n) ELSE shown
     /\ routed' = IF reply THEN routed \cup {n} ELSE routed
     /\ UNCHANGED <<saved, visitor, routing, started, listening, inbox, events, calm>>

\* publish_agent_event ...
Publishes(n) ==
  /\ Stands(n, "publishing")
  /\ Publish([type |-> act[n].type, thread |-> act[n].thread, act |-> n])
  /\ Moves(n, AfterTold(n))
  /\ routed' = IF act[n].type = "agent_message" THEN routed \cup {n} ELSE routed
  /\ UNCHANGED <<session, saved, visitor, routing, started, listening, events, shown>>

(* ... which only logs that it failed: a reply is lost, and a check mark   *)
(* goes on as if the visitor had been told.                                *)
PublishFails(n) ==
  /\ "redis" \in Faults
  /\ Stands(n, "publishing")
  /\ act' = [act EXCEPT ![n].stage = AfterTold(n), ![n].failed = TRUE]
  /\ calm' = (calm /\ act[n].type = "agent_message")
  /\ UNCHANGED <<session, saved, visitor, routing, started, listening, inbox,
                 events, shown, routed>>

(* The rest of _handle_handoff_resolved: the mappings of this process and  *)
(* of Redis go, where the HDEL may fail unnoticed, ...                     *)
Clears(n) ==
  LET w == act[n].worker
      t == act[n].thread
  IN /\ Stands(n, "clearing")
     /\ Moves(n, "posting")
     /\ localMap' = [localMap EXCEPT ![w] = @ \ {t}]
     /\ \/ redisMap' = redisMap \ {t}
        \/ "redis" \in Faults /\ UNCHANGED redisMap
     /\ UNCHANGED <<session, saved, visitor, creating, slack, started, listening,
                    inbox, events, seen>>

\* ... and the thread is told "Handoff resolved", unless Slack fails.
Posts(n) ==
  /\ Stands(n, "posting")
  /\ Moves(n, "over")
  /\ \/ slack' = [slack EXCEPT ![act[n].thread] = "resolved"]
     \/ "slack" \in Faults /\ UNCHANGED slack
  /\ UNCHANGED <<session, saved, visitor, creating, localMap, redisMap, started,
                 listening, inbox, events, seen>>

Handles(n) == \/ Dropped(n) \/ Finds(n) \/ DeliversHere(n)
              \/ Publishes(n) \/ PublishFails(n) \/ Clears(n) \/ Posts(n)

(* _handle_redis_event: a worker that has no socket of the session drops   *)
(* its copy of the event; one that has (it may be dead) handles and saves. *)
Deliver(w) ==
  LET event == Head(inbox[w])
      after == IF event.type = "agent_left" THEN Returned(w)
                                            ELSE Heard(w, event.act)
  IN /\ w \in listening
     /\ inbox[w] # <<>>
     /\ inbox' = [inbox EXCEPT ![w] = Tail(@)]
     /\ IF registered[w] = 0
          THEN UNCHANGED <<session, saved, localMap, shown>>
          ELSE /\ IF after = None THEN UNCHANGED <<session, saved>>
                  ELSE SaveSession(w, after)
               /\ localMap' = IF event.type = "agent_left"
                                THEN [localMap EXCEPT ![w] = @ \ {event.thread}]
                                ELSE localMap
               /\ shown' = IF event.type = "agent_message"
                             THEN Shown(w, event.act) ELSE shown
     /\ UNCHANGED <<visitor, creating, slack, redisMap, started, listening,
                    events, act, routed, calm>>

\* The subscriber task of a worker ends ("pub/sub listener crashed").
ListenerDies(w) ==
  /\ "listener" \in Faults
  /\ w \in listening
  /\ listening' = listening \ {w}
  /\ inbox' = [inbox EXCEPT ![w] = <<>>]
  /\ calm' = (calm /\ inbox[w] = <<>>)
  /\ UNCHANGED <<session, saved, visitor, routing, started, events, act, shown, routed>>

\* A worker dies and is started again: memory, sockets and the tasks of its
\* acts are gone, and its Slack client and subscriber wait for the next connect.
Crash(w) ==
  /\ "crash" \in Faults
  /\ w \in started
  /\ session' = [session EXCEPT ![w] = None]
  /\ registered' = [registered EXCEPT ![w] = 0]
  /\ at' = IF at = w THEN None ELSE at
  /\ loading' = [loading EXCEPT ![w] = <<>>]
  /\ creating' = [t \in Threads |->
       IF creating[t] # None /\ creating[t].worker = w THEN None ELSE creating[t]]
  /\ localMap' = [localMap EXCEPT ![w] = {}]
  /\ started' = started \ {w}
  /\ listening' = listening \ {w}
  /\ inbox' = [inbox EXCEPT ![w] = <<>>]
  /\ act' = [n \in Acts |-> IF act[n] # None /\ act[n].worker = w
                             THEN [act[n] EXCEPT !.stage = "over"] ELSE act[n]]
  /\ calm' = (calm /\ inbox[w] = <<>> /\ ~CreatingAt(w))
  /\ UNCHANGED <<saved, connects, slack, redisMap, events, shown, routed>>

Step ==
  \/ VisitorLeaves
  \/ \E w \in Workers :
       \/ Register(w) \/ Adopt(w) \/ Cleanup(w) \/ UserMessage(w)
       \/ Deliver(w) \/ ListenerDies(w) \/ Crash(w)
       \/ \E t \in Threads : \/ ConfirmHandoff(w, t)
                             \/ \E type \in ActTypes : AgentActs(type, t, w)
  \/ \E t \in Threads : SlackPosts(t) \/ HandoffCreated(t) \/ HandoffFails(t)
  \/ \E n \in Acts : Handles(n)

Next == Step /\ UNCHANGED redis

Spec == Init /\ [][Next]_vars

\* The event loop runs every task that is ready: a subscriber handles what
\* it was sent, a connect gets the answer of its load, and the task of an act
\* the answer of each call it awaits.
FairSpec == /\ Spec
            /\ \A w \in Workers : /\ WF_vars(Deliver(w) /\ UNCHANGED redis)
                                  /\ WF_vars(Adopt(w) /\ UNCHANGED redis)
            /\ \A n \in Acts : WF_vars(Handles(n) /\ UNCHANGED redis)

-----------------------------------------------------------------------------
\* The visitor's worker has nothing of the session left to do.
Settled(w) == Current(w) /\ loading[w] = <<>> /\ session[w] # None /\ inbox[w] = <<>>

(* A session that is in a handoff is in one that is open: when an agent    *)
(* has put the check mark, and Slack says that the user returned to        *)
(* VoteBot, he has (slack.py: send_handoff_resolved_message).              *)
HandoffIsOpen(w) == session[w].active => slack[session[w].thread] = "open"

\* Every agent reply that found its session is in the history it has here.
HistoryHasReplies(w) == routed \subseteq session[w].heard

(* Without Redis there is one copy of the session per worker, and events   *)
(* are delivered where they arrive: no visitor is left in a handoff whose  *)
(* thread is closed, whatever his sockets and the workers do.              *)
DirectHandoffIsOpen ==
  ~redis => \A w \in Workers : session[w] # None => HandoffIsOpen(w)

(* With Redis, any workers and any moves between them, restarts included:  *)
(* so long as no event falls between two sockets of the visitor and no     *)
(* socket of his lingers on a worker he left, the worker he is on has the  *)
(* whole handoff state as soon as it has handled what it was sent.         *)
CalmHandoffSettles ==
  \A w \in Workers : redis /\ calm /\ Settled(w) => HandoffIsOpen(w) /\ HistoryHasReplies(w)

IsShown(r) == \E n \in 1..Len(shown) : shown[n] = r
Failed(n)  == act[n] # None /\ act[n].failed
Marks(n, t) == act[n] # None /\ act[n].type = "agent_left" /\ act[n].thread = t

(* A visitor who stays on his socket while agents act on any worker: each  *)
(* reply that found his session is shown to him, unless its publish fails, *)
(* which nobody is told (redis_store.py, publish_agent_event); ...         *)
RepliesArrive ==
  \A r \in Acts : Stands(r, "publishing") /\ act[r].type = "agent_message"
    ~> at = None \/ IsShown(r) \/ Failed(r)

(* ... once each; and he sees one before an earlier one only if it was     *)
(* written while the earlier one was still on its way to the channel.      *)
ShownInOrder ==
  \A m, n \in 1..Len(shown) : m < n =>
    /\ shown[m] # shown[n]
    /\ shown[m] > shown[n] => shown[n] \in act[shown[m]].rivals

(* A check mark brings him back to VoteBot, unless its publish failed: the *)
(* thread is then told so, but the visitor is not.                         *)
ResolvedReturns ==
  \A t \in Threads : slack[t] = "resolved"
    ~> \/ \A w \in Workers : at = w /\ session[w] # None /\ session[w].thread = t
            => ~session[w].active
       \/ \E n \in Acts : Marks(n, t) /\ Failed(n)

(* agent_left ends whatever handoff the session is in.  It is still the    *)
(* one the agents marked, unless they marked a thread twice: a visitor on  *)
(* one socket who is no longer in his handoff had a check mark on it.      *)
OnlyItsMarkEnds ==
  \A w \in Workers :
    session[w] # None /\ session[w].thread # None /\ ~session[w].active =>
      \/ \E n \in Acts : Marks(n, session[w].thread)
      \/ \E t \in Threads, m, n \in Acts : m # n /\ Marks(m, t) /\ Marks(n, t)

(* "Handoff resolved - User returned to VoteBot" (slack.py).               *)
SettledIsOpen == \A w \in Workers : Settled(w) => HandoffIsOpen(w)
=============================================================================
