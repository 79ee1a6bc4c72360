----------------------------- MODULE ServicesProofs -----------------------------
(***************************************************************************)
(* Proofs about the parts of Services, for any values of the constants that*)
(* ServicesAssumption allows: for each part an inductive invariant, which  *)
(* the last section lifts to the whole.                                    *)
(***************************************************************************)
EXTENDS Services, ListLemmas

-----------------------------------------------------------------------------
(* StartUp: its variables have their names here.                           *)

conn       == v1
registered == v2
started    == v3
sockets    == v4
pubsub     == v5
subscribed == v6
reading    == v7
task       == v8
deafened   == v9
collided   == v10

Goes(c) == conn[c] \in {"subscribing", "serving", "closed"}

\* Sockets are registered from accept until the endpoint's clean-up.
Registration ==
  registered = {c \in Connections :
                  conn[c] \in {"loading", "starting", "subscribing", "serving", "broken"}}

\* Slack is there for everybody who is past its start.
Reached ==
  /\ \A c \in Connections : Goes(c) => started
  /\ started => sockets # {}

\* Every subscription is of a connect that opened a Slack socket.
Opened ==
  /\ subscribed \subseteq sockets
  /\ \A c \in Connections : conn[c] = "subscribing" => c \in sockets \ subscribed
  /\ \A c \in Connections : conn[c] \in {"off", "loading", "starting"} => c \notin subscribed

\* Two listeners that met are of two such connects.
MetOfTwo == collided => \E c, d \in sockets : c # d

\* While nothing failed, the last subscription is made or about to be ...
OnItsWay ==
  /\ \A c \in Connections : conn[c] = "subscribing" => pubsub # None
  /\ ~deafened /\ pubsub # None => pubsub \in subscribed \/ conn[pubsub] = "subscribing"

\* ... and somebody reads one, or will.
Heard ==
  ~deafened /\ ~collided /\ started =>
    reading # {} \/ \E c \in Connections : conn[c] = "subscribing"

\* But for a collision, there is one listener: the task's, of the last subscription.
OneListener == ~collided => reading = {} \/ (reading = {task} /\ task = pubsub)

SInv ==
  /\ Start!TypeOK /\ Registration /\ Reached /\ Opened /\ MetOfTwo
  /\ OnItsWay /\ Heard /\ OneListener

LEMMA StartInvInit ==
  ASSUME Start!Init
  PROVE  SInv
<1> USE DEF conn, registered, started, sockets, pubsub, subscribed, reading, task,
            deafened, collided, Goes
<1>1. Start!TypeOK
  BY DEF Start!Init, Start!TypeOK, Start!Phases
<1> QED BY <1>1 DEF Start!Init, SInv, Registration, Reached, Opened, MetOfTwo, OnItsWay, Heard,
                    OneListener

(* Every step of a connect, a listener or a visitor who leaves keeps it.   *)
LEMMA StartInvStep ==
  ASSUME Start!Parameters, SInv, [Start!Next]_(Start!vars)
  PROVE  SInv'
<1> USE DEF conn, registered, started, sockets, pubsub, subscribed, reading, task,
            deafened, collided
<1>0. Start!TypeOK
  BY DEF SInv
<1>1. ASSUME NEW c \in Connections, Start!Accept(c)
      PROVE  SInv'
  <2>1. conn' = [conn EXCEPT ![c] = "loading"] /\ conn[c] = "off"
    BY <1>1 DEF Start!Accept, Start!Goes
  <2>2. Start!TypeOK'
    BY <1>0, <1>1, <2>1
       DEF Start!TypeOK, Start!Accept, Start!ListenersUnchanged, Start!Phases
  <2>3. Registration'
    BY <1>0, <1>1, <2>1 DEF SInv, Registration, Start!TypeOK, Start!Accept
  <2>4. Reached' /\ OnItsWay' /\ Heard' /\ OneListener'
    BY <1>0, <1>1, <2>1 DEF SInv, Reached, OnItsWay, Heard, OneListener, Goes, Start!TypeOK,
                            Start!Accept, Start!ListenersUnchanged
  <2>5. Opened' /\ MetOfTwo'
    BY <1>0, <1>1, <2>1 DEF SInv, Opened, MetOfTwo, Start!TypeOK, Start!Accept,
                            Start!ListenersUnchanged
  <2> QED BY <2>2, <2>3, <2>4, <2>5 DEF SInv
<1>2. ASSUME NEW c \in Connections, Start!Ensure(c)
      PROVE  SInv'
  <2>1. /\ conn' = [conn EXCEPT ![c] = IF started THEN "serving" ELSE "starting"]
        /\ conn[c] = "loading"
    BY <1>2 DEF Start!Ensure, Start!Goes
  <2>2. Start!TypeOK'
    BY <1>0, <1>2, <2>1
       DEF Start!TypeOK, Start!Ensure, Start!ListenersUnchanged, Start!Phases
  <2>3. Registration'
    BY <1>0, <1>2, <2>1 DEF SInv, Registration, Start!TypeOK, Start!Ensure
  <2>4. Reached' /\ OnItsWay' /\ Heard' /\ OneListener'
    BY <1>0, <1>2, <2>1 DEF SInv, Reached, OnItsWay, Heard, OneListener, Goes, Start!TypeOK,
                            Start!Ensure, Start!ListenersUnchanged
  <2>5. Opened' /\ MetOfTwo'
    BY <1>0, <1>2, <2>1 DEF SInv, Opened, MetOfTwo, Start!TypeOK, Start!Ensure,
                            Start!ListenersUnchanged
  <2> QED BY <2>2, <2>3, <2>4, <2>5 DEF SInv
<1>3. ASSUME NEW c \in Connections, Start!SlackConnects(c)
      PROVE  SInv'
  <2>1. /\ conn[c] = "starting"
        /\ conn' = [conn EXCEPT ![c] = IF task # None THEN "serving" ELSE "subscribing"]
        /\ pubsub' = IF task # None THEN pubsub ELSE c
        /\ started' = TRUE /\ sockets' = sockets \cup {c}
        /\ UNCHANGED <<registered, subscribed, reading, task, deafened, collided>>
    BY <1>3 DEF Start!SlackConnects, Start!Goes
  <2>2. Start!TypeOK'
    BY <1>0, <2>1 DEF Start!TypeOK, Start!Phases
  <2>3. Registration'
    BY <1>0, <2>1 DEF SInv, Registration, Start!TypeOK
  <2>4. Reached' /\ OnItsWay'
    BY <1>0, <2>1 DEF SInv, Reached, OnItsWay, Goes, Start!TypeOK, Start!Parameters
  <2>5. Heard'
    <3>1. CASE task = None
      <4>1. conn'[c] = "subscribing"
        BY <1>0, <2>1, <3>1 DEF Start!TypeOK
      <4> QED BY <4>1 DEF Heard
    <3>2. CASE task # None
      <4>1. reading' # {}
        BY <1>0, <2>1, <3>2 DEF Start!TypeOK
      <4> QED BY <4>1 DEF Heard
    <3> QED BY <3>1, <3>2
  <2>6. OneListener'
    <3>1. CASE task = None
      <4>1. reading # {task}
        BY <1>0, <3>1 DEF Start!TypeOK, Start!Parameters
      <4> QED BY <2>1, <4>1 DEF SInv, OneListener
    <3>2. CASE task # None
      BY <2>1, <3>2 DEF SInv, OneListener
    <3> QED BY <3>1, <3>2
  <2>7. Opened' /\ MetOfTwo'
    BY <1>0, <2>1 DEF SInv, Opened, MetOfTwo, Start!TypeOK
  <2> QED BY <2>2, <2>3, <2>4, <2>5, <2>6, <2>7 DEF SInv
<1>4. ASSUME NEW c \in Connections, Start!SlackFails(c)
      PROVE  SInv'
  <2>1. conn' = [conn EXCEPT ![c] = "broken"] /\ conn[c] = "starting" /\ started' = started
    BY <1>4 DEF Start!SlackFails, Start!StartedAfterFailure, Start!Goes
  <2>2. Start!TypeOK'
    BY <1>0, <1>4, <2>1
       DEF Start!TypeOK, Start!SlackFails, Start!ListenersUnchanged, Start!Phases
  <2>3. Registration'
    BY <1>0, <1>4, <2>1 DEF SInv, Registration, Start!TypeOK, Start!SlackFails
  <2>4. Reached' /\ OnItsWay' /\ Heard' /\ OneListener'
    BY <1>0, <1>4, <2>1 DEF SInv, Reached, OnItsWay, Heard, OneListener, Goes, Start!TypeOK,
                            Start!SlackFails, Start!ListenersUnchanged
  <2>5. Opened' /\ MetOfTwo'
    BY <1>0, <1>4, <2>1 DEF SInv, Opened, MetOfTwo, Start!TypeOK, Start!SlackFails,
                            Start!ListenersUnchanged
  <2> QED BY <2>2, <2>3, <2>4, <2>5 DEF SInv
<1>5. ASSUME NEW c \in Connections, Start!Subscribed(c)
      PROVE  SInv'
  <2>1. /\ conn[c] = "subscribing" /\ conn' = [conn EXCEPT ![c] = "serving"]
        /\ subscribed' = subscribed \cup {c}
        /\ collided' = (collided \/ pubsub \in reading)
        /\ task' = IF pubsub \in reading \/ pubsub \notin subscribed' THEN None ELSE pubsub
        /\ \/ reading' = IF pubsub \in subscribed' THEN reading \cup {pubsub} ELSE reading
           \/ /\ pubsub \in reading
              /\ reading' = reading \ {pubsub}
        /\ UNCHANGED <<registered, started, sockets, pubsub, deafened>>
    BY <1>5 DEF Start!Subscribed, Start!Goes
  <2>2. Start!TypeOK'
    BY <1>0, <2>1 DEF Start!TypeOK, Start!Phases
  <2>3. Registration'
    BY <1>0, <2>1 DEF SInv, Registration, Start!TypeOK
  <2>4. Reached'
    BY <1>0, <2>1 DEF SInv, Reached, Goes, Start!TypeOK
  <2>5. OnItsWay'
    BY <1>0, <2>1 DEF SInv, OnItsWay, Start!TypeOK
  <2>6. Heard'
    <3>1. CASE deafened' \/ collided'
      BY <3>1 DEF Heard
    <3>2. CASE ~deafened' /\ ~collided' /\ pubsub \in subscribed'
      BY <2>1, <3>2 DEF Heard
    <3>3. CASE ~deafened' /\ ~collided' /\ pubsub \notin subscribed'
      <4>1. pubsub # None /\ pubsub \in Connections /\ ~deafened
        BY <1>0, <2>1, <3>3 DEF SInv, OnItsWay, Start!TypeOK
      <4>2. conn[pubsub] = "subscribing" /\ pubsub # c
        BY <2>1, <3>3, <4>1 DEF SInv, OnItsWay
      <4>3. conn'[pubsub] = "subscribing"
        BY <1>0, <2>1, <4>1, <4>2 DEF Start!TypeOK
      <4> QED BY <4>1, <4>3 DEF Heard
    <3> QED BY <3>1, <3>2, <3>3
  <2>7. OneListener'
    <3> SUFFICES ASSUME ~collided'
                 PROVE  reading' = {} \/ (reading' = {task'} /\ task' = pubsub')
      BY DEF OneListener
    <3>1. ~collided /\ pubsub \notin reading
      BY <2>1
    <3>2. reading = {}
      BY <3>1 DEF SInv, OneListener
    <3>3. CASE pubsub \in subscribed'
      BY <2>1, <3>1, <3>2, <3>3
    <3>4. CASE pubsub \notin subscribed'
      BY <2>1, <3>1, <3>2, <3>4
    <3> QED BY <3>3, <3>4
  <2>8. Opened'
    BY <1>0, <2>1 DEF SInv, Opened, Start!TypeOK
  <2>9. MetOfTwo'
    <3>1. CASE pubsub \in reading
      <4>1. pubsub \in sockets /\ pubsub # c /\ c \in sockets
        BY <1>0, <2>1, <3>1 DEF SInv, Opened, Start!TypeOK
      <4> QED BY <2>1, <4>1 DEF MetOfTwo
    <3>2. CASE pubsub \notin reading
      BY <2>1, <3>2 DEF SInv, MetOfTwo
    <3> QED BY <3>1, <3>2
  <2> QED BY <2>2, <2>3, <2>4, <2>5, <2>6, <2>7, <2>8, <2>9 DEF SInv
<1>6. ASSUME NEW c \in Connections, Start!SubscribeFails(c)
      PROVE  SInv'
  <2>1. conn' = [conn EXCEPT ![c] = "broken"] /\ conn[c] = "subscribing" /\ deafened' = TRUE
    BY <1>6 DEF Start!SubscribeFails, Start!Goes
  <2>2. Start!TypeOK'
    BY <1>0, <1>6, <2>1 DEF Start!TypeOK, Start!SubscribeFails, Start!Phases
  <2>3. Registration'
    BY <1>0, <1>6, <2>1 DEF SInv, Registration, Start!TypeOK, Start!SubscribeFails
  <2>4. Reached' /\ OnItsWay' /\ Heard' /\ OneListener'
    BY <1>0, <1>6, <2>1 DEF SInv, Reached, OnItsWay, Heard, OneListener, Goes, Start!TypeOK,
                            Start!SubscribeFails
  <2>5. Opened' /\ MetOfTwo'
    BY <1>0, <1>6, <2>1 DEF SInv, Opened, MetOfTwo, Start!TypeOK, Start!SubscribeFails
  <2> QED BY <2>2, <2>3, <2>4, <2>5 DEF SInv
<1>7. ASSUME NEW p \in Connections, Start!ListenerCrashes(p)
      PROVE  SInv'
  <2>1. Start!TypeOK'
    BY <1>0, <1>7 DEF Start!TypeOK, Start!ListenerCrashes
  <2>2. Registration' /\ Reached' /\ OnItsWay' /\ Heard'
    BY <1>7 DEF SInv, Registration, Reached, OnItsWay, Heard, Goes, Start!ListenerCrashes
  <2>4. Opened' /\ MetOfTwo'
    BY <1>7 DEF SInv, Opened, MetOfTwo, Start!ListenerCrashes
  <2>3. OneListener'
    BY <1>7 DEF SInv, OneListener, Start!ListenerCrashes
  <2> QED BY <2>1, <2>2, <2>3, <2>4 DEF SInv
<1>8. ASSUME NEW c \in Connections, Start!Leave(c)
      PROVE  SInv'
  <2>1. conn' = [conn EXCEPT ![c] = "closed"] /\ conn[c] = "serving"
    BY <1>8 DEF Start!Leave, Start!Goes
  <2>2. Start!TypeOK'
    BY <1>0, <1>8, <2>1
       DEF Start!TypeOK, Start!Leave, Start!ListenersUnchanged, Start!Phases
  <2>3. Registration'
    BY <1>0, <1>8, <2>1 DEF SInv, Registration, Start!TypeOK, Start!Leave
  <2>4. Reached' /\ OnItsWay' /\ Heard' /\ OneListener'
    BY <1>0, <1>8, <2>1 DEF SInv, Reached, OnItsWay, Heard, OneListener, Goes, Start!TypeOK,
                            Start!Leave, Start!ListenersUnchanged
  <2>5. Opened' /\ MetOfTwo'
    BY <1>0, <1>8, <2>1 DEF SInv, Opened, MetOfTwo, Start!TypeOK, Start!Leave,
                            Start!ListenersUnchanged
  <2> QED BY <2>2, <2>3, <2>4, <2>5 DEF SInv
<1>9. CASE UNCHANGED Start!vars
  BY <1>9 DEF Start!vars, SInv, Start!TypeOK, Registration, Reached, Opened, MetOfTwo, OnItsWay,
              Heard, OneListener, Goes
<1> QED BY <1>1, <1>2, <1>3, <1>4, <1>5, <1>6, <1>7, <1>8, <1>9 DEF Start!Next

(* With the invariant, a worker that served somebody hears its agents,     *)
(* unless something failed or two of its listeners met.                    *)
LEMMA HearsByInv ==
  ASSUME SInv
  PROVE  Start!HearsUnlessBroken /\ Start!OnlyFailedConnectsLeak
<1> USE DEF conn, registered, started, sockets, pubsub, subscribed, reading, task,
            deafened, collided
<1>1. ASSUME Start!Settled, ~deafened, ~collided,
             \E c \in Connections : conn[c] \in {"serving", "closed"}
      PROVE  reading # {} /\ sockets # {}
  <2>1. started /\ sockets # {}
    BY <1>1 DEF SInv, Reached, Goes
  <2>2. \A c \in Connections : conn[c] # "subscribing"
    BY <1>1 DEF Start!Settled
  <2> QED BY <1>1, <2>1, <2>2 DEF SInv, Heard
<1>2. (\E p, q \in reading : p # q) => collided
  BY DEF SInv, OneListener
<1>3. Start!OnlyFailedConnectsLeak
  <2> SUFFICES ASSUME Start!Settled, NEW c \in Connections
               PROVE  c \in registered <=> conn[c] \in {"serving", "broken"}
    BY DEF Start!OnlyFailedConnectsLeak
  <2>1. conn[c] \in {"off", "serving", "broken", "closed"}
    BY DEF Start!Settled
  <2> QED BY <2>1 DEF SInv, Registration
<1>4. Start!HearsUnlessBroken
  <2>1. collided => \E c, d \in sockets : c # d
    BY DEF SInv, MetOfTwo
  <2> QED BY <1>1, <1>2, <2>1 DEF Start!HearsUnlessBroken
<1> QED BY <1>3, <1>4

-----------------------------------------------------------------------------
(* PartyRoster: parties is v1, roster v2, stale v3, refresh v4, since v5,   *)
(* visitor v6, began v7 and overtaken v8.                                  *)

\* What a download that nothing has overtaken will bring is not older than
\* the roster there is.
NotOlder ==
  /\ v2 # None => v2.knows <= v1
  /\ \A v \in Visitors : Roster!Downloading(v) =>
       /\ v7[v] <= v1
       /\ v2 = None \/ v \in v8 \/ v2.knows <= v7[v]
  /\ v4 = "running" =>
       /\ v5 <= v1
       /\ v2 = None \/ Roster!Refresh \in v8 \/ v2.knows <= v5

RosterInv == Roster!TypeOK /\ NotOlder

LEMMA RosterInit ==
  ASSUME Roster!Parameters, Roster!Init
  PROVE  RosterInv
<1>1. 0 \in 0 .. MaxChanges
  BY DEF Roster!Parameters
<1>2. Roster!TypeOK
  BY <1>1 DEF Roster!Init, Roster!TypeOK
<1>3. NotOlder
  BY DEF Roster!Init, NotOlder, Roster!Downloading
<1> QED BY <1>2, <1>3 DEF RosterInv

(* A download that ends and is kept overtakes the others.                  *)
LEMMA KeepsTheOrder ==
  ASSUME Roster!Parameters, RosterInv, NEW from \in 0 .. MaxChanges, from <= v1,
         NEW new \in Roster!Downloaded(from), NEW by \in Visitors \cup {Roster!Refresh},
         Roster!Keep(new, by), v1' = v1, v7' = v7, v5' = v5,
         \A v \in Visitors : Roster!Downloading(v)' => Roster!Downloading(v) /\ v # by,
         v4' = "running" => v4 = "running" /\ by # Roster!Refresh
  PROVE  /\ v2' = new /\ v2' \in Roster!Rosters /\ v3' = FALSE
         /\ v8' \subseteq Visitors \cup {Roster!Refresh}
         /\ NotOlder'
<1>1. new \in Roster!Rosters /\ new.knows <= v1 /\ from <= new.knows
  <2>1. new.knows \in from .. v1 /\ v1 \in 0 .. MaxChanges /\ MaxChanges \in Nat
    BY DEF Roster!Downloaded, RosterInv, Roster!TypeOK, Roster!Parameters
  <2>2. new.knows \in 0 .. MaxChanges
    BY <2>1
  <2>3. new \in Roster!Rosters
    BY <2>2 DEF Roster!Downloaded, Roster!Rosters
  <2> QED BY <2>1, <2>3
<1>2. /\ v2' = new /\ v3' = FALSE
      /\ v8' = ({v \in Visitors : Roster!Downloading(v)}
                 \cup {r \in {Roster!Refresh} : v4 = "running"}) \ {by}
  BY DEF Roster!Keep
<1>3. ASSUME NEW v \in Visitors, Roster!Downloading(v)'
      PROVE  v7'[v] <= v1' /\ v \in v8'
  BY <1>2, <1>3 DEF RosterInv, NotOlder
<1>4. v4' = "running" => v5' <= v1' /\ Roster!Refresh \in v8'
  BY <1>2 DEF RosterInv, NotOlder
<1>5. NotOlder'
  BY <1>1, <1>2, <1>3, <1>4 DEF NotOlder
<1> QED BY <1>1, <1>2, <1>5

(* Each step keeps the order, and replaces the roster as it may.           *)
LEMMA RosterNext ==
  ASSUME Roster!Parameters, RosterInv, [Roster!Next]_(Roster!vars)
  PROVE  RosterInv' /\ Roster!Improves
<1> USE DEF Roster!Downloading, Roster!Refresh
<1>0. Roster!TypeOK /\ NotOlder /\ "refresh" \notin Visitors /\ MaxChanges \in Nat
  BY DEF RosterInv, Roster!Parameters
<1>1. ASSUME NEW v \in Visitors, v6[v] # "downloading", Roster!StartDownload(v),
             UNCHANGED <<v1, v2, v3, v4, v5>>
      PROVE  RosterInv' /\ Roster!Improves
  <2>1. /\ v6' = [v6 EXCEPT ![v] = "downloading"] /\ v7' = [v7 EXCEPT ![v] = v1]
        /\ v8' = v8 \ {v} /\ v2' = v2
    BY <1>1 DEF Roster!StartDownload
  <2>2. v2 = None \/ v2.knows <= v1
    BY <1>0 DEF NotOlder
  <2>3. v7'[v] = v1 /\ v1 <= v1 /\ \A w \in Visitors \ {v} : v7'[w] = v7[w] /\ v6'[w] = v6[w]
    BY <1>0, <2>1 DEF Roster!TypeOK
  <2>4. v8' \cap {"refresh"} = v8 \cap {"refresh"}
    BY <1>0, <2>1
  <2>5. NotOlder'
    BY <1>0, <1>1, <2>1, <2>2, <2>3, <2>4 DEF NotOlder
  <2> QED BY <1>0, <1>1, <2>1, <2>5 DEF RosterInv, Roster!TypeOK, Roster!Improves
<1>2. ASSUME NEW v \in Visitors, NEW state \in {"idle", "woken", "joined"},
             v6' = [v6 EXCEPT ![v] = state], UNCHANGED <<v1, v2, v3, v4, v5, v7, v8>>
      PROVE  RosterInv' /\ Roster!Improves
  BY <1>0, <1>2 DEF RosterInv, Roster!TypeOK, NotOlder, Roster!Improves
<1>3. ASSUME NEW v \in Visitors, Roster!Ask(v)
      PROVE  RosterInv' /\ Roster!Improves
  <2>1. CASE /\ v4' = "running" /\ v5' = v1 /\ v8' = v8 \ {"refresh"}
             /\ UNCHANGED <<v1, v2, v3, v6, v7>>
    <3>1. v2 = None \/ v2.knows <= v1
      BY <1>0 DEF NotOlder
    <3>2. \A w \in Visitors : v8' \cap {w} = v8 \cap {w}
      BY <1>0, <2>1
    <3>3. v1 <= v1
      BY <1>0 DEF Roster!TypeOK
    <3> QED BY <1>0, <2>1, <3>1, <3>2, <3>3
               DEF RosterInv, Roster!TypeOK, NotOlder, Roster!Improves
  <2>2. CASE /\ v6' = [v6 EXCEPT ![v] = IF v4 = "ended" THEN "woken" ELSE "joined"]
             /\ UNCHANGED <<v1, v2, v3, v4, v5, v7, v8>>
    BY <1>2, <2>2
  <2>3. CASE Roster!StartDownload(v) /\ UNCHANGED <<v1, v2, v3, v4, v5>>
    BY <1>1, <1>3, <2>3 DEF Roster!Ask
  <2> QED BY <1>3, <2>1, <2>2, <2>3 DEF Roster!Ask
<1>4. ASSUME NEW v \in Visitors, Roster!Woken(v)
      PROVE  RosterInv' /\ Roster!Improves
  BY <1>1, <1>2, <1>4 DEF Roster!Woken
<1>5. ASSUME NEW v \in Visitors, Roster!InlineEnds(v)
      PROVE  RosterInv' /\ Roster!Improves
  <2>1. /\ v6[v] = "downloading" /\ v6' = [v6 EXCEPT ![v] = "idle"]
        /\ UNCHANGED <<v1, v4, v5, v7>>
    BY <1>5 DEF Roster!InlineEnds
  <2>2. PICK new \in Roster!Downloaded(v7[v]) :
          IF Roster!InlineKeeps(new) THEN Roster!Keep(new, v) ELSE UNCHANGED <<v2, v3, v8>>
    BY <1>5 DEF Roster!InlineEnds
  <2>3. CASE new.whole /\ Roster!Keep(new, v)
    <3>1. v7[v] \in 0 .. MaxChanges /\ v7[v] <= v1
      BY <1>0, <2>1 DEF Roster!TypeOK, NotOlder
    <3>2. \A w \in Visitors : v6'[w] = "downloading" => v6[w] = "downloading" /\ w # v
      BY <1>0, <2>1 DEF Roster!TypeOK
    <3>3. v4' = "running" => v4 = "running" /\ v # "refresh"
      BY <1>0, <2>1
    <3>4. /\ v2' = new /\ v2' \in Roster!Rosters /\ v3' = FALSE
          /\ v8' \subseteq Visitors \cup {"refresh"} /\ NotOlder'
      BY <2>1, <2>3, <3>1, <3>2, <3>3, KeepsTheOrder
    <3>5. RosterInv'
      BY <1>0, <2>1, <3>4 DEF RosterInv, Roster!TypeOK
    <3>6. v8 \cap {v} = {} => v2 = None \/ new.knows >= v2.knows
      BY <1>0, <2>1, <3>1 DEF NotOlder, Roster!Downloaded, Roster!TypeOK, Roster!Rosters
    <3>7. v6'[v] = "idle"
      BY <1>0, <2>1 DEF Roster!TypeOK
    <3> QED BY <1>0, <2>1, <2>3, <3>4, <3>5, <3>6, <3>7 DEF Roster!Improves
  <2>4. CASE UNCHANGED <<v2, v3, v8>>
    BY <1>2, <2>1, <2>4
  <2> QED BY <2>2, <2>3, <2>4 DEF Roster!InlineKeeps
<1>6. CASE Roster!RefreshEnds
  <2>1. /\ v4 = "running" /\ v4' = "ended" /\ UNCHANGED <<v1, v5, v7>>
        /\ v6' = [v \in Visitors |-> IF v6[v] = "joined" THEN "woken" ELSE v6[v]]
    BY <1>6 DEF Roster!RefreshEnds
  <2>2. PICK new \in Roster!Downloaded(v5) :
          \/ Roster!RefreshReplaces(new) /\ Roster!Keep(new, "refresh")
          \/ ~Roster!RefreshReplaces(new) /\ v3' = FALSE /\ UNCHANGED <<v2, v8>>
    BY <1>6 DEF Roster!RefreshEnds
  <2>3. v6' \in [Visitors -> {"idle", "joined", "woken", "downloading"}]
        /\ \A w \in Visitors : v6'[w] = "downloading" => v6[w] = "downloading" /\ w # "refresh"
    BY <1>0, <2>1 DEF Roster!TypeOK
  <2>4. CASE new.whole /\ Roster!Keep(new, "refresh")
    <3>1. v5 \in 0 .. MaxChanges /\ v5 <= v1
      BY <1>0, <2>1 DEF Roster!TypeOK, NotOlder
    <3>2. /\ v2' = new /\ v2' \in Roster!Rosters /\ v3' = FALSE
          /\ v8' \subseteq Visitors \cup {"refresh"} /\ NotOlder'
      BY <2>1, <2>3, <2>4, <3>1, KeepsTheOrder
    <3>3. RosterInv'
      BY <1>0, <2>1, <2>3, <3>2 DEF RosterInv, Roster!TypeOK
    <3>4. v8 \cap {"refresh"} = {} => v2 = None \/ new.knows >= v2.knows
      BY <1>0, <2>1, <3>1 DEF NotOlder, Roster!Downloaded, Roster!TypeOK, Roster!Rosters
    <3> QED BY <2>1, <2>4, <3>2, <3>3, <3>4 DEF Roster!Improves
  <2>5. CASE v3' = FALSE /\ UNCHANGED <<v2, v8>>
    BY <1>0, <2>1, <2>3, <2>5 DEF RosterInv, Roster!TypeOK, NotOlder, Roster!Improves
  <2> QED BY <2>2, <2>4, <2>5 DEF Roster!RefreshReplaces
<1>7. CASE Roster!RefreshSettled
  BY <1>0, <1>7
     DEF Roster!RefreshSettled, RosterInv, Roster!TypeOK, NotOlder, Roster!Improves
<1>8. ASSUME NEW v \in Visitors, Roster!Leave(v)
      PROVE  RosterInv' /\ Roster!Improves
  BY <1>2, <1>8 DEF Roster!Leave
<1>9. CASE Roster!Age
  BY <1>0, <1>9 DEF Roster!Age, RosterInv, Roster!TypeOK, NotOlder, Roster!Improves
<1>10. CASE Roster!PartyChanges
  <2>1. v1' = v1 + 1 /\ v1' \in 0 .. MaxChanges /\ UNCHANGED <<v2, v3, v4, v5, v6, v7, v8>>
    BY <1>0, <1>10 DEF Roster!PartyChanges, Roster!TypeOK
  <2>2. /\ v2 # None => v2.knows \in Nat
        /\ v5 \in Nat /\ v1 \in Nat /\ \A w \in Visitors : v7[w] \in Nat
    BY <1>0 DEF Roster!TypeOK, Roster!Rosters
  <2>3. NotOlder'
    BY <1>0, <2>1, <2>2 DEF NotOlder
  <2> QED BY <1>0, <2>1, <2>3 DEF RosterInv, Roster!TypeOK, Roster!Improves
<1>11. CASE UNCHANGED Roster!vars
  BY <1>0, <1>11 DEF Roster!vars, RosterInv, Roster!TypeOK, NotOlder, Roster!Improves
<1> QED BY <1>3, <1>4, <1>5, <1>6, <1>7, <1>8, <1>9, <1>10, <1>11 DEF Roster!Next

-----------------------------------------------------------------------------
(* HealthProbe: lock is v1, health v2, poll v3, calls v4 and dropped v5.    *)

\* Who holds the lock calls; and the calls whose outcome is neither known nor
\* awaited are those of polls that were cancelled.
CallsAreCounted ==
  /\ \A p \in Polls : v3[p] = "calling" <=> v1 = p
  /\ v2 # None => v1 = None
  /\ v1 = None /\ v2 = None => v4 <= v5
  /\ v4 <= v5 + 1

ProbeInv == Probe!TypeOK /\ CallsAreCounted

LEMMA ProbeInit ==
  ASSUME Probe!Parameters, Probe!Init
  PROVE  ProbeInv
BY DEF Probe!Parameters, Probe!Init, ProbeInv, Probe!TypeOK, CallsAreCounted, Probe!Phases

LEMMA ProbeNext ==
  ASSUME Probe!Parameters, ProbeInv, [Probe!Next]_(Probe!vars)
  PROVE  ProbeInv'
<1>0. /\ MaxDrops \in Nat /\ None \notin Polls /\ None # "ok" /\ None # "failed"
      /\ 0 \in 0 .. MaxDrops /\ 0 \in 0 .. MaxDrops + 1 /\ 0 <= 0 /\ 0 <= 0 + 1
  <2>1. MaxDrops \in Nat /\ None \notin Polls /\ None # "ok" /\ None # "failed"
    BY DEF Probe!Parameters
  <2> QED BY <2>1
<1> USE DEF ProbeInv, Probe!TypeOK, CallsAreCounted, Probe!Phases
<1>1. ASSUME NEW p \in Polls, Probe!Arrive(p) PROVE ProbeInv'
  BY <1>0, <1>1 DEF Probe!Arrive
<1>2. ASSUME NEW p \in Polls, Probe!Enter(p) PROVE ProbeInv'
  <2>1. CASE v2 # None
    BY <1>0, <1>2, <2>1 DEF Probe!Enter, Probe!Remembered, Probe!Told
  <2>2. CASE v2 = None
    <3>1. /\ v3[p] = "waiting" /\ v1 = None /\ v3' = [v3 EXCEPT ![p] = "calling"]
          /\ v1' = p /\ v4' = v4 + 1 /\ UNCHANGED <<v2, v5>>
      BY <1>2, <2>2 DEF Probe!Enter, Probe!Remembered
    <3>2. v4 <= v5 /\ v4 \in 0 .. MaxDrops + 1 /\ v5 \in 0 .. MaxDrops
      BY <2>2, <3>1
    <3>4. v4' \in 0 .. MaxDrops + 1 /\ v4' <= v5' + 1
      <4> HIDE DEF ProbeInv
      <4> QED BY <1>0, <3>1, <3>2
    <3>3. \A q \in Polls : v3'[q] = "calling" <=> v1' = q
      BY <1>0, <3>1
    <3> QED BY <1>0, <2>2, <3>1, <3>2, <3>3, <3>4
  <2> QED BY <2>1, <2>2
<1>3. ASSUME NEW p \in Polls, Probe!CallEnds(p) PROVE ProbeInv'
  BY <1>0, <1>3 DEF Probe!CallEnds, Probe!Told
<1>4. ASSUME NEW p \in Polls, Probe!Cancelled(p) PROVE ProbeInv'
  <2>1. CASE v3[p] = "waiting" /\ UNCHANGED <<v1, v5>>
    BY <1>0, <1>4, <2>1 DEF Probe!Cancelled
  <2>2. CASE v3[p] = "calling" /\ v5 < MaxDrops /\ v1' = None /\ v5' = v5 + 1
    <3>1. v3' = [v3 EXCEPT ![p] = "idle"] /\ UNCHANGED <<v2, v4>> /\ v1 = p
      BY <1>4, <2>2 DEF Probe!Cancelled
    <3>2. v5 \in 0 .. MaxDrops /\ v4 \in 0 .. MaxDrops + 1 /\ v4 <= v5 + 1
      OBVIOUS
    <3>4. v5' \in 0 .. MaxDrops /\ v4 <= v5' /\ v4 <= v5' + 1
      <4> HIDE DEF ProbeInv
      <4> QED BY <1>0, <2>2, <3>2
    <3>3. \A q \in Polls : v3'[q] = "calling" <=> v1' = q
      BY <1>0, <2>2, <3>1
    <3> QED BY <1>0, <2>2, <3>1, <3>3, <3>4
  <2> QED BY <1>4, <2>1, <2>2 DEF Probe!Cancelled
<1>5. CASE Probe!Forget
  BY <1>0, <1>5 DEF Probe!Forget
<1>6. CASE UNCHANGED Probe!vars
  BY <1>6 DEF Probe!vars
<1> QED BY <1>1, <1>2, <1>3, <1>4, <1>5, <1>6 DEF Probe!Next

LEMMA CallsByInv ==
  ASSUME Probe!Parameters, ProbeInv
  PROVE  Probe!OneCallPerWindow
<1> USE DEF ProbeInv, Probe!TypeOK, CallsAreCounted
<1>1. \/ {p \in Polls : v3[p] = "calling"} = {}
      \/ {p \in Polls : v3[p] = "calling"} = {v1}
  BY DEF Probe!Parameters
<1>2. Probe!Cardinality({p \in Polls : v3[p] = "calling"})
        = Cardinality({p \in Polls : v3[p] = "calling"})
  BY DEF Probe!Cardinality, Cardinality
<1>3. Cardinality({p \in Polls : v3[p] = "calling"}) <= 1
  <2>1. Cardinality({v1}) = 1
    BY FS_Singleton
  <2>2. 0 <= 1 /\ 1 <= 1
    OBVIOUS
  <2> QED BY <1>1, <2>1, <2>2, FS_EmptySet, Zenon
<1> QED BY <1>2, <1>3 DEF Probe!OneCallPerWindow

-----------------------------------------------------------------------------
(* EmbeddingCache: vectors is v1, state v2, settled v3, awaits v4, peak v5  *)
(* and spoiled v6.                                                         *)

\* No text has two entries, and no request.
Apart(s) ==
  \A i, j \in DOMAIN s : i # j => s[i].text # s[j].text /\ s[i].request # s[j].request

RequestsOf(s) == {s[i].request : i \in DOMAIN s}
Under == {r \in Requests : Embedding!Running(r)}

\* What an entry's request may be; and the cache grows beyond its bound only
\* by requests that ran at once.
VectorsInv ==
  /\ Embedding!TypeOK
  /\ Apart(v1)
  /\ \A r \in RequestsOf(v1) : v2[r] # "unused"
  /\ Under \subseteq RequestsOf(v1)
  /\ \A r \in v3 : Embedding!Over(r) /\ (v2[r] = "failed" => r \notin RequestsOf(v1))
  /\ Len(v1) <= (IF v5 > Kept THEN v5 ELSE Kept)
  /\ Cardinality(Under) <= v5
  /\ ~v6

LEMMA CountIsCount == ASSUME NEW S PROVE Embedding!Cardinality(S) = Cardinality(S)
BY DEF Embedding!Cardinality, Cardinality

LEMMA ChosenIsChosen == ASSUME NEW s, NEW K PROVE Embedding!Chosen(s, K) = Chosen(s, K)
BY DEF Embedding!Chosen, Chosen

LEMMA EntryParts ==
  ASSUME NEW s \in Seq(Embedding!Entries)
  PROVE  \A i \in DOMAIN s : s[i].text \in Texts /\ s[i].request \in Requests
<1>1. \A i \in DOMAIN s : s[i] \in Embedding!Entries
  OBVIOUS
<1> QED BY <1>1 DEF Embedding!Entries

(* What is chosen of entries that are apart is apart, and has the requests *)
(* of the entries chosen.                                                  *)
LEMMA ChosenEntries ==
  ASSUME NEW s \in Seq(Embedding!Entries), Apart(s), NEW K, K \subseteq DOMAIN s
  PROVE  /\ Chosen(s, K) \in Seq(Embedding!Entries)
         /\ Apart(Chosen(s, K))
         /\ RequestsOf(Chosen(s, K)) = {s[k].request : k \in K}
         /\ \A i \in DOMAIN Chosen(s, K) : \E k \in K : Chosen(s, K)[i] = s[k]
         /\ IsFiniteSet(K) /\ Len(Chosen(s, K)) = Cardinality(K)
<1> DEFINE c == Chosen(s, K)
<1>1. c \in Seq(Embedding!Entries)
  BY ChosenInOrder
<1>2. DOMAIN c = 1 .. Len(c) /\ K \cap DOMAIN s = K
  BY <1>1
<1>3. /\ \A i \in 1 .. Len(c) : \E k \in K : c[i] = s[k]
      /\ \A k \in K : \E i \in 1 .. Len(c) : c[i] = s[k]
  <2>1. PICK f : Places(f, c, s, K)
    BY <1>2, ChosenInOrder
  <2> HIDE DEF c
  <2> QED BY <2>1 DEF Places
<1>4. Apart(c)
  <2> SUFFICES ASSUME NEW i \in 1 .. Len(c), NEW j \in 1 .. Len(c), i # j
               PROVE  c[i].text # c[j].text /\ c[i].request # c[j].request
    BY <1>2 DEF Apart
  <2>1. \E k, l \in K \cap DOMAIN s : k # l /\ c[i] = s[k] /\ c[j] = s[l]
    BY ChosenApart
  <2> QED BY <2>1 DEF Apart
<1>5. RequestsOf(c) = {s[k].request : k \in K}
  <2> HIDE DEF c
  <2>1. \A i \in DOMAIN c : c[i].request \in {s[k].request : k \in K}
    BY <1>2, <1>3
  <2>2. \A k \in K : s[k].request \in {c[i].request : i \in DOMAIN c}
    BY <1>2, <1>3
  <2> QED BY <2>1, <2>2 DEF RequestsOf
<1>6. IsFiniteSet(K) /\ Len(c) = Cardinality(K)
  BY <1>2, ChosenLength
<1> QED BY <1>1, <1>2, <1>3, <1>4, <1>5, <1>6

(* An entry of a new text and a new request is apart from the others.      *)
LEMMA OneMoreEntry ==
  ASSUME NEW s \in Seq(Embedding!Entries), Apart(s), NEW e \in Embedding!Entries,
         \A i \in DOMAIN s : s[i].text # e.text /\ s[i].request # e.request
  PROVE  /\ Append(s, e) \in Seq(Embedding!Entries)
         /\ Apart(Append(s, e))
         /\ RequestsOf(Append(s, e)) = RequestsOf(s) \cup {e.request}
         /\ Len(Append(s, e)) = Len(s) + 1
<1> DEFINE a == Append(s, e)
<1>1. PICK n \in Nat : n = Len(s)
  OBVIOUS
<1>2. /\ a \in Seq(Embedding!Entries) /\ Len(a) = n + 1 /\ DOMAIN a = 1 .. n + 1
      /\ a[n + 1] = e /\ DOMAIN s = 1 .. n
      /\ \A i \in 1 .. n : a[i] = s[i]
  BY <1>1
<1> HIDE DEF a
<1>3. \A i \in 1 .. n + 1 : i = n + 1 \/ (i \in 1 .. n /\ a[i] = s[i])
  BY <1>2
<1>4. Apart(a)
  BY <1>2, <1>3 DEF Apart
<1>5. n + 1 \in 1 .. n + 1 /\ 1 .. n \subseteq 1 .. n + 1
  OBVIOUS
<1>6. RequestsOf(a) = RequestsOf(s) \cup {e.request}
  BY <1>2, <1>3, <1>5 DEF RequestsOf
<1> QED BY <1>1, <1>2, <1>4, <1>6 DEF a

(* _trim keeps the entries whose request is not over, and the bound, but   *)
(* for those.                                                              *)
LEMMA TrimKeepsRunning ==
  ASSUME NEW s \in Seq(Embedding!Entries), Apart(s), NEW ended, Kept \in Nat,
         NEW R, IsFiniteSet(R), RequestsOf(s) \ ended \subseteq R
  PROVE  LET c == Embedding!Trimmed(s, ended)
         IN  /\ c \in Seq(Embedding!Entries) /\ Apart(c)
             /\ RequestsOf(c) \subseteq RequestsOf(s)
             /\ RequestsOf(s) \ ended \subseteq RequestsOf(c)
             /\ Len(c) <= Kept \/ Len(c) <= Cardinality(R)
<1> DEFINE over == {j \in DOMAIN s : s[j].request \in ended}
           Before(j) == {k \in over : k < j}
           gone == {j \in over : Cardinality(Before(j)) < Len(s) - Kept}
           left == DOMAIN s \ gone
           c == Chosen(s, left)
<1>1. Embedding!Trimmed(s, ended) = c
  BY CountIsCount, ChosenIsChosen DEF Embedding!Trimmed
<1>2. PICK n \in Nat : n = Len(s) /\ DOMAIN s = 1 .. n
  OBVIOUS
<1>3. IsFiniteSet(DOMAIN s) /\ Cardinality(DOMAIN s) = n
  <2>1. IsFiniteSet(1 .. n) /\ Cardinality(1 .. n) = n
    BY FS_Interval
  <2> QED BY <1>2, <2>1
<1>4. IsFiniteSet(gone) /\ (gone = over \/ Cardinality(gone) >= n - Kept)
  <2>1. IsFiniteSet(over) /\ over \subseteq Nat
    BY <1>2, <1>3, FS_Subset
  <2>2. n - Kept \in Int
    OBVIOUS
  <2> HIDE DEF over
  <2> QED BY <1>2, <2>1, <2>2, FirstFew
<1>5. gone \subseteq over /\ over \subseteq DOMAIN s /\ left \subseteq DOMAIN s
  OBVIOUS
<1>6. /\ c \in Seq(Embedding!Entries) /\ Apart(c)
      /\ RequestsOf(c) = {s[k].request : k \in left}
      /\ IsFiniteSet(left) /\ Len(c) = Cardinality(left)
  <2> HIDE DEF left
  <2> QED BY <1>5, ChosenEntries
<1>7. RequestsOf(c) \subseteq RequestsOf(s) /\ RequestsOf(s) \ ended \subseteq RequestsOf(c)
  <2>1. \A k \in DOMAIN s : s[k].request \notin ended => k \in left
    BY <1>5
  <2> HIDE DEF left, c
  <2> QED BY <1>5, <1>6, <2>1 DEF RequestsOf
<1>8. CASE Cardinality(gone) >= n - Kept
  <2>1. Cardinality(left) = n - Cardinality(gone) /\ Cardinality(gone) \in Nat
    <3>1. DOMAIN s \cap gone = gone
      BY <1>5
    <3> HIDE DEF gone
    <3> QED BY <1>3, <1>4, <3>1, FS_Difference, FS_CardinalityType
  <2>2. Len(c) <= Kept
    <3> HIDE DEF gone, left, c
    <3> QED BY <1>6, <1>8, <2>1
  <2> HIDE DEF c
  <2> QED BY <1>1, <1>6, <1>7, <2>2
<1>9. CASE gone = over
  <2>1. \A k \in left : s[k].request \in R
    BY <1>9 DEF RequestsOf
  <2> DEFINE f == [k \in left |-> s[k].request]
  <2>2. \A k, l \in left : f[k] = f[l] => k = l
    BY <1>5 DEF Apart
  <2>3. f \in Injection(left, R)
    BY <2>1, <2>2 DEF Injection, IsInjective
  <2>4. Cardinality(left) <= Cardinality(R)
    <3> HIDE DEF left, f
    <3> QED BY <2>3, FS_Injection
  <2> HIDE DEF c, left, gone
  <2> QED BY <1>1, <1>6, <1>7, <2>4
<1> QED BY <1>4, <1>8, <1>9

LEMMA VectorsParameters ==
  ASSUME Embedding!Parameters
  PROVE  Kept \in Nat \ {0} /\ IsFiniteSet(Requests) /\ None \notin Requests
         /\ Cardinality(Requests) \in Nat
<1>1. Kept \in Nat \ {0} /\ IsFiniteSet(Requests) /\ None \notin Requests
  BY DEF Embedding!Parameters, Embedding!IsFiniteSet, IsFiniteSet
<1> QED BY <1>1, FS_CardinalityType

LEMMA VectorsInit ==
  ASSUME Embedding!Parameters, Embedding!Init
  PROVE  VectorsInv
<1>1. v1 = <<>> /\ v2 = [r \in Requests |-> "unused"] /\ v3 = {} /\ v5 = 0 /\ v6 = FALSE
      /\ v4 = [c \in Callers |-> None]
  BY DEF Embedding!Init
<1>2. Cardinality(Requests) \in Nat /\ Cardinality({}) = 0
  BY VectorsParameters, FS_EmptySet
<1>3. Under = {} /\ RequestsOf(v1) = {} /\ Apart(v1) /\ Len(v1) = 0
  BY <1>1 DEF Under, Embedding!Running, RequestsOf, Apart
<1>4. Embedding!TypeOK
  <2>1. v5 \in 0 .. Embedding!Cardinality(Requests)
    BY <1>1, <1>2, CountIsCount
  <2>2. <<>> \in Seq(Embedding!Entries)
    OBVIOUS
  <2>3. v2 \in [Requests -> {"unused", "running", "done", "failed"}]
    BY <1>1
  <2> QED BY <1>1, <2>1, <2>2, <2>3, Zenon DEF Embedding!TypeOK
<1> QED BY <1>1, <1>2, <1>3, <1>4, VectorsParameters DEF VectorsInv

\* What the actions do with the requests' states: nothing is under way that
\* was not.
LEMMA FewerUnderWay ==
  ASSUME Embedding!Parameters, Under' \subseteq Under
  PROVE  Cardinality(Under') <= Cardinality(Under) /\ Cardinality(Under) \in Nat
         /\ Cardinality(Under') \in Nat
<1>1. IsFiniteSet(Under) /\ IsFiniteSet(Under')
  BY VectorsParameters, FS_Subset DEF Under
<1> QED BY <1>1, FS_Subset, FS_CardinalityType

(* A caller joins the request of his text.                                 *)
LEMMA JoinKeeps ==
  ASSUME Embedding!Parameters, VectorsInv, NEW c \in Callers, NEW i \in DOMAIN v1,
         v2[v1[i].request] # "failed",
         v1' = Append(Embedding!Without(v1, v1[i]), v1[i]),
         v4' = [v4 EXCEPT ![c] = v1[i].request],
         v6' = (v6 \/ v2[v1[i].request] = "failed"), UNCHANGED <<v2, v3, v5>>
  PROVE  VectorsInv'
<1> DEFINE e == v1[i]
           K == {j \in DOMAIN v1 : v1[j] # e}
           rest == Chosen(v1, K)
<1>1. v1 \in Seq(Embedding!Entries) /\ Apart(v1) /\ e \in Embedding!Entries
  BY DEF VectorsInv, Embedding!TypeOK
<1>2. K = DOMAIN v1 \ {i}
  BY <1>1 DEF Apart
<1>3. /\ rest \in Seq(Embedding!Entries) /\ Apart(rest)
      /\ RequestsOf(rest) = {v1[k].request : k \in K}
      /\ \A j \in DOMAIN rest : \E k \in K : rest[j] = v1[k]
      /\ Len(rest) = Cardinality(K)
  <2>1. K \subseteq DOMAIN v1
    OBVIOUS
  <2> HIDE DEF K
  <2> QED BY <1>1, <2>1, ChosenEntries
<1>4. Len(rest) = Len(v1) - 1
  <2>1. PICK n \in Nat : n = Len(v1) /\ DOMAIN v1 = 1 .. n
    BY <1>1
  <2>2. IsFiniteSet(1 .. n) /\ Cardinality(1 .. n) = n
    BY FS_Interval
  <2>3. Cardinality((1 .. n) \ {i}) = n - 1
    BY <2>1, <2>2, FS_RemoveElement
  <2> HIDE DEF rest, K
  <2> QED BY <1>2, <1>3, <2>1, <2>3
<1>5. \A j \in DOMAIN rest : rest[j].text # e.text /\ rest[j].request # e.request
  <2> HIDE DEF rest
  <2> QED BY <1>1, <1>2, <1>3 DEF Apart
<1>6. v1' = Append(rest, e)
  BY ChosenIsChosen DEF Embedding!Without
<1>7. /\ v1' \in Seq(Embedding!Entries) /\ Apart(v1')
      /\ RequestsOf(v1') = RequestsOf(rest) \cup {e.request}
      /\ Len(v1') = Len(v1)
  <2>1. Len(v1) \in Nat
    BY <1>1
  <2> HIDE DEF rest, e
  <2>2. /\ Append(rest, e) \in Seq(Embedding!Entries) /\ Apart(Append(rest, e))
        /\ RequestsOf(Append(rest, e)) = RequestsOf(rest) \cup {e.request}
        /\ Len(Append(rest, e)) = Len(rest) + 1
    BY <1>1, <1>3, <1>5, OneMoreEntry
  <2> QED BY <1>4, <1>6, <2>1, <2>2
<1>8. RequestsOf(v1') = RequestsOf(v1)
  <2> HIDE DEF rest
  <2> QED BY <1>2, <1>3, <1>7 DEF RequestsOf
<1>9. Embedding!TypeOK'
  <2>1. e.request \in Requests
    BY <1>1 DEF Embedding!Entries
  <2> QED BY <1>7, <2>1 DEF VectorsInv, Embedding!TypeOK
<1>10. Under' = Under /\ \A r \in Requests : Embedding!Over(r)' = Embedding!Over(r)
  BY DEF Under, Embedding!Running, Embedding!Over
<1>11. Apart(v1)' /\ RequestsOf(v1)' = RequestsOf(v1)
  BY <1>7, <1>8 DEF Apart, RequestsOf
<1> HIDE DEF e
<1> QED BY <1>7, <1>9, <1>10, <1>11 DEF VectorsInv, Embedding!TypeOK, Embedding!Over

(* A caller starts a request of a text that has none he could use.         *)
LEMMA StartKeeps ==
  ASSUME Embedding!Parameters, VectorsInv, NEW c \in Callers, NEW t \in Texts,
         \A i \in DOMAIN v1 : v1[i].text = t => v2[v1[i].request] = "failed",
         NEW r \in Requests \ Embedding!InUse,
         v1' = Embedding!Trimmed(
                 Append(Chosen(v1, {i \in DOMAIN v1 :
                                      v1[i].text # t \/ v2[v1[i].request] # "failed"}),
                        [text |-> t, request |-> r]),
                 {q \in Requests \ {r} : Embedding!Over(q)}),
         v2' = [v2 EXCEPT ![r] = "running"], v3' = v3 \ {r},
         v4' = [v4 EXCEPT ![c] = r],
         v5' = IF 1 + Cardinality(Under) > v5 THEN 1 + Cardinality(Under) ELSE v5,
         v6' = v6
  PROVE  VectorsInv'
<1> DEFINE K == {i \in DOMAIN v1 : v1[i].text # t \/ v2[v1[i].request] # "failed"}
           live == Chosen(v1, K)
           e == [text |-> t, request |-> r]
           s == Append(live, e)
           ended == {q \in Requests \ {r} : Embedding!Over(q)}
           R == Under \cup {r}
<1>1. v1 \in Seq(Embedding!Entries) /\ Apart(v1) /\ e \in Embedding!Entries
      /\ v2 \in [Requests -> {"unused", "running", "done", "failed"}]
      /\ v3 \subseteq Requests /\ v5 \in 0 .. Cardinality(Requests)
      /\ v4 \in [Callers -> Requests \cup {None}]
  BY CountIsCount DEF VectorsInv, Embedding!TypeOK, Embedding!Entries
<1>2. r \notin RequestsOf(v1) /\ r \notin Under /\ r \in Requests /\ v2[r] # "running"
  BY DEF Embedding!InUse, RequestsOf, Under, Embedding!Running
<1>3. /\ live \in Seq(Embedding!Entries) /\ Apart(live)
      /\ RequestsOf(live) = {v1[k].request : k \in K}
      /\ \A j \in DOMAIN live : \E k \in K : live[j] = v1[k]
  <2>1. K \subseteq DOMAIN v1
    OBVIOUS
  <2> HIDE DEF K
  <2> QED BY <1>1, <2>1, ChosenEntries
<1>4. \A k \in K : k \in DOMAIN v1 /\ v1[k].text # t /\ v1[k].request # r
  BY <1>2 DEF RequestsOf
<1>5. \A j \in DOMAIN live : live[j].text # e.text /\ live[j].request # e.request
  <2> HIDE DEF live, K
  <2> QED BY <1>3, <1>4
<1>6. /\ s \in Seq(Embedding!Entries) /\ Apart(s)
      /\ RequestsOf(s) = RequestsOf(live) \cup {r}
  <2>1. e.request = r
    OBVIOUS
  <2> HIDE DEF live, e
  <2> QED BY <1>1, <1>3, <1>5, <2>1, OneMoreEntry
<1>7. RequestsOf(live) \subseteq RequestsOf(v1) /\ Under \subseteq RequestsOf(live)
  <2>1. RequestsOf(live) \subseteq RequestsOf(v1)
    <3> HIDE DEF live
    <3> QED BY <1>3, <1>4 DEF RequestsOf
  <2>2. ASSUME NEW q \in Under PROVE q \in RequestsOf(live)
    <3>1. PICK i \in DOMAIN v1 : v1[i].request = q
      BY <2>2 DEF VectorsInv, RequestsOf
    <3>2. i \in K
      BY <2>2, <3>1 DEF Under, Embedding!Running
    <3> HIDE DEF live, K
    <3> QED BY <1>3, <3>1, <3>2
  <2> QED BY <2>1, <2>2
<1>8. RequestsOf(s) \ ended \subseteq R /\ R \subseteq RequestsOf(s) \ ended
  <2>1. \A q \in RequestsOf(v1) : q \in Requests /\ v2[q] # "unused"
    <3>1. \A i \in DOMAIN v1 : v1[i].request \in Requests
      BY <1>1, EntryParts
    <3>2. \A q \in RequestsOf(v1) : v2[q] # "unused"
      BY DEF VectorsInv
    <3> QED BY <3>1, <3>2 DEF RequestsOf
  <2>2. \A q \in Under : q \notin ended
    BY DEF Under, Embedding!Running, Embedding!Over
  <2>3. \A q \in RequestsOf(v1) : q \notin ended /\ q # r => q \in Under
    BY <1>1, <2>1 DEF Under, Embedding!Running, Embedding!Over
  <2>4. r \notin ended
    OBVIOUS
  <2> HIDE DEF s, live, ended
  <2> QED BY <1>6, <1>7, <2>2, <2>3, <2>4
<1>9. /\ IsFiniteSet(R) /\ Cardinality(R) = 1 + Cardinality(Under)
      /\ Cardinality(Under) \in Nat /\ Cardinality(R) <= Cardinality(Requests)
      /\ Cardinality(Requests) \in Nat
  <2>1. IsFiniteSet(Under) /\ IsFiniteSet(Requests) /\ R \subseteq Requests
    BY <1>2, VectorsParameters, FS_Subset DEF Under
  <2>2. Cardinality(Under) \in Nat /\ Cardinality(Requests) \in Nat
    BY <2>1, FS_CardinalityType
  <2>3. IsFiniteSet(R) /\ Cardinality(R) = Cardinality(Under) + 1
    BY <1>2, <2>1, FS_AddElement
  <2>4. Cardinality(R) <= Cardinality(Requests)
    <3> HIDE DEF R
    <3> QED BY <2>1, FS_Subset
  <2> QED BY <2>2, <2>3, <2>4
<1>10. /\ v1' \in Seq(Embedding!Entries) /\ Apart(v1')
       /\ RequestsOf(v1') \subseteq RequestsOf(s)
       /\ R \subseteq RequestsOf(v1')
       /\ Len(v1') <= Kept \/ Len(v1') <= Cardinality(R)
  <2>1. v1' = Embedding!Trimmed(s, ended)
    OBVIOUS
  <2>2. Kept \in Nat
    BY VectorsParameters
  <2> HIDE DEF s, ended, R
  <2>3. /\ Embedding!Trimmed(s, ended) \in Seq(Embedding!Entries)
        /\ Apart(Embedding!Trimmed(s, ended))
        /\ RequestsOf(Embedding!Trimmed(s, ended)) \subseteq RequestsOf(s)
        /\ RequestsOf(s) \ ended \subseteq RequestsOf(Embedding!Trimmed(s, ended))
        /\ \/ Len(Embedding!Trimmed(s, ended)) <= Kept
           \/ Len(Embedding!Trimmed(s, ended)) <= Cardinality(R)
    BY <1>6, <1>8, <1>9, <2>2, TrimKeepsRunning
  <2> QED BY <1>8, <2>1, <2>3
<1>11. Under' = R
  <2>1. v2'[r] = "running" /\ \A q \in Requests \ {r} : v2'[q] = v2[q]
    BY <1>1
  <2> QED BY <1>2, <2>1 DEF Under, Embedding!Running
<1>12. Apart(v1)' /\ RequestsOf(v1)' = RequestsOf(v1')
  BY <1>10 DEF Apart, RequestsOf
<1>13. v5' \in 0 .. Cardinality(Requests) /\ Cardinality(R) <= v5'
  <2> HIDE DEF R
  <2> QED BY <1>1, <1>9
<1>14. Embedding!TypeOK'
  <2> HIDE DEF s, ended, R
  <2> QED BY <1>1, <1>2, <1>10, <1>13, CountIsCount DEF Embedding!TypeOK, VectorsInv
<1>15. \A q \in RequestsOf(v1') : v2'[q] # "unused"
  <2>1. \A q \in RequestsOf(v1) : q \in Requests /\ v2[q] # "unused"
    <3>1. \A i \in DOMAIN v1 : v1[i].request \in Requests
      BY <1>1, EntryParts
    <3>2. \A q \in RequestsOf(v1) : v2[q] # "unused"
      BY DEF VectorsInv
    <3> QED BY <3>1, <3>2 DEF RequestsOf
  <2> HIDE DEF s, live
  <2> QED BY <1>1, <1>6, <1>7, <1>10, <2>1
<1>16. ASSUME NEW q \in v3'
       PROVE  Embedding!Over(q)' /\ (v2'[q] = "failed" => q \notin RequestsOf(v1'))
  <2>1. q \in v3 /\ q # r /\ v2'[q] = v2[q]
    BY <1>1, <1>16
  <2>2. Embedding!Over(q) /\ (v2[q] = "failed" => q \notin RequestsOf(v1))
    BY <2>1 DEF VectorsInv
  <2> HIDE DEF s, live
  <2> QED BY <1>6, <1>7, <1>10, <2>1, <2>2 DEF Embedding!Over
<1>17. Len(v1') <= (IF v5' > Kept THEN v5' ELSE Kept)
  <2>1. Len(v1') \in Nat /\ Kept \in Nat
    BY <1>10, VectorsParameters
  <2> HIDE DEF R, s
  <2> QED BY <1>1, <1>9, <1>10, <1>13, <2>1
<1> HIDE DEF R, s, live, ended, e, K
<1> QED BY <1>10, <1>11, <1>12, <1>13, <1>14, <1>15, <1>16, <1>17 DEF VectorsInv

(* A failed request leaves the cache when its callback runs.               *)
LEMMA SettledKeeps ==
  ASSUME Embedding!Parameters, VectorsInv, NEW r \in Requests, Embedding!Settled(r)
  PROVE  VectorsInv'
<1>1. /\ v1 \in Seq(Embedding!Entries) /\ Apart(v1) /\ Embedding!Over(r)
      /\ v3' = v3 \cup {r} /\ UNCHANGED <<v2, v4, v5, v6>>
  BY DEF VectorsInv, Embedding!TypeOK, Embedding!Settled
<1>2. Under' = Under /\ \A q \in Requests : Embedding!Over(q)' = Embedding!Over(q)
  BY <1>1 DEF Under, Embedding!Running, Embedding!Over
<1>3. CASE v2[r] # "failed"
  <2>1. v1' = v1
    BY <1>3 DEF Embedding!Settled
  <2>2. Apart(v1)' /\ RequestsOf(v1)' = RequestsOf(v1)
    BY <1>1, <2>1 DEF Apart, RequestsOf
  <2> QED BY <1>1, <1>2, <1>3, <2>1, <2>2 DEF VectorsInv, Embedding!TypeOK, Embedding!Over
<1>4. CASE v2[r] = "failed"
  <2> DEFINE K == {i \in DOMAIN v1 : v1[i].request # r}
             left == Chosen(v1, K)
  <2>1. v1' = left
    BY <1>4, ChosenIsChosen DEF Embedding!Settled
  <2>2. /\ left \in Seq(Embedding!Entries) /\ Apart(left)
        /\ RequestsOf(left) = {v1[k].request : k \in K}
        /\ IsFiniteSet(K) /\ Len(left) = Cardinality(K)
    <3>1. K \subseteq DOMAIN v1
      OBVIOUS
    <3> HIDE DEF K
    <3> QED BY <1>1, <3>1, ChosenEntries
  <2>3. RequestsOf(left) = RequestsOf(v1) \ {r}
    <3> HIDE DEF left
    <3> QED BY <2>2 DEF RequestsOf
  <2>4. Len(left) <= Len(v1) /\ Len(left) \in Nat /\ Len(v1) \in Nat
    <3>1. PICK n \in Nat : n = Len(v1) /\ DOMAIN v1 = 1 .. n
      BY <1>1
    <3>2. IsFiniteSet(1 .. n) /\ Cardinality(1 .. n) = n
      BY FS_Interval
    <3>3. Cardinality(K) <= n
      <4>1. K \in SUBSET (1 .. n)
        BY <3>1
      <4> HIDE DEF K
      <4> QED BY <3>2, <4>1, FS_Subset
    <3> HIDE DEF left, K
    <3> QED BY <2>2, <3>1, <3>3
  <2>5. Embedding!TypeOK'
    <3> HIDE DEF left
    <3> QED BY <1>1, <2>1, <2>2 DEF VectorsInv, Embedding!TypeOK
  <2>6. Apart(v1)' /\ RequestsOf(v1)' = RequestsOf(v1) \ {r} /\ Len(v1)' <= Len(v1)
    <3>1. Apart(v1)' = Apart(left) /\ RequestsOf(v1)' = RequestsOf(left)
      <4> HIDE DEF left
      <4> QED BY <2>1 DEF Apart, RequestsOf
    <3> HIDE DEF left
    <3> QED BY <2>1, <2>2, <2>3, <2>4, <3>1
  <2>7. Under \subseteq RequestsOf(v1) \ {r}
    BY <1>4 DEF VectorsInv, Under, Embedding!Running
  <2>8. Len(v1)' <= (IF v5' > Kept THEN v5' ELSE Kept)
    <3>1. v5 \in Int /\ Kept \in Int /\ Len(v1)' \in Nat /\ Len(v1) \in Nat
      <4>1. v5 \in 0 .. Cardinality(Requests)
        BY CountIsCount DEF VectorsInv, Embedding!TypeOK
      <4> HIDE DEF left
      <4> QED BY <2>1, <2>4, <4>1, VectorsParameters
    <3>2. Len(v1) <= (IF v5 > Kept THEN v5 ELSE Kept) /\ v5' = v5
      BY <1>1 DEF VectorsInv
    <3> QED BY <2>6, <3>1, <3>2
  <2>9. \A q \in v3' : Embedding!Over(q)' /\ (v2'[q] = "failed" => q \notin RequestsOf(v1) \ {r})
    BY <1>1 DEF VectorsInv, Embedding!Over
  <2> HIDE DEF left
  <2> QED BY <1>1, <1>2, <2>5, <2>6, <2>7, <2>8, <2>9 DEF VectorsInv
<1> QED BY <1>3, <1>4

LEMMA VectorsNext ==
  ASSUME Embedding!Parameters, VectorsInv, [Embedding!Next]_(Embedding!vars)
  PROVE  VectorsInv'
<1>1. ASSUME NEW c \in Callers, NEW t \in Texts, Embedding!Ask(c, t) PROVE VectorsInv'
  <2> DEFINE mine == {v1[i] : i \in {j \in DOMAIN v1 : v1[j].text = t}}
             K == {i \in DOMAIN v1 : v1[i].text # t \/ v2[v1[i].request] # "failed"}
             live == Embedding!Chosen(v1, K)
  <2>1. CASE \E e \in mine :
               /\ Embedding!Usable(e)
               /\ v1' = Append(Embedding!Without(v1, e), e)
               /\ v4' = [v4 EXCEPT ![c] = e.request]
               /\ v6' = (v6 \/ v2[e.request] = "failed")
               /\ UNCHANGED <<v2, v3, v5>>
    <3>1. PICK i \in DOMAIN v1 :
            /\ v2[v1[i].request] # "failed"
            /\ v1' = Append(Embedding!Without(v1, v1[i]), v1[i])
            /\ v4' = [v4 EXCEPT ![c] = v1[i].request]
            /\ v6' = (v6 \/ v2[v1[i].request] = "failed")
            /\ UNCHANGED <<v2, v3, v5>>
      BY <2>1 DEF Embedding!Usable
    <3> QED BY <3>1, JoinKeeps
  <2>2. CASE /\ \A e \in mine : ~Embedding!Usable(e)
             /\ \E r \in Requests \ Embedding!InUse :
                  /\ v1' = Embedding!Trimmed(Append(live, [text |-> t, request |-> r]),
                                             {q \in Requests \ {r} : Embedding!Over(q)})
                  /\ v2' = [v2 EXCEPT ![r] = "running"]
                  /\ v3' = v3 \ {r}
                  /\ v4' = [v4 EXCEPT ![c] = r]
                  /\ LET now == 1 + Embedding!Cardinality({q \in Requests : Embedding!Running(q)})
                     IN v5' = IF now > v5 THEN now ELSE v5
             /\ UNCHANGED v6
    <3>1. PICK r \in Requests \ Embedding!InUse :
                  /\ v1' = Embedding!Trimmed(Append(live, [text |-> t, request |-> r]),
                                             {q \in Requests \ {r} : Embedding!Over(q)})
                  /\ v2' = [v2 EXCEPT ![r] = "running"]
                  /\ v3' = v3 \ {r}
                  /\ v4' = [v4 EXCEPT ![c] = r]
                  /\ LET now == 1 + Embedding!Cardinality({q \in Requests : Embedding!Running(q)})
                     IN v5' = IF now > v5 THEN now ELSE v5
      BY <2>2
    <3>2. \A i \in DOMAIN v1 : v1[i].text = t => v2[v1[i].request] = "failed"
      BY <2>2 DEF Embedding!Usable
    <3>3. live = Chosen(v1, K)
      <4> HIDE DEF K
      <4> QED BY ChosenIsChosen
    <3>4. v5' = IF 1 + Cardinality(Under) > v5 THEN 1 + Cardinality(Under) ELSE v5
      BY <3>1, CountIsCount DEF Under
    <3>5. v6' = v6
      BY <2>2
    <3>6. v1' = Embedding!Trimmed(Append(Chosen(v1, K), [text |-> t, request |-> r]),
                                  {q \in Requests \ {r} : Embedding!Over(q)})
      <4> HIDE DEF live, K
      <4> QED BY <3>1, <3>3
    <3> QED BY <3>1, <3>2, <3>4, <3>5, <3>6, StartKeeps
  <2> QED BY <1>1, <2>1, <2>2 DEF Embedding!Ask, Embedding!Usable
<1>2. ASSUME NEW r \in Requests, Embedding!RequestEnds(r) PROVE VectorsInv'
  <2>1. PICK end \in {"done", "failed"} : v2' = [v2 EXCEPT ![r] = end]
    BY <1>2 DEF Embedding!RequestEnds
  <2>2. v2[r] = "running" /\ UNCHANGED <<v1, v3, v4, v5, v6>>
    BY <1>2 DEF Embedding!RequestEnds, Embedding!Running
  <2>3. v2 \in [Requests -> {"unused", "running", "done", "failed"}] /\ v3 \subseteq Requests
    BY DEF VectorsInv, Embedding!TypeOK
  <2>4. /\ v2' \in [Requests -> {"unused", "running", "done", "failed"}]
        /\ \A q \in Requests : q = r \/ v2'[q] = v2[q]
        /\ v2'[r] # "unused" /\ v2'[r] # "running" /\ r \notin v3
    BY <2>1, <2>2, <2>3 DEF VectorsInv, Embedding!Over
  <2>5. Under' \subseteq Under
    BY <2>4 DEF Under, Embedding!Running
  <2>6. Embedding!TypeOK'
    BY <2>2, <2>4 DEF VectorsInv, Embedding!TypeOK
  <2>7. Apart(v1)' = Apart(v1) /\ RequestsOf(v1)' = RequestsOf(v1)
    BY <2>2 DEF Apart, RequestsOf
  <2>8. \A q \in RequestsOf(v1) : q \in Requests
    <3>1. v1 \in Seq(Embedding!Entries)
      BY DEF VectorsInv, Embedding!TypeOK
    <3> QED BY <3>1, EntryParts DEF RequestsOf
  <2>9. Cardinality(Under') <= v5
    <3>1. v5 \in 0 .. Cardinality(Requests)
      BY CountIsCount DEF VectorsInv, Embedding!TypeOK
    <3>2. Cardinality(Under) <= v5
      BY DEF VectorsInv
    <3> QED BY <2>5, <3>1, <3>2, FewerUnderWay, VectorsParameters
  <2>10. \A q \in v3 : Embedding!Over(q)' = Embedding!Over(q) /\ v2'[q] = v2[q]
    BY <2>3, <2>4 DEF Embedding!Over
  <2> QED BY <2>2, <2>4, <2>5, <2>6, <2>7, <2>8, <2>9, <2>10 DEF VectorsInv
<1>3. ASSUME NEW r \in Requests, Embedding!Settled(r) PROVE VectorsInv'
  BY <1>3, SettledKeeps
<1>4. ASSUME NEW c \in Callers,
             v4' = [v4 EXCEPT ![c] = None], UNCHANGED <<v1, v2, v3, v5, v6>>
      PROVE  VectorsInv'
  BY <1>4 DEF VectorsInv, Embedding!TypeOK, Apart, RequestsOf, Under, Embedding!Running,
              Embedding!Over
<1>5. ASSUME NEW c \in Callers, Embedding!Answered(c) \/ Embedding!GivesUp(c)
      PROVE  VectorsInv'
  BY <1>4, <1>5 DEF Embedding!Answered, Embedding!GivesUp
<1>6. CASE UNCHANGED Embedding!vars
  BY <1>6 DEF Embedding!vars, VectorsInv, Embedding!TypeOK, Apart, RequestsOf, Under,
              Embedding!Running, Embedding!Over
<1> QED BY <1>1, <1>2, <1>3, <1>5, <1>6 DEF Embedding!Next

LEMMA SharedByInv ==
  ASSUME VectorsInv
  PROVE  Embedding!OneRequestPerText /\ Embedding!FailuresAreNotKept
<1>1. Embedding!OneRequestPerText
  BY DEF VectorsInv, Apart, RequestsOf, Under, Embedding!OneRequestPerText
<1>2. Embedding!FailuresAreNotKept
  BY DEF VectorsInv, RequestsOf, Embedding!FailuresAreNotKept
<1> QED BY <1>1, <1>2

-----------------------------------------------------------------------------
(* BrokerPaging: rows is v1, page v2, got v3, details v4, at v5, late v6,   *)
(* answer v7, context v8, passed v9 and unsure v10.                        *)

\* A list names a bill once.
OncePerBill(list) ==
  \A i, j \in DOMAIN list : list[i].bill = list[j].bill => i = j

\* The list has the bill with this position.
Has(list, bill, position) ==
  \E i \in DOMAIN list : list[i].bill = bill /\ list[i].position = position

\* Of the first k rows, the bill's last one that is shown has this position.
Says(list, k, bill, position) ==
  \E i \in 1 .. k :
    /\ list[i].bill = bill /\ list[i].position = position /\ position \in Shown
    /\ \A j \in i + 1 .. k : list[j].bill = bill => list[j].position \notin Shown

\* The list has of the bill what the first k rows say of it.
HoldsOf(list, all, k, bill) ==
  \A position : Has(list, bill, position) <=> Says(all, k, bill, position)

\* The list stands for the first k rows: those of the pages before, or more of
\* those that were passed.
StandsFor(list, all, k, before, read, bill) ==
  /\ k <= Len(all) /\ k <= read
  /\ k >= before \/ k = Len(all)
  /\ HoldsOf(list, all, k, bill)

BrokerInv ==
  /\ Broker!TypeOK
  /\ OncePerBill(v3)
  /\ v5 = "reading" =>
       /\ v7 = None
       /\ \A bill \in Bills \ v10 : \E k \in Nat :
            StandsFor(v3, v1, k, (v2 - 1) * RowsPerPage, v9, bill)
  /\ v7 # None =>
       /\ OncePerBill(v7.listed)
       /\ v7.complete => \A bill \in Bills \ v10 : HoldsOf(v7.listed, v1, Len(v1), bill)
  /\ v8 \in {"list", "list with a note"} => v5 = "over" /\ v7 # None
  /\ v8 = "list" => v7.complete

LEMMA BrokerChosen == ASSUME NEW s, NEW K PROVE Broker!Chosen(s, K) = Chosen(s, K)
BY DEF Broker!Chosen, Chosen

LEMMA NothingSaid ==
  ASSUME NEW all, NEW bill, NEW position
  PROVE  ~Says(all, 0, bill, position)
BY DEF Says

\* What one more row changes.
LEMMA OneMoreRow ==
  ASSUME NEW all \in Seq(Broker!Rows), NEW k \in Nat, k + 1 \in DOMAIN all,
         NEW bill, NEW position
  PROVE  Says(all, k + 1, bill, position) <=>
           IF all[k + 1].bill = bill /\ all[k + 1].position \in Shown
             THEN position = all[k + 1].position
             ELSE Says(all, k, bill, position)
<1> DEFINE row == all[k + 1]
<1>1. CASE row.bill = bill /\ row.position \in Shown
  <2>1. ASSUME position = row.position PROVE Says(all, k + 1, bill, position)
    <3>1. k + 1 \in 1 .. k + 1 /\ k + 2 .. k + 1 = {}
      OBVIOUS
    <3> QED BY <1>1, <2>1, <3>1 DEF Says
  <2>2. ASSUME Says(all, k + 1, bill, position) PROVE position = row.position
    <3>1. PICK i \in 1 .. k + 1 :
            /\ all[i].bill = bill /\ all[i].position = position
            /\ \A j \in i + 1 .. k + 1 : all[j].bill = bill => all[j].position \notin Shown
      BY <2>2 DEF Says
    <3>2. i # k + 1 => k + 1 \in i + 1 .. k + 1
      OBVIOUS
    <3> QED BY <1>1, <3>1, <3>2
  <2> QED BY <1>1, <2>1, <2>2
<1>2. CASE ~(row.bill = bill /\ row.position \in Shown)
  <2>1. ASSUME Says(all, k, bill, position) PROVE Says(all, k + 1, bill, position)
    <3>1. PICK i \in 1 .. k :
            /\ all[i].bill = bill /\ all[i].position = position /\ position \in Shown
            /\ \A j \in i + 1 .. k : all[j].bill = bill => all[j].position \notin Shown
      BY <2>1 DEF Says
    <3>2. i \in 1 .. k + 1 /\ \A j \in i + 1 .. k + 1 : j \in i + 1 .. k \/ j = k + 1
      OBVIOUS
    <3> QED BY <1>2, <3>1, <3>2 DEF Says
  <2>2. ASSUME Says(all, k + 1, bill, position) PROVE Says(all, k, bill, position)
    <3>1. PICK i \in 1 .. k + 1 :
            /\ all[i].bill = bill /\ all[i].position = position /\ position \in Shown
            /\ \A j \in i + 1 .. k + 1 : all[j].bill = bill => all[j].position \notin Shown
      BY <2>2 DEF Says
    <3>2. i # k + 1
      BY <1>2, <3>1
    <3>3. i \in 1 .. k /\ \A j \in i + 1 .. k : j \in i + 1 .. k + 1
      BY <3>2
    <3> QED BY <3>1, <3>3 DEF Says
  <2> QED BY <1>2, <2>1, <2>2
<1> QED BY <1>1, <1>2

\* Rows beyond the first k do not matter.
LEMMA SaysOfPrefix ==
  ASSUME NEW all, NEW more, NEW k \in Nat, \A i \in 1 .. k : more[i] = all[i],
         NEW bill, NEW position
  PROVE  Says(more, k, bill, position) <=> Says(all, k, bill, position)
<1>1. \A i \in 1 .. k : \A j \in i + 1 .. k : j \in 1 .. k
  OBVIOUS
<1> QED BY <1>1 DEF Says

(* A row that comes before the end of the first k, or at it, and is of     *)
(* another bill, leaves what they say.                                     *)
LEMMA ShiftedRows ==
  ASSUME NEW all, NEW more, NEW k \in Nat, NEW i \in 1 .. k + 1, NEW bill, NEW position,
         more[i].bill # bill,
         \A j \in 1 .. i - 1 : more[j] = all[j],
         \A j \in i .. k : more[j + 1] = all[j]
  PROVE  Says(more, k + 1, bill, position) <=> Says(all, k, bill, position)
<1>1. ASSUME Says(all, k, bill, position) PROVE Says(more, k + 1, bill, position)
  <2>1. PICK m \in 1 .. k :
          /\ all[m].bill = bill /\ all[m].position = position /\ position \in Shown
          /\ \A j \in m + 1 .. k : all[j].bill = bill => all[j].position \notin Shown
    BY <1>1 DEF Says
  <2>2. PICK n \in 1 .. k + 1 : n = IF m < i THEN m ELSE m + 1
    OBVIOUS
  <2>3. more[n] = all[m]
    BY <2>2
  <2>4. ASSUME NEW j \in n + 1 .. k + 1, more[j].bill = bill
        PROVE  more[j].position \notin Shown
    <3>1. CASE j < i
      <4>1. j \in m + 1 .. k /\ more[j] = all[j]
        BY <2>2, <3>1
      <4> QED BY <2>1, <2>4, <4>1
    <3>2. CASE j = i
      BY <2>4, <3>2
    <3>3. CASE j > i
      <4>1. PICK l \in Nat : l = j - 1
        BY <3>3
      <4>2. l \in m + 1 .. k /\ more[j] = all[l]
        <5>1. l \in i .. k /\ j = l + 1
          BY <3>3, <4>1
        <5>2. l >= m + 1
          BY <2>2, <3>3, <4>1
        <5> QED BY <5>1, <5>2
      <4> QED BY <2>1, <2>4, <4>2
    <3> QED BY <3>1, <3>2, <3>3
  <2> QED BY <2>1, <2>3, <2>4 DEF Says
<1>2. ASSUME Says(more, k + 1, bill, position) PROVE Says(all, k, bill, position)
  <2>1. PICK n \in 1 .. k + 1 :
          /\ more[n].bill = bill /\ more[n].position = position /\ position \in Shown
          /\ \A j \in n + 1 .. k + 1 : more[j].bill = bill => more[j].position \notin Shown
    BY <1>2 DEF Says
  <2>2. n # i
    BY <2>1
  <2>3. PICK m \in 1 .. k : n = IF m < i THEN m ELSE m + 1
    <3>1. CASE n < i
      BY <3>1
    <3>2. CASE n > i
      <4>1. n - 1 \in 1 .. k /\ ~(n - 1 < i) /\ n = n - 1 + 1
        BY <3>2
      <4> QED BY <4>1
    <3> QED BY <2>2, <3>1, <3>2
  <2>4. more[n] = all[m]
    BY <2>3
  <2>5. ASSUME NEW j \in m + 1 .. k, all[j].bill = bill
        PROVE  all[j].position \notin Shown
    <3>1. CASE j < i
      <4>1. j \in n + 1 .. k + 1 /\ more[j] = all[j]
        BY <2>3, <3>1
      <4> QED BY <2>1, <2>5, <4>1
    <3>2. CASE j >= i
      <4>1. j + 1 \in n + 1 .. k + 1 /\ more[j + 1] = all[j]
        BY <2>3, <3>2
      <4> QED BY <2>1, <2>5, <4>1
    <3> QED BY <3>1, <3>2
  <2> QED BY <2>1, <2>4, <2>5 DEF Says
<1> QED BY <1>1, <1>2

\* A bill has one position in the rows.
LEMMA SaidOnce ==
  ASSUME NEW all, NEW k \in Nat, NEW bill, NEW p, NEW q,
         Says(all, k, bill, p), Says(all, k, bill, q)
  PROVE  p = q
<1>1. PICK i \in 1 .. k :
        /\ all[i].bill = bill /\ all[i].position = p /\ p \in Shown
        /\ \A j \in i + 1 .. k : all[j].bill = bill => all[j].position \notin Shown
  BY DEF Says
<1>2. PICK l \in 1 .. k :
        /\ all[l].bill = bill /\ all[l].position = q /\ q \in Shown
        /\ \A j \in l + 1 .. k : all[j].bill = bill => all[j].position \notin Shown
  BY DEF Says
<1>3. i = l \/ l \in i + 1 .. k \/ i \in l + 1 .. k
  OBVIOUS
<1> QED BY <1>1, <1>2, <1>3

\* Keep: the row's bill has the row's position, the others what they had.
LEMMA RowKept ==
  ASSUME NEW list \in Seq(Broker!Listed), OncePerBill(list), NEW row \in Broker!Listed
  PROVE  /\ Broker!Keep(list, row) \in Seq(Broker!Listed)
         /\ OncePerBill(Broker!Keep(list, row))
         /\ \A bill, position :
              Has(Broker!Keep(list, row), bill, position) <=>
                IF row.bill = bill THEN position = row.position ELSE Has(list, bill, position)
<1> DEFINE S == Broker!Listed
           K == {i \in DOMAIN list : list[i].bill # row.bill}
           c == Chosen(list, K)
           d == Append(c, row)
<1>1. Broker!Keep(list, row) = d
  BY BrokerChosen DEF Broker!Keep
<1>2. K \cap DOMAIN list = K
  OBVIOUS
<1> HIDE DEF K
<1>3. c \in Seq(S) /\ \E f : Places(f, c, list, K)
  BY <1>2, ChosenInOrder
<1>4. PICK f : Places(f, c, list, K)
  BY <1>3
<1> HIDE DEF c, S
<1>5. PICK m \in Nat : m = Len(c) /\ DOMAIN c = 1 .. m
  BY <1>3
<1>6. /\ d \in Seq(S) /\ DOMAIN d = 1 .. m + 1 /\ d[m + 1] = row
      /\ \A i \in 1 .. m : d[i] = c[i]
  BY <1>3, <1>5 DEF S
<1>7. \A i \in 1 .. m : f[i] \in K /\ c[i] = list[f[i]]
  BY <1>4, <1>5 DEF Places
<1>8. \A i, j \in 1 .. m : i < j => f[i] < f[j]
  BY <1>4, <1>5 DEF Places
<1>9. \A k \in K : \E i \in 1 .. m : f[i] = k
  BY <1>4, <1>5 DEF Places
<1>10. \A i \in 1 .. m : f[i] \in DOMAIN list /\ c[i].bill # row.bill
  BY <1>7 DEF K
<1> HIDE DEF d
<1>11. OncePerBill(d)
  <2> SUFFICES ASSUME NEW i \in 1 .. m + 1, NEW j \in 1 .. m + 1, d[i].bill = d[j].bill
               PROVE  i = j
    BY <1>6 DEF OncePerBill
  <2>1. (i = m + 1 \/ i \in 1 .. m) /\ (j = m + 1 \/ j \in 1 .. m)
    OBVIOUS
  <2>2. CASE i \in 1 .. m /\ j \in 1 .. m
    <3>1. f[i] = f[j]
      BY <1>6, <1>7, <1>10, <2>2 DEF OncePerBill
    <3>2. f[i] \in Nat
      BY <1>10, <2>2
    <3>3. ~(i < j) /\ ~(j < i)
      BY <1>8, <2>2, <3>1, <3>2
    <3> QED BY <2>2, <3>3
  <2>3. CASE i = m + 1 /\ j \in 1 .. m
    BY <1>6, <1>10, <2>3
  <2>4. CASE j = m + 1 /\ i \in 1 .. m
    BY <1>6, <1>10, <2>4
  <2> QED BY <2>1, <2>2, <2>3, <2>4
<1>12. ASSUME NEW bill, NEW position
       PROVE  Has(d, bill, position) <=>
                IF row.bill = bill THEN position = row.position ELSE Has(list, bill, position)
  <2>1. \A i \in 1 .. m + 1 : i = m + 1 \/ i \in 1 .. m
    BY <1>5
  <2>2. m + 1 \in 1 .. m + 1 /\ \A i \in 1 .. m : i \in 1 .. m + 1
    BY <1>5
  <2>3. CASE row.bill = bill
    BY <1>6, <1>10, <2>1, <2>2, <2>3 DEF Has
  <2>4. CASE row.bill # bill
    <3>1. ASSUME Has(d, bill, position) PROVE Has(list, bill, position)
      BY <1>6, <1>7, <1>10, <2>1, <2>4, <3>1 DEF Has
    <3>2. ASSUME Has(list, bill, position) PROVE Has(d, bill, position)
      <4>1. PICK k \in DOMAIN list : list[k].bill = bill /\ list[k].position = position
        BY <3>2 DEF Has
      <4>2. k \in K
        BY <2>4, <4>1 DEF K
      <4>3. PICK i \in 1 .. m : f[i] = k
        BY <1>9, <4>2
      <4> QED BY <1>6, <1>7, <2>2, <4>1, <4>3 DEF Has
    <3> QED BY <2>4, <3>1, <3>2
  <2> QED BY <2>3, <2>4
<1>13. d \in Seq(Broker!Listed)
  BY <1>6 DEF S
<1> QED BY <1>1, <1>11, <1>12, <1>13

LEMMA KeepIsList ==
  ASSUME NEW list \in Seq(Broker!Listed), NEW row \in Broker!Listed
  PROVE  Broker!Keep(list, row) \in Seq(Broker!Listed)
<1> DEFINE S == Broker!Listed
<1>1. Chosen(list, {i \in DOMAIN list : list[i].bill # row.bill}) \in Seq(S)
  <2> HIDE DEF S
  <2> QED BY ChosenInOrder DEF S
<1>2. Broker!Keep(list, row)
        = Append(Chosen(list, {i \in DOMAIN list : list[i].bill # row.bill}), row)
  BY BrokerChosen DEF Broker!Keep
<1> HIDE DEF S
<1> QED BY <1>1, <1>2 DEF S

\* The function that Entered is defined by.
Enters(f, list, page, N) ==
  f = [n \in 0 .. N |->
         IF n = 0 THEN list
         ELSE IF page[n].position \in Shown THEN Broker!Keep(f[n - 1], page[n])
         ELSE f[n - 1]]

\* f computes Entered row by row.
Entering(f, list, page, N) ==
  /\ f \in [0 .. N -> Seq(Broker!Listed)]
  /\ Broker!Entered(list, page) = f[N]
  /\ f[0] = list
  /\ \A n \in 1 .. N :
       f[n] = IF page[n].position \in Shown THEN Broker!Keep(f[n - 1], page[n])
              ELSE f[n - 1]

LEMMA EnteredStepwise ==
  ASSUME NEW list \in Seq(Broker!Listed), NEW page \in Seq(Broker!Rows),
         NEW N \in Nat, N = Len(page)
  PROVE  \E f : Entering(f, list, page, N)
<1> DEFINE X == Seq(Broker!Listed)
           Step(n, l) == IF page[n].position \in Shown THEN Broker!Keep(l, page[n]) ELSE l
           step == [p \in (1 .. N) \X X |-> Step(p[1], p[2])]
           Stepwise(f) ==
             /\ f[0] = list
             /\ \A n \in 1 .. N : f[n] = Step(n, f[n - 1])
<1>1. ASSUME NEW n \in 1 .. N, NEW l \in X PROVE Step(n, l) \in X
  <2>1. page[n] \in Broker!Rows
    OBVIOUS
  <2>2. page[n].position \in Shown => page[n] \in Broker!Listed
    BY <2>1 DEF Broker!Listed
  <2> QED BY <2>2, KeepIsList
<1>2. list \in X
  OBVIOUS
<1> HIDE DEF X, Step
<1>3. step \in [(1 .. N) \X X -> X] /\ \A n \in 1 .. N, l \in X : step[<<n, l>>] = Step(n, l)
  BY <1>1
<1> HIDE DEF step
<1>4. PICK f : Iterates(f, X, list, step, N)
  BY <1>2, <1>3, Iteration
<1>5. f \in [0 .. N -> X] /\ f[0] = list
  BY <1>4 DEF Iterates
<1>6. ASSUME NEW n \in 1 .. N PROVE f[n] = Step(n, f[n - 1])
  <2>1. n - 1 \in 0 .. N
    OBVIOUS
  <2> QED BY <1>3, <1>4, <1>5, <2>1 DEF Iterates
<1>7. Enters(f, list, page, N)
  <2>1. ASSUME NEW n \in 0 .. N PROVE f[n] = IF n = 0 THEN list ELSE Step(n, f[n - 1])
    <3>1. n = 0 \/ n \in 1 .. N
      OBVIOUS
    <3> QED BY <1>5, <1>6, <3>1
  <2> QED BY <1>5, <2>1 DEF Enters, Step
<1> DEFINE g == CHOOSE g : Enters(g, list, page, N)
<1>8. Enters(g, list, page, N)
  <2> HIDE DEF Enters
  <2> QED BY <1>7
<1>9. Broker!Entered(list, page) = g[N]
  BY DEF Broker!Entered, Enters
<1> HIDE DEF g
<1>10. \A n \in 0 .. N : g[n] = IF n = 0 THEN list ELSE Step(n, g[n - 1])
  <2> DEFINE h == [n \in 0 .. N |-> IF n = 0 THEN list ELSE Step(n, g[n - 1])]
  <2>1. g = h
    BY <1>8 DEF Enters, Step
  <2>2. \A n \in 0 .. N : h[n] = IF n = 0 THEN list ELSE Step(n, g[n - 1])
    OBVIOUS
  <2> HIDE DEF h
  <2> QED BY <2>1, <2>2
<1>11. ASSUME {n \in 0 .. N : g[n] # f[n]} # {} PROVE FALSE
  <2> DEFINE T == {n \in 0 .. N : g[n] # f[n]}
  <2>1. PICK n \in T : \A m \in T : n <= m
    <3>1. T \subseteq Nat /\ T # {}
      BY <1>11
    <3> HIDE DEF T
    <3> QED BY <3>1, LeastOfNat
  <2>2. n # 0
    BY <1>5, <1>10, <2>1
  <2>3. n \in 1 .. N /\ n - 1 \in 0 .. N /\ ~(n <= n - 1)
    BY <2>1, <2>2
  <2>4. g[n - 1] = f[n - 1]
    BY <2>1, <2>3
  <2> QED BY <1>6, <1>10, <2>1, <2>2, <2>3, <2>4
<1>12. N \in 0 .. N
  OBVIOUS
<1>13. Broker!Entered(list, page) = f[N]
  BY <1>9, <1>11, <1>12
<1> QED BY <1>5, <1>6, <1>13 DEF X, Step, Entering

\* What Entered does with a page, row by row.
LEMMA PageIsEntered ==
  ASSUME NEW list \in Seq(Broker!Listed), OncePerBill(list), NEW page \in Seq(Broker!Rows)
  PROVE  /\ Broker!Entered(list, page) \in Seq(Broker!Listed)
         /\ OncePerBill(Broker!Entered(list, page))
<1>1. PICK N \in Nat : N = Len(page)
  OBVIOUS
<1>f. PICK f : Entering(f, list, page, N)
  BY <1>1, EnteredStepwise
<1>2. /\ f \in [0 .. N -> Seq(Broker!Listed)]
      /\ Broker!Entered(list, page) = f[N]
      /\ f[0] = list
      /\ \A n \in 1 .. N :
           f[n] = IF page[n].position \in Shown THEN Broker!Keep(f[n - 1], page[n])
                  ELSE f[n - 1]
  BY <1>f DEF Entering
<1> DEFINE T == {n \in 0 .. N : ~OncePerBill(f[n])}
<1>3. ASSUME T # {} PROVE FALSE
  <2>1. PICK n \in T : \A m \in T : n <= m
    <3>1. T \subseteq Nat
      OBVIOUS
    <3> HIDE DEF T
    <3> QED BY <1>3, <3>1, LeastOfNat
  <2>2. n # 0
    BY <1>2, <2>1
  <2>3. n \in 1 .. N /\ n - 1 \in 0 .. N /\ ~(n <= n - 1)
    BY <2>1, <2>2
  <2>4. OncePerBill(f[n - 1]) /\ f[n - 1] \in Seq(Broker!Listed)
    <3>1. n - 1 \notin T
      <4> HIDE DEF T
      <4> QED BY <2>1, <2>3
    <3>2. f[n - 1] \in Seq(Broker!Listed)
      BY <1>2, <2>3
    <3> QED BY <2>3, <3>1, <3>2
  <2>5. page[n] \in Broker!Rows
    BY <1>1, <2>3
  <2>6. CASE page[n].position \in Shown
    <3>1. page[n] \in Broker!Listed
      BY <2>5, <2>6 DEF Broker!Listed
    <3>2. OncePerBill(Broker!Keep(f[n - 1], page[n]))
      BY <2>4, <3>1, RowKept
    <3>3. f[n] = Broker!Keep(f[n - 1], page[n])
      BY <1>2, <2>3, <2>6
    <3> QED BY <2>1, <3>2, <3>3
  <2>7. CASE page[n].position \notin Shown
    <3>1. f[n] = f[n - 1]
      BY <1>2, <2>3, <2>7
    <3> QED BY <2>1, <2>4, <3>1
  <2> QED BY <2>6, <2>7
<1>4. N \in 0 .. N
  OBVIOUS
<1> QED BY <1>2, <1>3, <1>4

\* The page is the rows after the first b.
IsNextPage(page, all, b, N) ==
  N = Len(page) /\ b + N <= Len(all) /\ \A n \in 1 .. N : all[b + n] = page[n]

\* The list has what the first k rows say, or what those up to the end do.
HoldsAfter(list, all, k, end, bill) ==
  \E m \in {k, end} : m >= end /\ HoldsOf(list, all, m, bill)

(* A page that is the rows after the first b: if the list had of a bill    *)
(* what the first k rows say, b of them or more, then it now has what they *)
(* say up to the end of the page, or still what the first k say.           *)
LEMMA NextRowsEntered ==
  ASSUME NEW list \in Seq(Broker!Listed), OncePerBill(list), NEW page \in Seq(Broker!Rows),
         NEW all \in Seq(Broker!Rows), NEW b \in Nat, NEW N \in Nat,
         IsNextPage(page, all, b, N),
         NEW bill, NEW k \in Nat, k >= b, HoldsOf(list, all, k, bill)
  PROVE  HoldsAfter(Broker!Entered(list, page), all, k, b + N, bill)
<1>0. N = Len(page) /\ b + N <= Len(all) /\ \A n \in 1 .. N : all[b + n] = page[n]
  BY DEF IsNextPage
<1>f. PICK f : Entering(f, list, page, N)
  BY <1>0, EnteredStepwise
<1>2. /\ f \in [0 .. N -> Seq(Broker!Listed)]
      /\ Broker!Entered(list, page) = f[N]
      /\ f[0] = list
      /\ \A n \in 1 .. N :
           f[n] = IF page[n].position \in Shown THEN Broker!Keep(f[n - 1], page[n])
                  ELSE f[n - 1]
  BY <1>f DEF Entering
<1> DEFINE Right(n) == \E m \in {k, b + n} : m >= b + n /\ HoldsOf(f[n], all, m, bill)
           T == {n \in 0 .. N : ~(OncePerBill(f[n]) /\ Right(n))}
<1>3. ASSUME T # {} PROVE FALSE
  <2>1. PICK n \in T : \A m \in T : n <= m
    <3>1. T \subseteq Nat
      OBVIOUS
    <3> HIDE DEF T
    <3> QED BY <1>3, <3>1, LeastOfNat
  <2>2. n # 0
    <3>1. k >= b + 0
      OBVIOUS
    <3> QED BY <1>2, <2>1, <3>1
  <2>3. n \in 1 .. N /\ n - 1 \in 0 .. N /\ ~(n <= n - 1)
    BY <2>1, <2>2
  <2>4. /\ OncePerBill(f[n - 1]) /\ f[n - 1] \in Seq(Broker!Listed)
        /\ Right(n - 1)
    <3>1. n - 1 \notin T
      <4> HIDE DEF T
      <4> QED BY <2>1, <2>3
    <3>2. f[n - 1] \in Seq(Broker!Listed)
      BY <1>2, <2>3
    <3> QED BY <2>3, <3>1, <3>2
  <2>5. page[n] \in Broker!Rows /\ all[b + n] = page[n]
    BY <1>0, <2>3
  <2> DEFINE c == b + (n - 1)
  <2>6. c \in Nat /\ c + 1 = b + n /\ c + 1 \in DOMAIN all
    BY <1>0, <2>3
  <2>7. \A position :
          Says(all, b + n, bill, position) <=>
            IF page[n].bill = bill /\ page[n].position \in Shown
              THEN position = page[n].position
              ELSE Says(all, c, bill, position)
    <3> HIDE DEF c
    <3>1. \A position :
          Says(all, c + 1, bill, position) <=>
            IF all[c + 1].bill = bill /\ all[c + 1].position \in Shown
              THEN position = all[c + 1].position
              ELSE Says(all, c, bill, position)
      BY <2>6, OneMoreRow
    <3> QED BY <2>5, <2>6, <3>1
  <2>8. /\ OncePerBill(f[n])
        /\ \A position : Has(f[n], bill, position) <=>
             IF page[n].bill = bill /\ page[n].position \in Shown
               THEN position = page[n].position
               ELSE Has(f[n - 1], bill, position)
    <3>1. CASE page[n].position \in Shown
      <4>1. page[n] \in Broker!Listed
        BY <2>5, <3>1 DEF Broker!Listed
      <4>2. f[n] = Broker!Keep(f[n - 1], page[n])
        BY <1>2, <2>3, <3>1
      <4>3. /\ OncePerBill(f[n])
            /\ \A position :
                 Has(f[n], bill, position) <=>
                   IF page[n].bill = bill THEN position = page[n].position
                   ELSE Has(f[n - 1], bill, position)
        BY <2>4, <4>1, <4>2, RowKept
      <4> QED BY <3>1, <4>3
    <3>2. CASE page[n].position \notin Shown
      <4>1. f[n] = f[n - 1]
        BY <1>2, <2>3, <3>2
      <4> QED BY <2>4, <3>2, <4>1
    <3> QED BY <3>1, <3>2
  <2>9. Right(n)
    <3>1. CASE page[n].bill = bill /\ page[n].position \in Shown
      <4>1. HoldsOf(f[n], all, b + n, bill)
        BY <2>7, <2>8, <3>1 DEF HoldsOf
      <4> QED BY <4>1
    <3>2. CASE ~(page[n].bill = bill /\ page[n].position \in Shown)
      <4>1. PICK m \in {k, c} : m >= c /\ HoldsOf(f[n - 1], all, m, bill)
        BY <2>4
      <4>2. HoldsOf(f[n], all, m, bill)
        BY <2>8, <3>2, <4>1 DEF HoldsOf
      <4>3. CASE m >= b + n
        <5>1. m = k
          BY <2>6, <4>1, <4>3
        <5> QED BY <4>2, <4>3, <5>1
      <4>4. CASE ~(m >= b + n)
        <5>1. m = c
          BY <2>6, <4>1, <4>4
        <5>2. HoldsOf(f[n], all, b + n, bill)
          BY <2>7, <3>2, <4>2, <5>1 DEF HoldsOf
        <5> QED BY <5>2
      <4> QED BY <4>3, <4>4
    <3> QED BY <3>1, <3>2
  <2> QED BY <2>1, <2>8, <2>9
<1>4. N \in 0 .. N
  OBVIOUS
<1>5. Right(N)
  BY <1>3, <1>4
<1> QED BY <1>2, <1>5 DEF HoldsAfter

\* The bill's newest position is what all rows say of it.
LEMMA NewestIsSaid ==
  ASSUME NEW S, NEW list \in Seq(S), NEW bill
  PROVE  \/ /\ Broker!Newest(list, bill) = None
            /\ \A p : ~Says(list, Len(list), bill, p)
         \/ Says(list, Len(list), bill, Broker!Newest(list, bill))
<1>1. PICK n \in Nat : n = Len(list) /\ DOMAIN list = 1 .. n
  OBVIOUS
<1> DEFINE its == {i \in DOMAIN list : list[i].bill = bill /\ list[i].position \in Shown}
           newest == Broker!Max(its)
<1>2. CASE its = {}
  <2>1. Broker!Newest(list, bill) = None
    BY <1>2 DEF Broker!Newest
  <2>2. \A p : ~Says(list, n, bill, p)
    BY <1>1, <1>2 DEF Says
  <2> QED BY <1>1, <2>1, <2>2
<1>3. CASE its # {}
  <2> DEFINE Above == {m \in Nat : \A i \in its : i <= m}
  <2>1. n \in Above
    BY <1>1
  <2>2. PICK m \in Above : \A l \in Above : m <= l
    <3>1. Above \subseteq Nat /\ Above # {}
      BY <2>1
    <3> HIDE DEF Above
    <3> QED BY <3>1, LeastOfNat
  <2>3. \A i \in its : i \in 1 .. n
    BY <1>1
  <2>4. m \in its
    <3> SUFFICES ASSUME m \notin its PROVE FALSE
      OBVIOUS
    <3>1. \A i \in its : i <= m /\ i # m
      BY <2>2
    <3> HIDE DEF its
    <3>2. m # 0
      BY <1>3, <2>3, <3>1
    <3>3. m - 1 \in Above
      BY <2>2, <2>3, <3>1, <3>2
    <3> QED BY <2>2, <3>3
  <2>5. m \in its /\ \A i \in its : m >= i
    BY <2>2, <2>4
  <2>6. newest \in its /\ \A i \in its : newest >= i
    <3> HIDE DEF its
    <3> QED BY <2>5 DEF Broker!Max
  <2>7. Broker!Newest(list, bill) = list[newest].position
    BY <1>3 DEF Broker!Newest
  <2> HIDE DEF newest
  <2>8. \A j \in newest + 1 .. n : j \notin its
    BY <2>3, <2>6
  <2>9. \A j \in newest + 1 .. n : j \in 1 .. n
    BY <2>3, <2>6
  <2>10. Says(list, n, bill, list[newest].position)
    BY <1>1, <2>6, <2>8, <2>9 DEF Says
  <2> QED BY <1>1, <2>7, <2>10
<1> QED BY <1>2, <1>3

LEMMA BrokerNumbers ==
  ASSUME Broker!Parameters
  PROVE  /\ MaxPages \in Nat \ {0} /\ RowsPerPage \in Nat \ {0} /\ MaxRows \in Nat
         /\ 1 \in 1 .. MaxPages
<1>1. MaxPages \in Nat \ {0} /\ RowsPerPage \in Nat \ {0} /\ MaxRows \in Nat
  BY DEF Broker!Parameters
<1> QED BY <1>1

LEMMA Joined ==
  ASSUME NEW X, NEW a \in Seq(X), NEW b \in Seq(X)
  PROVE  a \o b \in Seq(X) /\ Len(a \o b) = Len(a) + Len(b)
OBVIOUS

LEMMA PlacesJoined ==
  ASSUME NEW X, NEW a \in Seq(X), NEW b \in Seq(X), NEW m \in Nat, m = Len(a),
         NEW n \in Nat, n = Len(b)
  PROVE  /\ \A j \in 1 .. m : (a \o b)[j] = a[j]
         /\ \A j \in 1 .. n : (a \o b)[j + m] = b[j]
OBVIOUS

LEMMA BrokerLists ==
  ASSUME Broker!TypeOK
  PROVE  /\ v1 \in Seq(Broker!Rows) /\ v2 \in 1 .. MaxPages
         /\ \E l \in Nat : l = Len(v1) /\ DOMAIN v1 = 1 .. l
<1>1. v1 \in Seq(Broker!Rows) /\ v2 \in 1 .. MaxPages
  BY DEF Broker!TypeOK
<1>2. \E l \in Nat : l = Len(v1) /\ DOMAIN v1 = 1 .. l
  BY <1>1
<1> QED BY <1>1, <1>2

LEMMA BrokerInit ==
  ASSUME Broker!Parameters, Broker!Init
  PROVE  BrokerInv
<1>1. /\ v2 = 1 /\ v3 = <<>> /\ v4 = "running" /\ v5 = "reading" /\ v6 = FALSE
      /\ v7 = None /\ v8 = None /\ v9 = 0 /\ v10 = {}
  BY DEF Broker!Init
<1>2. v1 \in Seq(Broker!Rows) /\ Len(v1) <= MaxRows
  <2>1. PICK n \in 0 .. MaxRows : v1 \in [1 .. n -> Broker!Rows]
    BY DEF Broker!Init
  <2> DEFINE X == Broker!Rows
  <2>2. n \in Nat /\ n <= MaxRows
    BY BrokerNumbers
  <2>3. v1 \in [1 .. n -> X]
    BY <2>1
  <2> HIDE DEF X
  <2>4. v1 \in Seq(X) /\ Len(v1) = n
    BY <2>2, <2>3
  <2> QED BY <2>2, <2>4 DEF X
<1>4. RowsPerPage \in Nat /\ (v2 - 1) * RowsPerPage = 0
  BY <1>1, BrokerNumbers
<1>3. Broker!TypeOK
  <2>1. <<>> \in Seq(Broker!Listed)
    OBVIOUS
  <2>2. 1 \in 1 .. MaxPages
    BY BrokerNumbers
  <2>3. v9 \in Nat /\ v9 >= (v2 - 1) * RowsPerPage
    BY <1>1, <1>4
  <2> QED BY <1>1, <1>2, <2>1, <2>2, <2>3 DEF Broker!TypeOK
<1>5. OncePerBill(v3)
  BY <1>1 DEF OncePerBill
<1>6. v8 \notin {"list", "list with a note"}
  BY <1>1 DEF Broker!Parameters
<1>7. ASSUME NEW bill
      PROVE  StandsFor(v3, v1, 0, (v2 - 1) * RowsPerPage, v9, bill)
  <2>1. 0 <= Len(v1)
    BY <1>2
  <2>2. HoldsOf(v3, v1, 0, bill)
    BY <1>1, NothingSaid DEF HoldsOf, Has
  <2> QED BY <1>1, <1>4, <2>1, <2>2 DEF StandsFor
<1>8. \A bill \in Bills \ v10 : \E k \in Nat :
        StandsFor(v3, v1, k, (v2 - 1) * RowsPerPage, v9, bill)
  BY <1>7
<1> QED BY <1>1, <1>3, <1>5, <1>6, <1>8 DEF BrokerInv

\* The page asked for: where its rows are.
LEMMA PageOfRows ==
  ASSUME Broker!Parameters, Broker!TypeOK
  PROVE  \E k \in Nat, N \in Nat :
           /\ k = (v2 - 1) * RowsPerPage /\ v2 * RowsPerPage = k + RowsPerPage
           /\ (v2 + 1 - 1) * RowsPerPage = k + RowsPerPage
           /\ Broker!Page(v2) \in Seq(Broker!Rows) /\ N = Len(Broker!Page(v2))
           /\ \A n \in 1 .. N : v1[k + n] = Broker!Page(v2)[n]
           /\ k <= Len(v1) => k + N <= Len(v1)
           /\ k <= Len(v1) /\ v2 * RowsPerPage < Len(v1) => k + N = v2 * RowsPerPage
           /\ k <= Len(v1) /\ ~(v2 * RowsPerPage < Len(v1)) => k + N = Len(v1)
           /\ N > 0 => k <= Len(v1)
           /\ v2 = 1 => k = 0
<1>1. PICK p \in Nat \ {0}, size \in Nat \ {0} : p = v2 /\ size = RowsPerPage
  BY BrokerNumbers, BrokerLists
<1>2. PICK l \in Nat : l = Len(v1) /\ DOMAIN v1 = 1 .. l
  BY BrokerLists
<1>3. PICK k \in Nat : k = (p - 1) * size
  BY <1>1
<1>4. p * size = k + size /\ (p + 1 - 1) * size = k + size
  BY <1>1, <1>3
<1>5. PICK m \in Nat : m = IF k + size <= l THEN k + size ELSE l
  BY <1>1
<1>6. Broker!Min({p * size, Len(v1)}) = m
  <2>1. \A a, b \in Nat : Broker!Min({a, b}) = IF a <= b THEN a ELSE b
    BY DEF Broker!Min
  <2> QED BY <1>2, <1>4, <1>5, <2>1
<1>7. v1 \in Seq(Broker!Rows)
  BY DEF Broker!TypeOK
<1>8. Broker!Page(v2) = SubSeq(v1, k + 1, m)
  BY <1>1, <1>3, <1>6 DEF Broker!Page
<1>9. m <= l
  BY <1>5
<1>10. PICK N \in Nat : N = IF k + 1 <= m THEN m - k ELSE 0
  <2>1. k + 1 <= m => m - k \in Nat
    OBVIOUS
  <2> QED BY <2>1
<1>11. /\ Broker!Page(v2) \in Seq(Broker!Rows) /\ Len(Broker!Page(v2)) = N
       /\ \A n \in 1 .. N : Broker!Page(v2)[n] = v1[k + n]
  BY <1>2, <1>7, <1>8, <1>9, <1>10
<1>12. /\ k <= l => k + N <= l
       /\ k <= l /\ k + size < l => k + N = k + size
       /\ k <= l /\ ~(k + size < l) => k + N = l
       /\ N > 0 => k <= l
  BY <1>1, <1>5, <1>10
<1>13. p = 1 => k = 0
  BY <1>1, <1>3
<1> QED BY <1>1, <1>2, <1>3, <1>4, <1>11, <1>12, <1>13

LEMMA LargerOfTwo ==
  ASSUME NEW a \in Nat, NEW b \in Nat
  PROVE  Broker!Max({a, b}) = IF a >= b THEN a ELSE b
BY DEF Broker!Max

\* What every step of the broker starts from.
LEMMA BrokerReading ==
  ASSUME Broker!Parameters, BrokerInv, v5 = "reading"
  PROVE  /\ v1 \in Seq(Broker!Rows) /\ Len(v1) <= MaxRows
         /\ \E b \in Nat :
              /\ b = (v2 - 1) * RowsPerPage /\ b = Broker!Before /\ b <= v9
              /\ \A bill \in Bills \ v10 : \E k \in Nat : StandsFor(v3, v1, k, b, v9, bill)
         /\ v9 \in Nat /\ v10 \subseteq Bills
<1>1. /\ v1 \in Seq(Broker!Rows) /\ Len(v1) <= MaxRows
      /\ v9 \in Nat /\ v10 \subseteq Bills /\ v9 >= (v2 - 1) * RowsPerPage
  BY DEF BrokerInv, Broker!TypeOK
<1>2. PICK b \in Nat : b = (v2 - 1) * RowsPerPage
  BY PageOfRows DEF BrokerInv
<1>3. \A bill \in Bills \ v10 : \E k \in Nat : StandsFor(v3, v1, k, b, v9, bill)
  BY <1>2 DEF BrokerInv
<1>4. b = Broker!Before
  BY <1>2 DEF Broker!Before
<1> QED BY <1>1, <1>2, <1>3, <1>4

\* ... and what is left to show of it.
LEMMA BrokerMoves ==
  ASSUME Broker!Parameters, BrokerInv, v5 = "reading",
         UNCHANGED <<v2, v3, v4, v5, v6, v7, v8>>,
         v1' \in Seq(Broker!Rows), Len(v1') <= MaxRows,
         v9' \in Nat, v10' \subseteq Bills,
         NEW b \in Nat, b = (v2 - 1) * RowsPerPage, b <= v9',
         \A bill \in Bills \ v10' : \E k \in Nat : StandsFor(v3, v1', k, b, v9', bill)
  PROVE  BrokerInv'
<1>1. (v2' - 1) * RowsPerPage = b
  OBVIOUS
<1>2. Broker!TypeOK'
  <2>1. v9' >= (v2' - 1) * RowsPerPage
    BY <1>1
  <2> QED BY <2>1 DEF BrokerInv, Broker!TypeOK
<1>3. \A bill \in Bills \ v10' : \E k \in Nat :
        StandsFor(v3', v1', k, (v2' - 1) * RowsPerPage, v9', bill)
  BY <1>1
<1> QED BY <1>2, <1>3 DEF BrokerInv, OncePerBill

(* A row comes: the rows a bill's place stands for are shifted, or not.    *)
LEMMA RowInsertedKeeps ==
  ASSUME Broker!Parameters, BrokerInv, Broker!RowInserted
  PROVE  BrokerInv'
<1>1. /\ v5 = "reading" /\ Len(v1) < MaxRows
      /\ UNCHANGED <<v2, v3, v4, v5, v6, v7, v8>>
      /\ \E i \in 1 .. Len(v1) + 1, r \in Broker!Rows :
           /\ v1' = Broker!InsertAt(v1, i, r)
           /\ v9' = IF i <= v9 /\ v9 <= Len(v1) THEN v9 + 1 ELSE v9
           /\ v10' = IF i <= v9 THEN v10 \cup {r.bill} ELSE v10
  BY DEF Broker!RowInserted
<1>2. PICK i \in 1 .. Len(v1) + 1, r \in Broker!Rows :
           /\ v1' = Broker!InsertAt(v1, i, r)
           /\ v9' = IF i <= v9 /\ v9 <= Len(v1) THEN v9 + 1 ELSE v9
           /\ v10' = IF i <= v9 THEN v10 \cup {r.bill} ELSE v10
  BY <1>1
<1>3. PICK b \in Nat :
        /\ v1 \in Seq(Broker!Rows) /\ b = (v2 - 1) * RowsPerPage /\ b <= v9
        /\ v9 \in Nat /\ v10 \subseteq Bills
        /\ \A bill \in Bills \ v10 : \E k \in Nat : StandsFor(v3, v1, k, b, v9, bill)
  BY <1>1, BrokerReading
<1>4. PICK l \in Nat : l = Len(v1)
  BY <1>3
<1>5. i \in Nat /\ 1 <= i /\ i <= l + 1
  BY <1>2, <1>4
<1>6. /\ v1' \in Seq(Broker!Rows) /\ Len(v1') = l + 1 /\ v1'[i] = r
      /\ \A j \in 1 .. i - 1 : v1'[j] = v1[j]
      /\ \A j \in i .. l : v1'[j + 1] = v1[j]
  <2> DEFINE X == Broker!Rows
             front == SubSeq(v1, 1, i - 1)
             back == SubSeq(v1, i, l)
             one == <<r>>
  <2>1. v1' = (front \o one) \o back
    BY <1>2, <1>4 DEF Broker!InsertAt
  <2>2. v1 \in Seq(X) /\ r \in X
    BY <1>2, <1>3
  <2> HIDE DEF X
  <2>3. /\ front \in Seq(X) /\ Len(front) = i - 1 /\ \A j \in 1 .. i - 1 : front[j] = v1[j]
    BY <1>4, <1>5, <2>2
  <2>4. /\ back \in Seq(X) /\ Len(back) = l + 1 - i
        /\ \A j \in 1 .. l + 1 - i : back[j] = v1[j + (i - 1)]
    BY <1>4, <1>5, <2>2
  <2>5. one \in Seq(X) /\ Len(one) = 1 /\ one[1] = r
    BY <2>2
  <2> HIDE DEF front, back, one
  <2> DEFINE upTo == front \o one
  <2>6. /\ upTo \in Seq(X) /\ Len(upTo) = i /\ upTo[i] = r
        /\ \A j \in 1 .. i - 1 : upTo[j] = v1[j]
    <3>1. i - 1 \in Nat /\ i - 1 + 1 = i /\ 1 \in 1 .. 1 /\ 1 + (i - 1) = i /\ 1 \in Nat
      BY <1>5
    <3>2. upTo \in Seq(X) /\ Len(upTo) = i
      BY <2>3, <2>5, <3>1, Joined
    <3>3. /\ \A j \in 1 .. i - 1 : upTo[j] = front[j]
          /\ \A j \in 1 .. 1 : upTo[j + (i - 1)] = one[j]
      <4> HIDE DEF upTo
      <4>1. /\ \A j \in 1 .. i - 1 : (front \o one)[j] = front[j]
            /\ \A j \in 1 .. 1 : (front \o one)[j + (i - 1)] = one[j]
        <5>1. PICK m \in Nat : m = i - 1
          BY <3>1
        <5>2. Len(front) = m /\ front \in Seq(X)
          BY <2>3, <5>1
        <5>3. /\ \A j \in 1 .. m : (front \o one)[j] = front[j]
              /\ \A j \in 1 .. 1 : (front \o one)[j + m] = one[j]
          BY <2>5, <3>1, <5>1, <5>2, PlacesJoined
        <5> QED BY <5>1, <5>3
      <4> QED BY <4>1 DEF upTo
    <3> HIDE DEF upTo
    <3>4. upTo[i] = one[1]
      BY <3>1, <3>3
    <3> QED BY <2>3, <2>5, <3>2, <3>3, <3>4
  <2> HIDE DEF upTo
  <2>7. v1' = upTo \o back
    BY <2>1 DEF upTo
  <2>8. /\ v1' \in Seq(X) /\ Len(v1') = l + 1
        /\ \A j \in 1 .. i : v1'[j] = upTo[j]
        /\ \A j \in 1 .. l + 1 - i : v1'[j + i] = back[j]
    BY <1>4, <1>5, <2>4, <2>6, <2>7
  <2>9. ASSUME NEW j \in i .. l PROVE v1'[j + 1] = v1[j]
    <3>1. PICK n \in 1 .. l + 1 - i : j = n + (i - 1)
      <4>1. j - (i - 1) \in 1 .. l + 1 - i /\ j = j - (i - 1) + (i - 1)
        BY <1>4, <1>5
      <4> QED BY <4>1
    <3>2. j + 1 = n + i
      BY <1>5, <3>1
    <3>3. v1'[n + i] = back[n] /\ back[n] = v1[n + (i - 1)]
      BY <2>4, <2>8
    <3> QED BY <3>1, <3>2, <3>3
  <2> QED BY <1>5, <2>6, <2>8, <2>9 DEF X
<1>7. /\ Len(v1') <= MaxRows /\ v9' \in Nat /\ v10' \subseteq Bills /\ b <= v9'
  <2>1. r.bill \in Bills
    BY <1>2 DEF Broker!Rows
  <2>2. l + 1 <= MaxRows
    BY <1>1, <1>4, BrokerNumbers
  <2> QED BY <1>2, <1>3, <1>4, <1>6, <2>1, <2>2
<1>8. ASSUME NEW bill \in Bills \ v10'
      PROVE  \E k \in Nat : StandsFor(v3, v1', k, b, v9', bill)
  <2>1. bill \in Bills \ v10 /\ (i <= v9 => r.bill # bill)
    BY <1>2
  <2>2. PICK k \in Nat : StandsFor(v3, v1, k, b, v9, bill)
    BY <1>3, <2>1
  <2>3. k <= l /\ k <= v9 /\ (k >= b \/ k = l) /\ HoldsOf(v3, v1, k, bill)
    BY <1>4, <2>2 DEF StandsFor
  <2>4. CASE i <= k \/ (k = l /\ k < b)
    <3>1. i <= k + 1 /\ i <= v9
      BY <1>3, <1>5, <2>3, <2>4
    <3>2. v1'[i].bill # bill
      BY <1>6, <2>1, <3>1
    <3>3. i \in 1 .. k + 1 /\ \A j \in i .. k : v1'[j + 1] = v1[j]
      BY <1>5, <1>6, <2>3, <3>1
    <3>4. \A p : Says(v1', k + 1, bill, p) <=> Says(v1, k, bill, p)
      BY <1>6, <3>2, <3>3, ShiftedRows
    <3>5. HoldsOf(v3, v1', k + 1, bill)
      BY <2>3, <3>4 DEF HoldsOf
    <3>6. k + 1 <= v9'
      BY <1>2, <1>3, <1>4, <2>3, <2>4, <3>1
    <3>7. k + 1 \in Nat /\ k + 1 <= Len(v1') /\ (k + 1 >= b \/ k + 1 = Len(v1'))
      BY <1>6, <2>3
    <3> QED BY <3>5, <3>6, <3>7 DEF StandsFor
  <2>5. CASE k < i /\ ~(k = l /\ k < b)
    <3>1. \A j \in 1 .. k : v1'[j] = v1[j]
      BY <1>5, <1>6, <2>5
    <3>2. \A p : Says(v1', k, bill, p) <=> Says(v1, k, bill, p)
      BY <3>1, SaysOfPrefix
    <3>3. HoldsOf(v3, v1', k, bill)
      BY <2>3, <3>2 DEF HoldsOf
    <3>4. k <= v9' /\ k <= Len(v1') /\ k >= b
      BY <1>2, <1>3, <1>4, <1>6, <2>3, <2>5
    <3> QED BY <3>3, <3>4 DEF StandsFor
  <2> QED BY <1>5, <2>4, <2>5
<1> QED BY <1>1, <1>3, <1>6, <1>7, <1>8, BrokerMoves

(* A row changes where it is.                                              *)
LEMMA RowChangedKeeps ==
  ASSUME Broker!Parameters, BrokerInv, Broker!RowChanged
  PROVE  BrokerInv'
<1>1. /\ v5 = "reading" /\ UNCHANGED <<v2, v3, v4, v5, v6, v7, v8, v9>>
      /\ \E i \in DOMAIN v1, position \in Positions :
           /\ v1' = [v1 EXCEPT ![i].position = position]
           /\ v10' = IF i <= v9 THEN v10 \cup {v1[i].bill} ELSE v10
  BY DEF Broker!RowChanged
<1>2. PICK i \in DOMAIN v1, position \in Positions :
           /\ v1' = [v1 EXCEPT ![i].position = position]
           /\ v10' = IF i <= v9 THEN v10 \cup {v1[i].bill} ELSE v10
  BY <1>1
<1>3. PICK b \in Nat :
        /\ v1 \in Seq(Broker!Rows) /\ Len(v1) <= MaxRows
        /\ b = (v2 - 1) * RowsPerPage /\ b <= v9
        /\ v9 \in Nat /\ v10 \subseteq Bills
        /\ \A bill \in Bills \ v10 : \E k \in Nat : StandsFor(v3, v1, k, b, v9, bill)
  BY <1>1, BrokerReading
<1>4. PICK l \in Nat : l = Len(v1) /\ DOMAIN v1 = 1 .. l
  BY <1>3
<1>5. v1[i] \in Broker!Rows /\ v1[i].bill \in Bills
  <2>1. v1[i] \in Broker!Rows
    BY <1>2, <1>3
  <2> QED BY <2>1 DEF Broker!Rows
<1>6. PICK r \in Broker!Rows : r = [v1[i] EXCEPT !.position = position] /\ r.bill = v1[i].bill
  BY <1>2, <1>5 DEF Broker!Rows
<1>7. v1' = [v1 EXCEPT ![i] = r]
  BY <1>2, <1>6
<1>8. /\ v1' \in Seq(Broker!Rows) /\ Len(v1') = l
      /\ \A j \in 1 .. l : j # i => v1'[j] = v1[j]
      /\ v1'[i].bill = v1[i].bill
  <2> DEFINE X == Broker!Rows
  <2>1. v1 \in Seq(X) /\ r \in X
    BY <1>3
  <2> HIDE DEF X
  <2>2. v1' \in Seq(X) /\ Len(v1') = l /\ v1'[i] = r
    BY <1>2, <1>4, <1>7, <2>1
  <2> QED BY <1>4, <1>6, <1>7, <2>2 DEF X
<1>9. ASSUME NEW bill \in Bills \ v10'
      PROVE  \E k \in Nat : StandsFor(v3, v1', k, b, v9', bill)
  <2>1. bill \in Bills \ v10 /\ (i <= v9 => v1[i].bill # bill)
    BY <1>2
  <2>2. PICK k \in Nat : StandsFor(v3, v1, k, b, v9, bill)
    BY <1>3, <2>1
  <2>3. k <= l /\ k <= v9 /\ (k >= b \/ k = l) /\ HoldsOf(v3, v1, k, bill)
    BY <1>4, <2>2 DEF StandsFor
  <2>4. i \in 1 .. l
    BY <1>2, <1>4
  <2>5. i <= k => v1[i].bill # bill /\ v1'[i].bill # bill
    BY <1>3, <1>8, <2>1, <2>3, <2>4
  <2>6. \A j \in 1 .. k : \/ v1'[j] = v1[j]
                          \/ v1'[j].bill # bill /\ v1[j].bill # bill
    BY <1>8, <2>3, <2>4, <2>5
  <2>7. \A j \in 1 .. k : \A n \in j + 1 .. k : n \in 1 .. k
    OBVIOUS
  <2>8. \A p : Says(v1', k, bill, p) <=> Says(v1, k, bill, p)
    BY <2>6, <2>7 DEF Says
  <2>9. HoldsOf(v3, v1', k, bill)
    BY <2>3, <2>8 DEF HoldsOf
  <2> QED BY <1>1, <1>8, <2>3, <2>9 DEF StandsFor
<1>10. v10' \subseteq Bills /\ v9' \in Nat /\ b <= v9' /\ Len(v1') <= MaxRows
  BY <1>1, <1>2, <1>3, <1>4, <1>5, <1>8
<1> QED BY <1>1, <1>3, <1>8, <1>9, <1>10, BrokerMoves

(* A row goes: the first rows are one fewer, unless that would put one of  *)
(* the page asked for behind the reader.                                   *)
LEMMA RowRemovedKeeps ==
  ASSUME Broker!Parameters, BrokerInv, Broker!RowRemoved
  PROVE  BrokerInv'
<1>1. /\ v5 = "reading" /\ UNCHANGED <<v2, v3, v4, v5, v6, v7, v8>>
      /\ \E i \in DOMAIN v1 :
           LET gone == IF i <= v9 THEN {i} ELSE {}
               skipped == IF i <= Broker!Before THEN {Broker!Before + 1} ELSE {}
           IN /\ v1' = Broker!RemoveAt(v1, i)
              /\ v9' = IF i <= v9 THEN Broker!Max({v9 - 1, Broker!Before}) ELSE v9
              /\ v10' = v10 \cup {v1[n].bill : n \in (gone \cup skipped) \cap DOMAIN v1}
  BY DEF Broker!RowRemoved
<1>2. PICK b \in Nat :
        /\ v1 \in Seq(Broker!Rows) /\ Len(v1) <= MaxRows
        /\ b = (v2 - 1) * RowsPerPage /\ b = Broker!Before /\ b <= v9
        /\ v9 \in Nat /\ v10 \subseteq Bills
        /\ \A bill \in Bills \ v10 : \E k \in Nat : StandsFor(v3, v1, k, b, v9, bill)
  BY <1>1, BrokerReading
<1>3. PICK i \in DOMAIN v1 :
        /\ v1' = Broker!RemoveAt(v1, i)
        /\ v9' = IF i <= v9 THEN Broker!Max({v9 - 1, b}) ELSE v9
        /\ v10 \subseteq v10'
        /\ v10' = v10 \cup {v1[n].bill : n \in ((IF i <= v9 THEN {i} ELSE {})
                                  \cup (IF i <= b THEN {b + 1} ELSE {})) \cap DOMAIN v1}
  BY <1>1, <1>2
<1>4. PICK l \in Nat : l = Len(v1) /\ DOMAIN v1 = 1 .. l
  BY <1>2
<1>5. i \in 1 .. l
  BY <1>3, <1>4
<1>6. /\ i <= v9 => v1[i].bill \in v10'
      /\ i <= b /\ b + 1 <= l => v1[b + 1].bill \in v10'
  <2>1. i <= v9 => v1[i].bill \in v10'
    BY <1>3
  <2>2. i <= b /\ b + 1 <= l => v1[b + 1].bill \in v10'
    <3>1. b + 1 <= l => b + 1 \in DOMAIN v1
      BY <1>2, <1>4
    <3> QED BY <1>3, <3>1
  <2> QED BY <2>1, <2>2
<1>7. v10' \subseteq Bills
  <2>1. ASSUME NEW n \in DOMAIN v1 PROVE v1[n].bill \in Bills
    <3>1. v1[n] \in Broker!Rows
      BY <1>2
    <3> QED BY <3>1 DEF Broker!Rows
  <2> QED BY <1>2, <1>3, <2>1
<1>8. PICK read \in Nat : v9' = read /\ read = IF i <= v9 THEN IF v9 - 1 >= b THEN v9 - 1 ELSE b ELSE v9
  <2>1. CASE i <= v9
    <3>1. v9 - 1 \in Nat
      BY <1>2, <1>5, <2>1
    <3> QED BY <1>2, <1>3, <2>1, <3>1, LargerOfTwo
  <2>2. CASE ~(i <= v9)
    BY <1>2, <1>3, <2>2
  <2> QED BY <2>1, <2>2
<1>9. /\ v1' \in Seq(Broker!Rows) /\ Len(v1') = l - 1 /\ l - 1 <= MaxRows
      /\ \A j \in 1 .. i - 1 : v1'[j] = v1[j]
      /\ \A j \in i .. l - 1 : v1'[j] = v1[j + 1]
  <2> DEFINE X == Broker!Rows
             front == SubSeq(v1, 1, i - 1)
             back == SubSeq(v1, i + 1, l)
  <2>1. v1' = front \o back
    BY <1>3, <1>4 DEF Broker!RemoveAt
  <2>2. v1 \in Seq(X)
    BY <1>2
  <2> HIDE DEF X
  <2>3. /\ front \in Seq(X) /\ Len(front) = i - 1 /\ \A j \in 1 .. i - 1 : front[j] = v1[j]
    BY <1>4, <1>5, <2>2
  <2>4. /\ back \in Seq(X) /\ Len(back) = l - i /\ \A j \in 1 .. l - i : back[j] = v1[j + i]
    BY <1>4, <1>5, <2>2
  <2> HIDE DEF front, back
  <2>5. /\ v1' \in Seq(X) /\ Len(v1') = l - 1
        /\ \A j \in 1 .. i - 1 : v1'[j] = front[j]
        /\ \A j \in 1 .. l - i : v1'[j + (i - 1)] = back[j]
    <3>1. i - 1 \in Nat /\ l - i \in Nat /\ i - 1 + (l - i) = l - 1
      BY <1>5
    <3>2. front \o back \in Seq(X) /\ Len(front \o back) = l - 1
      BY <2>3, <2>4, <3>1, Joined
    <3>3. /\ \A j \in 1 .. i - 1 : (front \o back)[j] = front[j]
          /\ \A j \in 1 .. l - i : (front \o back)[j + (i - 1)] = back[j]
      BY <2>3, <2>4, <3>1, PlacesJoined
    <3> QED BY <2>1, <3>2, <3>3
  <2>6. ASSUME NEW j \in i .. l - 1 PROVE v1'[j] = v1[j + 1]
    <3>1. PICK n \in 1 .. l - i : j = n + (i - 1)
      <4>1. j - (i - 1) \in 1 .. l - i /\ j = j - (i - 1) + (i - 1)
        BY <1>5
      <4> QED BY <4>1
    <3>2. j + 1 = n + i
      BY <1>5, <3>1
    <3>3. v1'[n + (i - 1)] = back[n] /\ back[n] = v1[n + i]
      BY <2>4, <2>5
    <3> QED BY <3>1, <3>2, <3>3
  <2>7. l - 1 <= MaxRows
    BY <1>2, <1>4, BrokerNumbers
  <2> QED BY <2>3, <2>5, <2>6, <2>7 DEF X
<1>10. ASSUME NEW bill \in Bills \ v10'
       PROVE  \E k \in Nat : StandsFor(v3, v1', k, b, v9', bill)
  <2>1. /\ bill \in Bills \ v10 /\ (i <= v9 => v1[i].bill # bill)
        /\ i <= b /\ b + 1 <= l => v1[b + 1].bill # bill
    BY <1>3, <1>6
  <2>2. PICK k \in Nat : StandsFor(v3, v1, k, b, v9, bill)
    BY <1>2, <2>1
  <2>3. k <= l /\ k <= v9 /\ (k >= b \/ k = l) /\ HoldsOf(v3, v1, k, bill)
    BY <1>4, <2>2 DEF StandsFor
  <2>4. CASE k < i
    <3>1. \A j \in 1 .. k : v1'[j] = v1[j]
      BY <1>5, <1>9, <2>4
    <3>2. \A p : Says(v1', k, bill, p) <=> Says(v1, k, bill, p)
      BY <3>1, SaysOfPrefix
    <3>3. HoldsOf(v3, v1', k, bill)
      BY <2>3, <3>2 DEF HoldsOf
    <3>4. k <= v9' /\ k <= Len(v1') /\ k >= b
      BY <1>2, <1>5, <1>8, <1>9, <2>3, <2>4
    <3> QED BY <3>3, <3>4 DEF StandsFor
  <2>5. CASE i <= k
    <3>1. PICK c \in Nat : k = c + 1
      <4>1. k - 1 \in Nat /\ k = k - 1 + 1
        BY <1>5, <2>5
      <4> QED BY <4>1
    <3>2. v1[i].bill # bill
      BY <1>2, <1>5, <2>1, <2>3, <2>5
    <3>3. i \in 1 .. c + 1 /\ \A j \in i .. c : v1[j + 1] = v1'[j]
      BY <1>5, <1>9, <2>3, <2>5, <3>1
    <3>4. \A j \in 1 .. i - 1 : v1[j] = v1'[j]
      BY <1>9
    <3>5. \A p : Says(v1, k, bill, p) <=> Says(v1', c, bill, p)
      BY <3>1, <3>2, <3>3, <3>4, ShiftedRows
    <3>6. HoldsOf(v3, v1', c, bill)
      BY <2>3, <3>5 DEF HoldsOf
    <3>7. CASE k > b \/ k = l
      <4>1. c <= v9' /\ c <= Len(v1') /\ (c >= b \/ c = Len(v1'))
        BY <1>2, <1>5, <1>8, <1>9, <2>3, <2>5, <3>1, <3>7
      <4> QED BY <3>6, <4>1 DEF StandsFor
    <3>8. CASE k = b /\ k < l
      <4>1. v1'[k] = v1[k + 1] /\ v1[k + 1].bill # bill
        <5>1. k \in i .. l - 1
          BY <1>5, <2>5, <3>8
        <5> QED BY <1>9, <2>1, <2>5, <3>8, <5>1
      <4>2. c + 1 \in DOMAIN v1'
        BY <1>5, <1>9, <2>5, <3>1, <3>8
      <4>3. ASSUME NEW p PROVE Says(v1', k, bill, p) <=> Says(v1', c, bill, p)
        <5>1. Says(v1', c + 1, bill, p) <=>
                IF v1'[c + 1].bill = bill /\ v1'[c + 1].position \in Shown
                  THEN p = v1'[c + 1].position
                  ELSE Says(v1', c, bill, p)
          BY <1>9, <4>2, OneMoreRow
        <5> QED BY <3>1, <4>1, <5>1
      <4>4. HoldsOf(v3, v1', k, bill)
        BY <3>6, <4>3 DEF HoldsOf
      <4>5. k <= v9' /\ k <= Len(v1') /\ k >= b
        BY <1>2, <1>5, <1>8, <1>9, <2>3, <3>8
      <4> QED BY <4>4, <4>5 DEF StandsFor
    <3> QED BY <1>2, <2>3, <3>7, <3>8
  <2> QED BY <1>5, <2>4, <2>5
<1>11. Len(v1') <= MaxRows /\ v9' \in Nat /\ b <= v9'
  BY <1>2, <1>5, <1>8, <1>9
<1> QED BY <1>1, <1>2, <1>7, <1>9, <1>10, <1>11, BrokerMoves

(* A page is answered: its rows are those after the pages before, and the  *)
(* answer has what all rows say if no page is left.                        *)
LEMMA BrokerPageAnswered ==
  ASSUME Broker!Parameters, BrokerInv, Broker!PageAnswered
  PROVE  BrokerInv'
<1> DEFINE read == Broker!Entered(v3, Broker!Page(v2))
           more == v2 * RowsPerPage < Len(v1)
<1>1. /\ v5 = "reading" /\ UNCHANGED <<v1, v4, v6, v8, v10>> /\ v3' = read
      /\ v2 > 1 => Broker!Page(v2) # <<>>
      /\ \/ ~more /\ v7' = [listed |-> read, complete |-> TRUE] /\ v5' = "read" /\ v2' = v2
         \/ /\ more /\ v7' = [listed |-> read, complete |-> FALSE]
            /\ v5' = "read" /\ v2' = v2
         \/ more /\ v2 # MaxPages /\ v2' = v2 + 1 /\ UNCHANGED <<v5, v7>>
      /\ v9' = Broker!Max({v9, v2 * RowsPerPage})
  BY DEF Broker!PageAnswered, Broker!Returns
<1>2. /\ Broker!TypeOK /\ OncePerBill(v3) /\ v7 = None
      /\ v8 \notin {"list", "list with a note"}
  BY <1>1 DEF BrokerInv
<1>3. PICK b \in Nat, N \in Nat :
        /\ b = (v2 - 1) * RowsPerPage /\ v2 * RowsPerPage = b + RowsPerPage
        /\ (v2 + 1 - 1) * RowsPerPage = b + RowsPerPage
        /\ Broker!Page(v2) \in Seq(Broker!Rows) /\ N = Len(Broker!Page(v2))
        /\ \A n \in 1 .. N : v1[b + n] = Broker!Page(v2)[n]
        /\ b <= Len(v1) => b + N <= Len(v1)
        /\ b <= Len(v1) /\ more => b + N = v2 * RowsPerPage
        /\ b <= Len(v1) /\ ~more => b + N = Len(v1)
        /\ N > 0 => b <= Len(v1)
        /\ v2 = 1 => b = 0
  BY <1>2, PageOfRows
<1>4. /\ v3 \in Seq(Broker!Listed) /\ v1 \in Seq(Broker!Rows) /\ v2 \in 1 .. MaxPages
      /\ v9 \in Nat /\ v10 \subseteq Bills /\ v2 * RowsPerPage \in Nat
  <2>1. v2 * RowsPerPage \in Nat
    BY <1>3, BrokerNumbers
  <2> QED BY <1>2, <2>1 DEF Broker!TypeOK
<1>5. read \in Seq(Broker!Listed) /\ OncePerBill(read)
  BY <1>2, <1>3, <1>4, PageIsEntered
<1>6. b <= Len(v1) /\ b + N <= Len(v1)
  <2>1. CASE v2 = 1
    BY <1>3, <1>4, <2>1
  <2>2. CASE v2 # 1
    <3>1. v2 > 1
      BY <1>4, <2>2, BrokerNumbers
    <3>2. N > 0
      BY <1>1, <1>3, <3>1
    <3> QED BY <1>3, <3>2
  <2> QED BY <2>1, <2>2
<1>7. ASSUME NEW bill \in Bills \ v10
      PROVE  \E m \in Nat : m >= b + N /\ m <= Len(v1) /\ HoldsOf(read, v1, m, bill)
                           /\ (m <= v9 \/ m = b + N)
  <2>1. PICK k \in Nat : StandsFor(v3, v1, k, b, v9, bill)
    BY <1>1, <1>3 DEF BrokerInv
  <2>2. k <= Len(v1) /\ k <= v9 /\ k >= b /\ HoldsOf(v3, v1, k, bill)
    BY <1>4, <1>6, <2>1 DEF StandsFor
  <2>3. \A n \in 1 .. N : v1[b + n] = Broker!Page(v2)[n]
    BY <1>3
  <2>4. PICK m \in {k, b + N} : m >= b + N /\ HoldsOf(read, v1, m, bill)
    <3>1. OncePerBill(v3)
      BY <1>2
    <3> DEFINE page == Broker!Page(v2)
    <3>2. /\ page \in Seq(Broker!Rows) /\ N = Len(page)
          /\ \A n \in 1 .. N : v1[b + n] = page[n]
      BY <1>3
    <3>3. v3 \in Seq(Broker!Listed) /\ v1 \in Seq(Broker!Rows)
      BY <1>4
    <3>4. HoldsAfter(Broker!Entered(v3, page), v1, k, b + N, bill)
      <4> HIDE DEF page
      <4>1. IsNextPage(page, v1, b, N)
        BY <1>6, <3>2 DEF IsNextPage
      <4>2. k \in Nat /\ k >= b /\ HoldsOf(v3, v1, k, bill)
        BY <2>1, <2>2
      <4> QED BY <1>3, <3>1, <3>2, <3>3, <4>1, <4>2, NextRowsEntered
    <3> QED BY <3>4 DEF HoldsAfter
  <2> HIDE DEF read
  <2> QED BY <1>6, <2>2, <2>4
<1> HIDE DEF read, more
<1>8. v8' \notin {"list", "list with a note"} /\ v8' # "list"
  BY <1>1, <1>2
<1>9. OncePerBill(v3)'
  BY <1>1, <1>5 DEF OncePerBill
<1>10. v9' \in Nat /\ v9' >= v9 /\ v9' >= v2 * RowsPerPage /\ b <= v2 * RowsPerPage
  <2>1. v9' = IF v9 >= v2 * RowsPerPage THEN v9 ELSE v2 * RowsPerPage
    BY <1>1, <1>4, LargerOfTwo
  <2> QED BY <1>3, <1>4, <2>1, BrokerNumbers
<1>11. CASE v5' = "read"
  <2>1. \E done \in BOOLEAN :
          v7' = [listed |-> read, complete |-> done] /\ (done => ~more)
    BY <1>1, <1>11
  <2>2. PICK done \in BOOLEAN :
          v7' = [listed |-> read, complete |-> done] /\ (done => ~more)
    BY <2>1
  <2>3. v2' = v2 /\ v9' >= (v2' - 1) * RowsPerPage
    BY <1>1, <1>3, <1>4, <1>10, <1>11
  <2>4. v7'.listed = read /\ v7'.complete = done
    BY <2>2
  <2>5. Broker!TypeOK'
    BY <1>1, <1>2, <1>5, <1>10, <1>11, <2>3, <2>4 DEF Broker!TypeOK
  <2>6. OncePerBill(v7.listed)'
    BY <1>5, <2>4 DEF OncePerBill
  <2>7. ASSUME v7'.complete, NEW bill \in Bills \ v10'
        PROVE  HoldsOf(v7'.listed, v1', Len(v1'), bill)
    <3>1. PICK m \in Nat : m >= b + N /\ m <= Len(v1) /\ HoldsOf(read, v1, m, bill)
      BY <1>1, <1>7
    <3>2. b + N = Len(v1)
      BY <1>3, <1>6, <2>2, <2>4, <2>7
    <3>3. m = Len(v1)
      BY <1>3, <3>1, <3>2
    <3> QED BY <1>1, <2>4, <3>1, <3>3
  <2> QED BY <1>8, <1>9, <1>11, <2>5, <2>6, <2>7 DEF BrokerInv
<1>12. CASE v5' # "read"
  <2>1. more /\ v2 # MaxPages /\ v2' = v2 + 1 /\ UNCHANGED <<v5, v7>>
    BY <1>1, <1>12
  <2>2. v2' \in 1 .. MaxPages
    BY <1>4, <2>1, BrokerNumbers
  <2>3. (v2' - 1) * RowsPerPage = b + N /\ b + N = v2 * RowsPerPage
    <3>1. v2' - 1 = v2
      BY <1>4, <2>1
    <3> QED BY <1>3, <1>6, <2>1, <3>1
  <2>4. Broker!TypeOK'
    BY <1>1, <1>2, <1>5, <1>10, <2>1, <2>2, <2>3 DEF Broker!TypeOK
  <2>5. ASSUME NEW bill \in Bills \ v10'
        PROVE  \E k \in Nat : StandsFor(v3', v1', k, (v2' - 1) * RowsPerPage, v9', bill)
    <3>1. PICK m \in Nat : m >= b + N /\ m <= Len(v1) /\ HoldsOf(read, v1, m, bill)
                          /\ (m <= v9 \/ m = b + N)
      BY <1>1, <1>7
    <3>2. m <= v9'
      BY <1>4, <1>10, <2>3, <3>1
    <3>3. StandsFor(read, v1, m, b + N, v9', bill)
      BY <3>1, <3>2 DEF StandsFor
    <3> QED BY <1>1, <2>3, <3>3
  <2> QED BY <1>2, <1>8, <1>9, <2>1, <2>4, <2>5 DEF BrokerInv
<1> QED BY <1>11, <1>12

LEMMA BrokerNext ==
  ASSUME Broker!Parameters, BrokerInv, [Broker!Next]_(Broker!vars)
  PROVE  BrokerInv'
<1>0. /\ Broker!TypeOK /\ OncePerBill(v3)
      /\ v8 \in {"list", "list with a note"} => v5 = "over" /\ v7 # None
      /\ v8 = "list" => v7.complete
      /\ v5 = "reading" => v7 = None
  BY DEF BrokerInv
<1>1. CASE Broker!RowInserted \/ Broker!RowChanged \/ Broker!RowRemoved
  BY <1>1, RowInsertedKeeps, RowChangedKeeps, RowRemovedKeeps
<1>2. CASE Broker!PageAnswered
  BY <1>2, BrokerPageAnswered
<1>3. CASE Broker!PageFails
  <2>1. /\ v5 = "reading" /\ v5' = "read" /\ UNCHANGED <<v1, v2, v3, v4, v6, v8, v9, v10>>
        /\ v7' = v7 \/ v7' = [listed |-> v3, complete |-> FALSE]
    BY <1>3 DEF Broker!PageFails, Broker!Returns
  <2>2. v7' # None => v7'.listed = v3 /\ v7'.complete = FALSE
    <3>1. v7 = None
      BY <1>0, <2>1
    <3> QED BY <2>1, <3>1
  <2>3. Broker!TypeOK'
    BY <1>0, <2>1, <2>2 DEF Broker!TypeOK
  <2> QED BY <1>0, <2>1, <2>2, <2>3 DEF BrokerInv, OncePerBill
<1>4. CASE Broker!Formats
  <2>1. /\ v5 = "read" /\ v5' = "over" /\ UNCHANGED <<v1, v2, v3, v4, v6, v7, v9, v10>>
        /\ v8' = Broker!Told
    BY <1>4 DEF Broker!Formats
  <2>2. /\ v8' \in {"nothing", "none verified", "list", "list with a note"}
        /\ v8' \in {"list", "list with a note"} => v7 # None
        /\ v8' = "list" => v7.complete
    BY <2>1 DEF Broker!Told
  <2>3. Broker!TypeOK'
    BY <1>0, <2>1, <2>2 DEF Broker!TypeOK
  <2> QED BY <2>1, <2>2, <2>3 DEF BrokerInv, OncePerBill
<1>5. CASE Broker!HardStop
  <2>1. v5' = "over" /\ v8' = "nothing" /\ UNCHANGED <<v1, v2, v3, v4, v6, v7, v9, v10>>
    BY <1>5 DEF Broker!HardStop
  <2>2. Broker!TypeOK'
    BY <1>0, <2>1 DEF Broker!TypeOK
  <2> QED BY <2>1, <2>2 DEF BrokerInv, OncePerBill
<1>6. ASSUME Broker!Deadline \/ Broker!DetailsAnswered \/ UNCHANGED Broker!vars
      PROVE  BrokerInv'
  <2>1. /\ UNCHANGED <<v1, v2, v3, v5, v7, v8, v9, v10>>
        /\ v4' \in {"running", "known", "unknown"} /\ v6' \in BOOLEAN
    BY <1>0, <1>6 DEF Broker!Deadline, Broker!DetailsAnswered, Broker!vars, Broker!TypeOK
  <2>2. Broker!TypeOK'
    BY <1>0, <2>1 DEF Broker!TypeOK
  <2> QED BY <2>1, <2>2 DEF BrokerInv, OncePerBill
<1> QED BY <1>1, <1>2, <1>3, <1>4, <1>5, <1>6 DEF Broker!Next

LEMMA TrueByInv ==
  ASSUME BrokerInv
  PROVE  Broker!ListIsTrue
<1>1. ASSUME v8 \in {"list", "list with a note"}
      PROVE  \A i, j \in DOMAIN v7.listed : v7.listed[i].bill = v7.listed[j].bill => i = j
  BY <1>1 DEF BrokerInv, OncePerBill
<1>2. ASSUME v8 = "list", NEW bill \in Bills \ v10
      PROVE  Broker!Newest(v7.listed, bill) = Broker!Newest(v1, bill)
  <2> DEFINE list == v7.listed
             l == Len(v1)
  <2>1. /\ OncePerBill(list) /\ HoldsOf(list, v1, l, bill)
        /\ list \in Seq(Broker!Listed) /\ v1 \in Seq(Broker!Rows)
    BY <1>2 DEF BrokerInv, Broker!TypeOK
  <2> HIDE DEF list
  <2>2. PICK n \in Nat : n = Len(list) /\ DOMAIN list = 1 .. n
    BY <2>1
  <2>3. \A i \in 1 .. n : list[i].position \in Shown
    BY <2>1, <2>2 DEF Broker!Listed
  <2>4. ASSUME NEW p PROVE Says(list, n, bill, p) <=> Says(v1, l, bill, p)
    <3>1. ASSUME Has(list, bill, p) PROVE Says(list, n, bill, p)
      <4>1. PICK i \in 1 .. n : list[i].bill = bill /\ list[i].position = p
        BY <2>2, <3>1 DEF Has
      <4>2. \A j \in i + 1 .. n : j \in 1 .. n /\ j # i
        OBVIOUS
      <4>3. \A j \in i + 1 .. n : list[j].bill # bill
        BY <2>1, <2>2, <4>1, <4>2 DEF OncePerBill
      <4> QED BY <2>3, <4>1, <4>3 DEF Says
    <3>2. ASSUME Says(list, n, bill, p) PROVE Has(list, bill, p)
      BY <2>2, <3>2 DEF Says, Has
    <3> QED BY <2>1, <3>1, <3>2 DEF HoldsOf
  <2>5. l \in Nat
    BY <2>1
  <2>6. \/ /\ Broker!Newest(list, bill) = None
           /\ \A p : ~Says(list, n, bill, p)
        \/ Says(list, n, bill, Broker!Newest(list, bill))
    BY <2>1, <2>2, NewestIsSaid
  <2>7. \/ /\ Broker!Newest(v1, bill) = None
           /\ \A p : ~Says(v1, l, bill, p)
        \/ Says(v1, l, bill, Broker!Newest(v1, bill))
    BY <2>1, NewestIsSaid
  <2> HIDE DEF l
  <2>8. Broker!Newest(list, bill) = Broker!Newest(v1, bill)
    BY <2>4, <2>5, <2>6, <2>7, SaidOnce
  <2> QED BY <2>8 DEF list
<1> QED BY <1>1, <1>2 DEF Broker!ListIsTrue

-----------------------------------------------------------------------------
(* CmsLookup: ask is v1, collection v2, listing v3, at v4, offset v5, cache *)
(* v6, fetch v7, shown v8 and disturbed v9.                                *)

\* A side is shown as the record lists it, with what is inline.
AsListed(side, s) ==
  /\ \E set \in SUBSET DOMAIN v3[side] : s = Cms!Ids(Cms!Chosen(v3[side], set))
  /\ \A ref \in Cms!ToSet(v3[side]) : ref.inline => ref.id \in Cms!ToSet(s)

\* The walk has seen what is before its offset.
WalkedPast ==
  /\ v4 \in {"asked", "by id"} => v5 = 0
  /\ v4 = "walking" /\ ~v9 => \A i \in DOMAIN v2 : i <= v5 => v2[i] # Target

\* What is being resolved is the side of the list; what is inline is there.
SideBySide ==
  v4 \in Cms!Sides =>
    /\ DOMAIN v7 = DOMAIN v3[v4]
    /\ \A i \in DOMAIN v7 : v3[v4][i].inline => v7[i] = "given"
    /\ v8 = [what |-> "nothing", support |-> v8.support, oppose |-> v8.oppose]
    /\ v4 = "oppose" => AsListed("support", v8.support)

CmsInv ==
  /\ Cms!TypeOK
  /\ WalkedPast
  /\ SideBySide
  /\ Cms!WalkFindsWhatIsThere
  /\ v4 = "over" /\ v8 # None /\ v8.what = "positions" =>
       \A side \in Cms!Sides : AsListed(side, v8[side])

LEMMA CmsChosen == ASSUME NEW s, NEW K PROVE Cms!Chosen(s, K) = Chosen(s, K)
BY DEF Cms!Chosen, Chosen

LEMMA CmsLists ==
  ASSUME Cms!Parameters, Cms!TypeOK
  PROVE  /\ ItemsPerPage \in Nat \ {0}
         /\ \E S : v2 \in Seq(S)
         /\ \A side \in Cms!Sides : \E S : v3[side] \in Seq(S)
BY DEF Cms!Parameters, Cms!TypeOK, Cms!IsList

LEMMA IndexesAreNumbers ==
  ASSUME Cms!Parameters, Cms!TypeOK
  PROVE  \A i \in DOMAIN v2 : i \in Nat /\ ~(i <= 0)
<1>1. PICK S : v2 \in Seq(S)
  BY CmsLists
<1>2. PICK n \in Nat : n = Len(v2) /\ DOMAIN v2 = 1 .. n
  BY <1>1
<1> QED BY <1>2

LEMMA GivenAreListed ==
  ASSUME Cms!Parameters, Cms!TypeOK, NEW side \in Cms!Sides,
         NEW given, given \subseteq DOMAIN v3[side],
         \A i \in DOMAIN v3[side] : v3[side][i].inline => i \in given
  PROVE  AsListed(side, Cms!Ids(Cms!Chosen(v3[side], given)))
<1> DEFINE l == v3[side]
           c == Chosen(l, given)
<1>1. PICK S : l \in Seq(S)
  BY CmsLists
<1>2. c \in Seq(S)
  BY <1>1, ChosenInOrder
<1>3. given \cap DOMAIN l = given
  OBVIOUS
<1>4. PICK f : Places(f, c, l, given)
  BY <1>1, <1>3, ChosenInOrder
<1>5. Cms!Chosen(l, given) = c
  BY CmsChosen
<1>6. ASSUME NEW ref \in Cms!ToSet(l), ref.inline
      PROVE  ref.id \in Cms!ToSet(Cms!Ids(c))
  <2>1. PICK i \in DOMAIN l : ref = l[i]
    BY DEF Cms!ToSet
  <2>2. i \in given
    BY <1>6, <2>1
  <2> HIDE DEF c, l
  <2>3. PICK n \in DOMAIN c : c[n] = ref
    BY <1>2, <1>4, <2>1, <2>2 DEF Places
  <2>4. n \in DOMAIN Cms!Ids(c) /\ Cms!Ids(c)[n] = ref.id
    BY <2>3 DEF Cms!Ids
  <2> QED BY <2>4 DEF Cms!ToSet
<1> HIDE DEF c
<1> QED BY <1>5, <1>6 DEF AsListed

LEMMA CmsInit ==
  ASSUME Cms!Parameters, Cms!Init
  PROVE  CmsInv
<1>1. Cms!TypeOK
  <2>1. 0 \in 0 .. 0 /\ 0 = 0 * ItemsPerPage
    BY DEF Cms!Parameters
  <2> QED BY <2>1 DEF Cms!Init, Cms!TypeOK
<1>2. v4 = "asked" /\ v5 = 0
  BY DEF Cms!Init
<1> QED BY <1>1, <1>2
           DEF CmsInv, WalkedPast, SideBySide, Cms!WalkFindsWhatIsThere, Cms!Sides

\* A side of the list is resolved: what has it inline is given.
LEMMA ResolvesSide ==
  ASSUME Cms!Parameters, Cms!TypeOK, NEW side \in Cms!Sides, Cms!Resolves(side)
  PROVE  /\ v4' = side
         /\ v7' \in Seq({"running", "given", "dropped"})
         /\ DOMAIN v7' = DOMAIN v3[side]
         /\ \A i \in DOMAIN v7' : v3[side][i].inline => v7'[i] = "given"
<1>1. PICK S : v3[side] \in Seq(S)
  BY CmsLists
<1>2. PICK n \in Nat : DOMAIN v3[side] = 1 .. n
  BY <1>1
<1>3. v4' = side /\ v7' = [i \in DOMAIN v3[side] |->
                 LET ref == v3[side][i]
                 IN IF ref.inline \/ ref.id \in v6 THEN "given"
                    ELSE IF v1.kind = "bill" /\ ~v1.configured THEN "dropped"
                    ELSE "running"]
  BY DEF Cms!Resolves
<1>4. v7' \in [1 .. n -> {"running", "given", "dropped"}]
  BY <1>2, <1>3
<1>5. v7' \in Seq({"running", "given", "dropped"})
  BY <1>4
<1> QED BY <1>2, <1>3, <1>4, <1>5

\* The item is there: it is shown, or what it lists is resolved.
LEMMA FoundKeeps ==
  ASSUME Cms!Parameters, CmsInv, Cms!Found, UNCHANGED <<v1, v2, v3, v6>>,
         v5' = v5, v9' \in BOOLEAN
  PROVE  CmsInv'
<1>0. Cms!TypeOK
  BY DEF CmsInv
<1>1. CASE /\ v4' = "over" /\ v7' = v7
           /\ \/ v8' = [Cms!Nothing EXCEPT !.what = "details"]
              \/ v8' = [Cms!Nothing EXCEPT !.what = "none recorded"]
  <2>1. v8'.what \in {"details", "none recorded"} /\ v8' # Cms!Nothing
    <3>1. Cms!Nothing.what = "nothing" /\ v8'.what \in {"details", "none recorded"}
      BY <1>1 DEF Cms!Nothing
    <3>2. v8'.what # "nothing"
      BY <3>1
    <3> QED BY <3>1, <3>2
  <2>2. Cms!TypeOK'
    BY <1>0, <1>1, <2>1 DEF Cms!TypeOK
  <2> QED BY <1>1, <2>1, <2>2
          DEF CmsInv, WalkedPast, SideBySide, Cms!WalkFindsWhatIsThere, Cms!Sides, Cms!Nothing
<1>2. CASE Cms!Resolves("support") /\ v8' = Cms!Nothing
  <2>1. "support" \in Cms!Sides
    BY DEF Cms!Sides
  <2>2. /\ v4' = "support"
        /\ v7' \in Seq({"running", "given", "dropped"})
        /\ DOMAIN v7' = DOMAIN v3["support"]
        /\ \A i \in DOMAIN v7' : v3["support"][i].inline => v7'[i] = "given"
    BY <1>0, <1>2, <2>1, ResolvesSide
  <2>3. v8' = [what |-> "nothing", support |-> v8'.support, oppose |-> v8'.oppose]
        /\ v8'.what = "nothing"
    BY <1>2 DEF Cms!Nothing
  <2>4. Cms!TypeOK'
    BY <1>0, <2>1, <2>2, <2>3 DEF Cms!TypeOK
  <2>5. SideBySide'
    BY <2>2, <2>3 DEF SideBySide
  <2> QED BY <2>2, <2>4, <2>5 DEF CmsInv, WalkedPast, Cms!WalkFindsWhatIsThere
<1> QED BY <1>1, <1>2 DEF Cms!Found, Cms!Ends

\* A lookup that ends with nothing.
LEMMA NotFoundKeeps ==
  ASSUME Cms!Parameters, CmsInv, Cms!NotFound, UNCHANGED <<v1, v2, v3, v5, v6>>,
         v9' \in BOOLEAN,
         "slug" \in v1.by /\ (v1.kind = "bill" \/ v1.configured)
           => v9' \/ Target \notin Cms!ToSet(v2)
  PROVE  CmsInv'
<1>1. v4' = "over" /\ v8' = Cms!Nothing /\ v7' = v7 /\ v8'.what = "nothing"
  BY DEF Cms!NotFound, Cms!Ends, Cms!Nothing
<1>2. Cms!TypeOK'
  BY <1>1 DEF CmsInv, Cms!TypeOK
<1>3. Cms!WalkFindsWhatIsThere'
  <2>1. Cms!ToSet(v2)' = Cms!ToSet(v2)
    BY DEF Cms!ToSet
  <2> QED BY <2>1 DEF Cms!WalkFindsWhatIsThere
<1> QED BY <1>1, <1>2, <1>3 DEF CmsInv, WalkedPast, SideBySide, Cms!Sides

LEMMA LesserOfTwo ==
  ASSUME NEW a \in Int, NEW b \in Int
  PROVE  Cms!Min({a, b}) = IF a <= b THEN a ELSE b
BY DEF Cms!Min

(* What a page has, and what is left when it is the last one.              *)
LEMMA PageOfWalk ==
  ASSUME Cms!Parameters, Cms!TypeOK
  PROVE  /\ Target \notin Cms!ToSet(Cms!Page) =>
              \A i \in DOMAIN v2 : v5 < i /\ i <= v5 + ItemsPerPage => v2[i] # Target
         /\ Cms!Page = <<>> \/ Cms!LastPage(Cms!Page, Len(v2)) =>
              \A i \in DOMAIN v2 : i <= v5 + ItemsPerPage
<1>1. PICK S : v2 \in Seq(S)
  BY CmsLists
<1>2. PICK n \in Nat : n = Len(v2) /\ DOMAIN v2 = 1 .. n
  BY <1>1
<1>3. v5 \in Nat /\ ItemsPerPage \in Nat \ {0}
  BY DEF Cms!Parameters, Cms!TypeOK
<1>4. PICK m \in Int : m = IF v5 + ItemsPerPage <= n THEN v5 + ItemsPerPage ELSE n
  BY <1>3
<1>5. Cms!Min({v5 + ItemsPerPage, Len(v2)}) = m
  BY <1>2, <1>3, <1>4, LesserOfTwo
<1>6. Cms!Page = SubSeq(v2, v5 + 1, m)
  BY <1>5 DEF Cms!Page
<1>7. m <= n
  BY <1>3, <1>4
<1>8. /\ Len(Cms!Page) = IF v5 + 1 <= m THEN m - v5 ELSE 0
      /\ DOMAIN Cms!Page = 1 .. Len(Cms!Page)
      /\ \A j \in 1 .. Len(Cms!Page) : Cms!Page[j] = v2[v5 + j]
  BY <1>1, <1>2, <1>3, <1>6, <1>7
<1>9. ASSUME Target \notin Cms!ToSet(Cms!Page), NEW i \in DOMAIN v2,
             v5 < i, i <= v5 + ItemsPerPage
      PROVE  v2[i] # Target
  <2>1. i - v5 \in 1 .. Len(Cms!Page) /\ v5 + (i - v5) = i
    BY <1>2, <1>3, <1>4, <1>8, <1>9
  <2>2. Cms!Page[i - v5] = v2[i]
    BY <1>8, <2>1
  <2> QED BY <1>8, <1>9, <2>1, <2>2 DEF Cms!ToSet
<1>10. ASSUME Cms!Page = <<>> \/ Cms!LastPage(Cms!Page, Len(v2)), NEW i \in DOMAIN v2
       PROVE  i <= v5 + ItemsPerPage
  <2>1. \/ Len(Cms!Page) = 0
        \/ v5 + Len(Cms!Page) >= n
        \/ Len(Cms!Page) < ItemsPerPage
    BY <1>2, <1>10 DEF Cms!LastPage
  <2>2. i \in Nat /\ i <= n
    BY <1>2
  <2>3. PICK l \in Int : l = Len(Cms!Page) /\ l = IF v5 + 1 <= m THEN m - v5 ELSE 0
    BY <1>3, <1>8
  <2> QED BY <1>3, <1>4, <1>7, <2>1, <2>2, <2>3
<1> QED BY <1>9, <1>10

(* A page of the walk.                                                     *)
LEMMA WalkKeeps ==
  ASSUME Cms!Parameters, CmsInv, v4 = "walking",
         NEW total \in {0, Len(v2)}, Cms!PageAnswered(Cms!Page, total),
         UNCHANGED <<v1, v2, v3, v6>>
  PROVE  CmsInv'
<1>0. Cms!TypeOK /\ v9 \in BOOLEAN /\ v5 \in Nat /\ ItemsPerPage \in Nat \ {0}
  BY DEF CmsInv, Cms!TypeOK, Cms!Parameters
<1>1. v9' = (v9 \/ total # Len(v2)) /\ v9' \in BOOLEAN
  BY <1>0 DEF Cms!PageAnswered
<1>2. CASE Target \in Cms!ToSet(Cms!Page)
  BY <1>1, <1>2, FoundKeeps DEF Cms!PageAnswered
<1>3. CASE Target \notin Cms!ToSet(Cms!Page)
  <2>1. ASSUME ~v9'
        PROVE  /\ total = Len(v2)
               /\ \A i \in DOMAIN v2 : i <= v5 + ItemsPerPage => v2[i] # Target
    <3>1. total = Len(v2) /\ ~v9
      BY <1>1, <2>1
    <3>2. \A i \in DOMAIN v2 : i <= v5 => v2[i] # Target
      BY <3>1 DEF CmsInv, WalkedPast
    <3>3. \A i \in DOMAIN v2 : v5 < i /\ i <= v5 + ItemsPerPage => v2[i] # Target
      BY <1>0, <1>3, PageOfWalk
    <3>4. \A i \in DOMAIN v2 : i \in Nat
      BY <1>0, IndexesAreNumbers
    <3> QED BY <1>0, <3>1, <3>2, <3>3, <3>4
  <2>2. CASE Cms!Page = <<>> \/ Cms!LastPage(Cms!Page, total)
    <3>1. Cms!NotFound /\ v5' = v5
      BY <1>3, <2>2 DEF Cms!PageAnswered
    <3>2. v9' \/ Target \notin Cms!ToSet(v2)
      <4> SUFFICES ASSUME ~v9' PROVE Target \notin Cms!ToSet(v2)
        OBVIOUS
      <4>1. \A i \in DOMAIN v2 : i <= v5 + ItemsPerPage
        BY <1>0, <2>1, <2>2, PageOfWalk
      <4> QED BY <2>1, <4>1 DEF Cms!ToSet
    <3> QED BY <1>1, <3>1, <3>2, NotFoundKeeps
  <2>3. CASE ~(Cms!Page = <<>> \/ Cms!LastPage(Cms!Page, total))
    <3>1. v5' = v5 + ItemsPerPage /\ UNCHANGED <<v4, v7, v8>>
      BY <1>3, <2>3 DEF Cms!PageAnswered
    <3>2. WalkedPast'
      BY <2>1, <3>1 DEF WalkedPast
    <3>3. v5' \in Nat /\ \E k \in 0 .. v5' : v5' = k * ItemsPerPage
      <4>1. PICK k \in 0 .. v5 : v5 = k * ItemsPerPage
        BY <1>0 DEF Cms!TypeOK
      <4>2. v5' = (k + 1) * ItemsPerPage
        BY <1>0, <3>1, <4>1
      <4>3. k + 1 \in 0 .. v5'
        BY <1>0, <3>1, <4>1
      <4>4. v5' \in Nat
        BY <1>0, <3>1
      <4> QED BY <4>2, <4>3, <4>4
    <3>4. Cms!TypeOK'
      BY <1>0, <1>1, <3>1, <3>3 DEF Cms!TypeOK
    <3> QED BY <3>1, <3>2, <3>4 DEF CmsInv, SideBySide, Cms!Sides, Cms!WalkFindsWhatIsThere
  <2> QED BY <2>2, <2>3
<1> QED BY <1>2, <1>3

(* A reference is answered, or not: nothing that was given is taken away.  *)
LEMMA FetchedKeeps ==
  ASSUME Cms!Parameters, CmsInv, NEW kind, NEW i, Cms!Fetched(kind, i)
  PROVE  CmsInv'
<1>0. Cms!TypeOK /\ v4 \in Cms!Sides /\ i \in DOMAIN v7 /\ v7[i] = "running"
  BY DEF CmsInv, Cms!Fetched, Cms!Running
<1>1. /\ UNCHANGED <<v1, v2, v3, v4, v5, v8, v9>>
      /\ \E state \in {"given", "dropped"} : v7' = [v7 EXCEPT ![i] = state]
  BY DEF Cms!Fetched
<1>2. PICK state \in {"given", "dropped"} : v7' = [v7 EXCEPT ![i] = state]
  BY <1>1
<1>3. v7 \in Seq({"running", "given", "dropped"})
  <2>1. Cms!NoFetch \in Seq({"running", "given", "dropped"})
    BY DEF Cms!NoFetch
  <2>2. v7 = Cms!NoFetch \/ v7 \in Seq({"running", "given", "dropped"})
    BY <1>0 DEF Cms!TypeOK
  <2> QED BY <2>1, <2>2
<1>4. v7' \in Seq({"running", "given", "dropped"}) /\ DOMAIN v7' = DOMAIN v7
      /\ \A j \in DOMAIN v7 : v7'[j] = IF j = i THEN state ELSE v7[j]
  BY <1>0, <1>2, <1>3
<1>5. Cms!TypeOK'
  BY <1>0, <1>1, <1>4 DEF Cms!TypeOK
<1>6. ~v3[v4][i].inline
  BY <1>0 DEF CmsInv, SideBySide
<1>7. SideBySide'
  <2>1. v4 = "oppose" => AsListed("support", v8.support)'
    BY <1>0, <1>1 DEF CmsInv, SideBySide, AsListed
  <2> QED BY <1>0, <1>1, <1>4, <1>6, <2>1 DEF CmsInv, SideBySide
<1>8. v4 # "over" /\ v4 # "walking"
  BY <1>0 DEF Cms!Sides
<1> QED BY <1>1, <1>5, <1>7, <1>8 DEF CmsInv, WalkedPast, Cms!WalkFindsWhatIsThere

(* A side is resolved: on to the other one, or to the answer.              *)
LEMMA ResolvedKeeps ==
  ASSUME Cms!Parameters, CmsInv, NEW kind, Cms!Resolved(kind)
  PROVE  CmsInv'
<1> DEFINE given == {i \in DOMAIN v7 : v7[i] = "given"}
           side == Cms!Ids(Cms!Chosen(v3[v4], given))
           answer == [v8 EXCEPT ![v4] = side]
<1>0. /\ Cms!TypeOK /\ v4 \in Cms!Sides /\ UNCHANGED <<v1, v2, v3, v5, v6, v9>>
      /\ \A i \in DOMAIN v7 : v7[i] # "running"
  BY DEF CmsInv, Cms!Resolved
<1>1. IF v4 = "support"
        THEN Cms!Resolves("oppose") /\ v8' = answer
        ELSE Cms!Ends([answer EXCEPT !.what =
                         IF answer.support = <<>> /\ answer.oppose = <<>> THEN "none recorded"
                         ELSE "positions"])
  BY DEF Cms!Resolved
<1>2. /\ DOMAIN v7 = DOMAIN v3[v4]
      /\ \A i \in DOMAIN v7 : v3[v4][i].inline => v7[i] = "given"
      /\ v8 = [what |-> "nothing", support |-> v8.support, oppose |-> v8.oppose]
      /\ v4 = "oppose" => AsListed("support", v8.support)
  BY <1>0 DEF CmsInv, SideBySide
<1>3. AsListed(v4, side)
  BY <1>0, <1>2, GivenAreListed
<1>4. \A s : \A l : AsListed(s, l)' <=> AsListed(s, l')
  BY <1>0 DEF AsListed
<1> HIDE DEF side
<1>5. CASE v4 = "support"
  <2>1. Cms!Resolves("oppose") /\ v8' = answer
    BY <1>1, <1>5
  <2>2. /\ v4' = "oppose"
        /\ v7' \in Seq({"running", "given", "dropped"})
        /\ DOMAIN v7' = DOMAIN v3["oppose"]
        /\ \A i \in DOMAIN v7' : v3["oppose"][i].inline => v7'[i] = "given"
    BY <1>0, <2>1, ResolvesSide DEF Cms!Sides
  <2>3. /\ v8' = [what |-> "nothing", support |-> side, oppose |-> v8.oppose]
        /\ v8' = [what |-> "nothing", support |-> v8'.support, oppose |-> v8'.oppose]
        /\ v8'.support = side /\ v8'.what = "nothing"
    <3>1. PICK opp : v8 = [what |-> "nothing", support |-> v8.support, oppose |-> opp]
                     /\ opp = v8.oppose
      BY <1>2
    <3>2. PICK sup : v8 = [what |-> "nothing", support |-> sup, oppose |-> opp]
      BY <3>1
    <3>3. v8' = [what |-> "nothing", support |-> side, oppose |-> opp]
      BY <1>5, <2>1, <3>2
    <3> QED BY <3>1, <3>3
  <2>4. AsListed("support", v8.support)'
    BY <1>0, <1>3, <1>5, <2>3 DEF AsListed
  <2>5. Cms!TypeOK'
    BY <1>0, <2>2, <2>3 DEF Cms!TypeOK, Cms!Sides
  <2>6. SideBySide'
    BY <1>0, <2>2, <2>3, <2>4 DEF SideBySide
  <2> QED BY <2>2, <2>5, <2>6 DEF CmsInv, WalkedPast, Cms!WalkFindsWhatIsThere
<1>6. CASE v4 = "oppose"
  <2>1. /\ v4' = "over" /\ v7' = v7
        /\ v8' = [answer EXCEPT !.what =
                         IF answer.support = <<>> /\ answer.oppose = <<>> THEN "none recorded"
                         ELSE "positions"]
    BY <1>1, <1>6 DEF Cms!Ends
  <2>2. answer = [what |-> "nothing", support |-> v8.support, oppose |-> side]
    <3>1. PICK sup : v8 = [what |-> "nothing", support |-> sup, oppose |-> v8.oppose]
                     /\ sup = v8.support
      BY <1>2
    <3>2. PICK opp : v8 = [what |-> "nothing", support |-> sup, oppose |-> opp]
      BY <3>1
    <3>3. answer = [what |-> "nothing", support |-> sup, oppose |-> side]
      BY <1>6, <3>2
    <3> QED BY <3>1, <3>3
  <2>3. /\ v8'.what \in {"none recorded", "positions"}
        /\ v8'.support = v8.support /\ v8'.oppose = side
    BY <2>1, <2>2
  <2>4. v8'.what # "nothing" /\ v8' # Cms!Nothing
    <3>1. Cms!Nothing.what = "nothing"
      BY DEF Cms!Nothing
    <3>2. v8'.what # "nothing"
      BY <2>3
    <3> QED BY <3>1, <3>2
  <2>5. \A s \in Cms!Sides : AsListed(s, v8[s])'
    <3>1. AsListed("support", v8.support)'
      BY <1>0, <1>2, <1>6, <2>3 DEF AsListed
    <3>2. AsListed("oppose", v8.oppose)'
      BY <1>0, <1>3, <1>6, <2>3 DEF AsListed
    <3> QED BY <3>1, <3>2 DEF Cms!Sides
  <2>6. Cms!TypeOK'
    BY <1>0, <2>1, <2>3 DEF Cms!TypeOK
  <2> QED BY <2>1, <2>4, <2>5, <2>6
          DEF CmsInv, WalkedPast, SideBySide, Cms!WalkFindsWhatIsThere, Cms!Sides
<1> QED BY <1>0, <1>5, <1>6 DEF Cms!Sides

\* From the start to the walk, which starts with the first page.
LEMMA ToTheWalk ==
  ASSUME Cms!Parameters, CmsInv, v4 \in {"asked", "by id"}, v4' \in {"by id", "walking"},
         UNCHANGED <<v1, v2, v3, v5, v7, v8, v9>>
  PROVE  CmsInv'
<1>1. Cms!TypeOK /\ v5 = 0
  BY DEF CmsInv, WalkedPast
<1>2. Cms!TypeOK'
  BY <1>1 DEF Cms!TypeOK
<1>3. \A i \in DOMAIN v2 : ~(i <= 0)
  BY <1>1, IndexesAreNumbers
<1> QED BY <1>1, <1>2, <1>3
        DEF CmsInv, WalkedPast, SideBySide, Cms!Sides, Cms!WalkFindsWhatIsThere

LEMMA CmsNext ==
  ASSUME Cms!Parameters, CmsInv, [Cms!Next]_(Cms!vars)
  PROVE  CmsInv'
<1>0. Cms!TypeOK /\ v9 \in BOOLEAN
  BY DEF CmsInv, Cms!TypeOK
<1>1. CASE Cms!Begin
  BY <1>0, <1>1, NotFoundKeeps, ToTheWalk DEF Cms!Begin
<1>2. ASSUME NEW kind, NEW made, Cms!ById(kind, made) PROVE CmsInv'
  BY <1>0, <1>2, FoundKeeps, NotFoundKeeps, ToTheWalk DEF Cms!ById
<1>3. ASSUME NEW kind \in Cms!Kinds, NEW made, Cms!Walk(kind, made),
             made \/ (v1.kind # "bill" /\ ~v1.configured)
      PROVE  CmsInv'
  <2>1. v4 = "walking" /\ v1.kind = kind /\ UNCHANGED <<v1, v2, v3, v6>>
    BY <1>3 DEF Cms!Walk
  <2>2. CASE ~made
    BY <1>0, <1>3, <2>1, <2>2, NotFoundKeeps DEF Cms!Walk
  <2>3. CASE made /\ \E total \in {0, Len(v2)} : Cms!PageAnswered(Cms!Page, total)
    BY <2>1, <2>3, WalkKeeps
  <2>4. CASE made /\ Cms!PageFails
    BY <1>0, <2>1, <2>4, NotFoundKeeps DEF Cms!PageFails
  <2> QED BY <1>3, <2>2, <2>3, <2>4 DEF Cms!Walk
<1>4. CASE Cms!BillById \/ Cms!OrganizationById \/ Cms!LegislatorById
  BY <1>2, <1>4 DEF Cms!BillById, Cms!OrganizationById, Cms!LegislatorById
<1>5. CASE Cms!WalkBills \/ Cms!WalkOrganizations \/ Cms!WalkLegislators
  <2>1. Cms!Kinds = {"bill", "organization", "legislator"}
    BY DEF Cms!Kinds
  <2>2. \/ Cms!Walk("bill", TRUE)
        \/ Cms!Walk("organization", v1.configured)
        \/ Cms!Walk("legislator", v1.configured)
    BY <1>5 DEF Cms!WalkBills, Cms!WalkOrganizations, Cms!WalkLegislators
  <2>3. \A kind, made : Cms!Walk(kind, made) => v1.kind = kind
    BY DEF Cms!Walk
  <2> QED BY <1>3, <2>1, <2>2, <2>3
<1>6. ASSUME NEW i, Cms!OrganizationFetched(i) \/ Cms!BillFetched(i) PROVE CmsInv'
  BY <1>6, FetchedKeeps DEF Cms!OrganizationFetched, Cms!BillFetched
<1>7. CASE Cms!OrganizationsResolved \/ Cms!BillsResolved
  BY <1>7, ResolvedKeeps DEF Cms!OrganizationsResolved, Cms!BillsResolved
<1>8. CASE Cms!Edited
  BY <1>8 DEF Cms!Edited, CmsInv, Cms!TypeOK, WalkedPast, SideBySide, Cms!Sides,
              Cms!WalkFindsWhatIsThere
<1>9. CASE UNCHANGED Cms!vars
  <2>1. UNCHANGED <<v1, v2, v3, v4, v5, v6, v7, v8, v9>>
    BY <1>9 DEF Cms!vars
  <2>2. Cms!TypeOK' /\ WalkedPast' /\ Cms!WalkFindsWhatIsThere'
    BY <2>1 DEF CmsInv, Cms!TypeOK, WalkedPast, Cms!WalkFindsWhatIsThere, Cms!ToSet
  <2>3. SideBySide'
    BY <2>1 DEF CmsInv, SideBySide, AsListed
  <2>4. v4' = "over" /\ v8' # None /\ v8'.what = "positions" =>
          \A side \in Cms!Sides : AsListed(side, v8[side])'
    BY <2>1 DEF CmsInv, AsListed
  <2> QED BY <2>2, <2>3, <2>4 DEF CmsInv
<1> QED BY <1>1, <1>4, <1>5, <1>6, <1>7, <1>8, <1>9 DEF Cms!Next

LEMMA ListedByInv ==
  ASSUME CmsInv
  PROVE  Cms!WalkFindsWhatIsThere /\ Cms!ShownAsListed
BY DEF CmsInv, AsListed, Cms!ShownAsListed

-----------------------------------------------------------------------------
(* The parts together                                                      *)

PartInv ==
  /\ part \in {"start", "roster", "probe", "embedding", "broker", "cms"}
  /\ part = "start" => SInv
  /\ part = "roster" => RosterInv
  /\ part = "probe" => ProbeInv
  /\ part = "embedding" => VectorsInv
  /\ part = "broker" => BrokerInv
  /\ part = "cms" => CmsInv

(* A step of the whole is one of the part, which stays the part it is.     *)
LEMMA StepOfPart ==
  ASSUME [Next]_vars
  PROVE  /\ part' = part
         /\ part = "start" => [Start!Next]_(Start!vars)
         /\ part = "roster" => [Roster!Next]_(Roster!vars)
         /\ part = "probe" => [Probe!Next]_(Probe!vars)
         /\ part = "embedding" => [Embedding!Next]_(Embedding!vars)
         /\ part = "broker" => [Broker!Next]_(Broker!vars)
         /\ part = "cms" => [Cms!Next]_(Cms!vars)
<1>1. CASE Next
  BY <1>1 DEF Next, EmbeddingStep, RosterStep, ProbeStep, StartStep, BrokerStep, CmsStep
<1>2. CASE UNCHANGED vars
  BY <1>2
     DEF vars, Start!vars, Roster!vars, Probe!vars, Embedding!vars, Broker!vars, Cms!vars
<1> QED BY <1>1, <1>2

LEMMA PartInvariant == Spec => []PartInv
<1>1. Init => PartInv
  BY ServicesAssumption, StartInvInit, RosterInit, ProbeInit, VectorsInit, BrokerInit, CmsInit
     DEF Init, PartInv
<1>2. PartInv /\ [Next]_vars => PartInv'
  BY ServicesAssumption, StepOfPart, StartInvStep, RosterNext, ProbeNext, VectorsNext,
     BrokerNext, CmsNext DEF PartInv
<1> QED BY <1>1, <1>2, PTL DEF Spec

(* Each service keeps its types, for any values of the constants.          *)
THEOREM TypeCorrect == Spec => []TypesOK
<1>1. PartInv => TypesOK
  BY DEF PartInv, SInv, RosterInv, ProbeInv, VectorsInv, BrokerInv, CmsInv, TypesOK
<1> QED BY <1>1, PartInvariant, PTL

(* connect and _ensure_slack_started: whatever the order and overlap of a  *)
(* worker's first connects, whether or not Slack was out of reach, the     *)
(* worker hears its agents once they are over, unless a subscription failed*)
(* or a listener crashed; and only sockets whose connect failed stay       *)
(* registered.                                                             *)
THEOREM WorkerHearsTheorem == Spec => []WorkerHears
<1>1. PartInv => WorkerHears
  BY HearsByInv DEF PartInv, WorkerHears
<1> QED BY <1>1, PartInvariant, PTL

(* PartyRoster, with any number of visitors and changes of party: a roster *)
(* is replaced by a whole one that is not older, but by one whose download *)
(* was under way when the present one came.                                *)
THEOREM RosterTheorem == Spec => RosterOnlyImproves
<1>1. PartInv /\ [Next]_vars => [part = "roster" => Roster!Improves]_vars
  BY ServicesAssumption, StepOfPart, RosterNext DEF PartInv
<1> QED BY <1>1, PartInvariant, PTL DEF Spec, RosterOnlyImproves

(* embed_query and health_check: however many ask at once and whoever      *)
(* leaves, a text has one request under way and a window one call; what    *)
(* failed is handed to nobody who asks later; and the vectors kept exceed  *)
(* their bound only by requests that ran at once.                          *)
THEOREM SharedTheorem == Spec => []RequestsAreShared
<1>1. PartInv => RequestsAreShared
  BY ServicesAssumption, SharedByInv, CallsByInv DEF PartInv, RequestsAreShared
<1> QED BY <1>1, PartInvariant, PTL

(* get_org_bill_positions, with any number of bills, rows and pages, and   *)
(* rows that come while the pages are read: a bill is listed once, and a   *)
(* list without the note has every bill with its newest shown position,    *)
(* unless a row was withdrawn meanwhile.                                   *)
THEOREM PositionsTheorem == Spec => []PositionsAreTrue
<1>1. PartInv => PositionsAreTrue
  BY TrueByInv DEF PartInv, PositionsAreTrue
<1> QED BY <1>1, PartInvariant, PTL

(* The lookups of webflow_lookup, in collections of any length: a walk     *)
(* that nothing disturbs finds what is there, and what is shown of a list  *)
(* of positions is in the order the CMS has it, with all that is inline.   *)
THEOREM CmsTheorem == Spec => []CmsIsShownAsListed
<1>1. PartInv => CmsIsShownAsListed
  BY ListedByInv DEF PartInv, CmsIsShownAsListed
<1> QED BY <1>1, PartInvariant, PTL
=============================================================================
