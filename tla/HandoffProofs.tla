---------------------------- MODULE HandoffProofs ----------------------------
(***************************************************************************)
(* Proofs about Handoff, for any workers, threads and bounds.              *)
(***************************************************************************)
EXTENDS Handoff, TLAPS

-----------------------------------------------------------------------------
(* Type correctness                                                        *)

\* The worker that awaits Slack for a confirm_handoff has the session.
CreatingHasSession ==
  \A t \in Threads : creating[t] # None => session[creating[t].worker] # None

\* The visitor's live socket is his newest.
LiveIsNewest ==
  \A w \in Workers : at = w => registered[w] = connects /\ connects # 0

TInv == TypeOK /\ CreatingHasSession /\ LiveIsNewest

LEMMA NewRevision ==
  ASSUME NEW s \in Sessions, NEW n \in Nat
  PROVE  [s EXCEPT !.rev = n] \in Sessions
BY DEF Sessions

(* What a save leaves of a session: all of it, but for the revision.       *)
LEMMA StoresKeeps ==
  ASSUME NEW s \in Sessions
  PROVE  /\ Stores(s) \in Sessions
         /\ Stores(s).active = s.active /\ Stores(s).thread = s.thread
         /\ Stores(s).joined = s.joined /\ Stores(s).heard = s.heard
         /\ Stores(s).rev = IF redis /\ ~Refused(s) THEN s.rev + 1 ELSE s.rev
<1>1. s.rev + 1 \in Nat
  BY DEF Sessions
<1>2. [s EXCEPT !.rev = @ + 1] = [s EXCEPT !.rev = s.rev + 1]
  BY DEF Sessions
<1>3. [s EXCEPT !.rev = @ + 1] \in Sessions
  BY <1>1, <1>2, NewRevision
<1>4. /\ [s EXCEPT !.rev = @ + 1].active = s.active
      /\ [s EXCEPT !.rev = @ + 1].thread = s.thread
      /\ [s EXCEPT !.rev = @ + 1].joined = s.joined
      /\ [s EXCEPT !.rev = @ + 1].heard = s.heard
      /\ [s EXCEPT !.rev = @ + 1].rev = s.rev + 1
  BY DEF Sessions
<1> QED BY <1>3, <1>4 DEF Stores

LEMMA SaveType ==
  ASSUME TypeOK, NEW w \in Workers, NEW s \in Sessions, SaveSession(w, s)
  PROVE  /\ session' \in [Workers -> Sessions \cup {None}]
         /\ session'[w] = Stores(s) /\ session'[w] # None
         /\ \A u \in Workers : u # w => session'[u] = session[u]
         /\ saved' \in Sessions \cup {None}
BY StoresKeeps, NoneIsNoValue DEF SaveSession, TypeOK

(* What an agent's reply leaves of a session.                              *)
LEMMA HeardKeeps ==
  ASSUME TypeOK, NEW w \in Workers, NEW r \in Acts
  PROVE  /\ Heard(w, r) \in Sessions \cup {None}
         /\ Heard(w, r) = None <=> session[w] = None
         /\ session[w] # None =>
              /\ Heard(w, r).rev = session[w].rev
              /\ Heard(w, r).active = session[w].active
              /\ Heard(w, r).thread = session[w].thread
              /\ Heard(w, r).heard = session[w].heard \cup {r}
<1>1. CASE session[w] = None
  BY <1>1 DEF Heard
<1>2. CASE session[w] # None
  <2>1. session[w] \in Sessions
    BY <1>2 DEF TypeOK
  <2>2. session[w].heard \cup {r} \in SUBSET Acts
    BY <2>1 DEF Sessions
  <2>3. Heard(w, r) = [[session[w] EXCEPT !.heard = session[w].heard \cup {r}] EXCEPT !.joined = TRUE]
    BY <1>2 DEF Heard
  <2>4. Heard(w, r) \in Sessions
    BY <2>1, <2>2, <2>3 DEF Sessions
  <2> QED BY <1>2, <2>1, <2>3, <2>4, NoneIsNoValue DEF Sessions
<1> QED BY <1>1, <1>2

(* What a check mark leaves of a session.                                  *)
LEMMA ReturnedKeeps ==
  ASSUME TypeOK, NEW w \in Workers
  PROVE  /\ Returned(w) \in Sessions \cup {None}
         /\ Returned(w) = None <=> session[w] = None
         /\ session[w] # None =>
              /\ Returned(w).rev = session[w].rev
              /\ ~Returned(w).active
              /\ Returned(w).thread = session[w].thread
              /\ Returned(w).heard = session[w].heard
<1>1. CASE session[w] = None
  BY <1>1 DEF Returned
<1>2. CASE session[w] # None
  <2>1. session[w] \in Sessions
    BY <1>2 DEF TypeOK
  <2>2. Returned(w) = [[session[w] EXCEPT !.active = FALSE] EXCEPT !.joined = FALSE]
    BY <1>2 DEF Returned
  <2>3. Returned(w) \in Sessions
    BY <2>1, <2>2 DEF Sessions
  <2> QED BY <1>2, <2>1, <2>2, <2>3, NoneIsNoValue DEF Sessions
<1> QED BY <1>1, <1>2

(* The session that confirm_handoff leaves.                                *)
LEMMA EnteredKeeps ==
  ASSUME NEW s \in Sessions, NEW t \in Threads
  PROVE  /\ [s EXCEPT !.active = TRUE, !.thread = t] \in Sessions
         /\ [s EXCEPT !.active = TRUE, !.thread = t].rev = s.rev
         /\ [s EXCEPT !.active = TRUE, !.thread = t].active
         /\ [s EXCEPT !.active = TRUE, !.thread = t].thread = t
         /\ [s EXCEPT !.active = TRUE, !.thread = t].heard = s.heard
BY DEF Sessions

LEMMA NewSessionType == NewSession \in Sessions
BY DEF NewSession, Sessions

LEMMA EventType ==
  ASSUME NEW type \in ActTypes, NEW t \in Threads, NEW n \in Acts
  PROVE  [type |-> type, thread |-> t, act |-> n] \in AgentEvents
BY DEF AgentEvents

LEMMA PublishType ==
  ASSUME TypeOK, NEW e \in AgentEvents, Publish(e)
  PROVE  /\ inbox' \in [Workers -> Seq(AgentEvents)]
         /\ calm' \in BOOLEAN
BY DEF TypeOK, Publish

\* What Deliver does with the event it takes: without a socket here, nothing;
\* with one, the session is told and saved, and the visitor shown.
Delivers(w, e) ==
  \/ /\ registered[w] = 0
     /\ UNCHANGED <<session, saved, localMap, shown>>
  \/ /\ registered[w] # 0 /\ e.type = "agent_message" /\ e.act \in Acts
     /\ IF session[w] = None THEN UNCHANGED <<session, saved>>
        ELSE SaveSession(w, Heard(w, e.act))
     /\ UNCHANGED localMap
     /\ shown' = Shown(w, e.act)
  \/ /\ registered[w] # 0 /\ e.type = "agent_left"
     /\ IF session[w] = None THEN UNCHANGED <<session, saved>>
        ELSE SaveSession(w, Returned(w))
     /\ localMap' = [localMap EXCEPT ![w] = @ \ {e.thread}]
     /\ UNCHANGED shown

LEMMA DeliverEffect ==
  ASSUME TypeOK, NEW w \in Workers, Deliver(w)
  PROVE  /\ inbox[w] # <<>> /\ inbox' = [inbox EXCEPT ![w] = Tail(inbox[w])]
         /\ Head(inbox[w]) \in AgentEvents /\ Tail(inbox[w]) \in Seq(AgentEvents)
         /\ Delivers(w, Head(inbox[w]))
         /\ UNCHANGED <<visitor, creating, slack, redisMap, started, listening,
                        events, act, routed, calm>>
<1> DEFINE e == Head(inbox[w])
<1>1. /\ inbox[w] # <<>> /\ inbox' = [inbox EXCEPT ![w] = Tail(inbox[w])]
      /\ UNCHANGED <<visitor, creating, slack, redisMap, started, listening,
                     events, act, routed, calm>>
  BY DEF Deliver
<1>2. e \in AgentEvents /\ Tail(inbox[w]) \in Seq(AgentEvents)
  BY <1>1 DEF TypeOK
<1>3. \/ e.type = "agent_message" /\ e.act \in Acts
      \/ e.type = "agent_left"
  BY <1>2 DEF AgentEvents, ActTypes
<1> DEFINE after == IF e.type = "agent_left" THEN Returned(w) ELSE Heard(w, e.act)
<1>a. IF registered[w] = 0
        THEN UNCHANGED <<session, saved, localMap, shown>>
        ELSE /\ IF after = None THEN UNCHANGED <<session, saved>> ELSE SaveSession(w, after)
             /\ localMap' = IF e.type = "agent_left"
                              THEN [localMap EXCEPT ![w] = @ \ {e.thread}] ELSE localMap
             /\ shown' = IF e.type = "agent_message" THEN Shown(w, e.act) ELSE shown
  BY Zenon DEF Deliver
<1>4. ASSUME registered[w] = 0
      PROVE  Delivers(w, e)
  BY <1>4, <1>a DEF Delivers
<1>5. ASSUME registered[w] # 0 /\ e.type = "agent_message" /\ e.act \in Acts
      PROVE  Delivers(w, e)
  <2>1. after = Heard(w, e.act) /\ (after = None <=> session[w] = None)
    BY <1>5, HeardKeeps
  <2>2. /\ IF session[w] = None THEN UNCHANGED <<session, saved>>
           ELSE SaveSession(w, Heard(w, e.act))
        /\ localMap' = localMap
        /\ shown' = Shown(w, e.act)
    BY <1>5, <1>a, <2>1
  <2> QED BY <1>5, <2>2, Zenon DEF Delivers
<1>6. ASSUME registered[w] # 0 /\ e.type = "agent_left"
      PROVE  Delivers(w, e)
  <2>1. after = Returned(w) /\ (after = None <=> session[w] = None)
    BY <1>6, ReturnedKeeps
  <2>2. /\ IF session[w] = None THEN UNCHANGED <<session, saved>>
           ELSE SaveSession(w, Returned(w))
        /\ localMap' = [localMap EXCEPT ![w] = @ \ {e.thread}]
        /\ shown' = shown
    BY <1>6, <1>a, <2>1
  <2> QED BY <1>6, <2>2, Zenon DEF Delivers
<1>7. Delivers(w, e)
  BY <1>3, <1>4, <1>5, <1>6
<1> QED BY <1>1, <1>2, <1>7

\* Act n's handling goes on to a stage and stays what it is.
Advances(n, stage) ==
  /\ act[n] \in Handlings /\ act'[n] \in Handlings
  /\ act' \in [Acts -> Handlings \cup {None}]
  /\ act'[n].stage = stage
  /\ act'[n].type = act[n].type /\ act'[n].thread = act[n].thread
  /\ act'[n].worker = act[n].worker /\ act'[n].rivals = act[n].rivals
  /\ \A m \in Acts : m # n => act'[m] = act[m]

LEMMA MovesAdvances ==
  ASSUME TypeOK, NEW n \in Acts, act[n] # None, NEW stage \in Stages, Moves(n, stage)
  PROVE  Advances(n, stage)
<1>1. act[n] \in Handlings
  BY DEF TypeOK
<1>2. act' = [act EXCEPT ![n] = [act[n] EXCEPT !.stage = stage]]
  BY DEF Moves, TypeOK
<1>3. /\ [act[n] EXCEPT !.stage = stage] \in Handlings
      /\ [act[n] EXCEPT !.stage = stage].stage = stage
      /\ [act[n] EXCEPT !.stage = stage].type = act[n].type
      /\ [act[n] EXCEPT !.stage = stage].thread = act[n].thread
      /\ [act[n] EXCEPT !.stage = stage].worker = act[n].worker
      /\ [act[n] EXCEPT !.stage = stage].rivals = act[n].rivals
  BY <1>1 DEF Handlings
<1>4. act'[n] = [act[n] EXCEPT !.stage = stage]
  BY <1>2 DEF TypeOK
<1>5. \A m \in Acts : m # n => act'[m] = act[m]
  BY <1>2 DEF TypeOK
<1>6. act' \in [Acts -> Handlings \cup {None}]
  BY <1>2, <1>3 DEF TypeOK
<1> QED BY <1>1, <1>3, <1>4, <1>5, <1>6 DEF Advances

LEMMA FailsAdvances ==
  ASSUME TypeOK, NEW n \in Acts, act[n] # None, NEW stage \in Stages,
         act' = [act EXCEPT ![n].stage = stage, ![n].failed = TRUE]
  PROVE  Advances(n, stage)
<1> DEFINE a == [[act[n] EXCEPT !.stage = stage] EXCEPT !.failed = TRUE]
<1>1. act[n] \in Handlings
  BY DEF TypeOK
<1>2. act' = [act EXCEPT ![n] = a]
  BY DEF TypeOK
<1>3. /\ a \in Handlings /\ a.stage = stage /\ a.type = act[n].type
      /\ a.thread = act[n].thread /\ a.worker = act[n].worker /\ a.rivals = act[n].rivals
  BY <1>1 DEF Handlings
<1> HIDE DEF a
<1>4. act'[n] = a
  BY <1>2 DEF TypeOK
<1>5. \A m \in Acts : m # n => act'[m] = act[m]
  BY <1>2 DEF TypeOK
<1>6. act' \in [Acts -> Handlings \cup {None}]
  BY <1>2, <1>3 DEF TypeOK
<1> QED BY <1>1, <1>3, <1>4, <1>5, <1>6 DEF Advances

\* The stages a handling goes through, and what each step of it leaves alone.
LEMMA HandlesEffect ==
  ASSUME TypeOK, NEW n \in Acts, Handles(n)
  PROVE  /\ act[n] # None /\ act[n] \in Handlings
         /\ UNCHANGED <<saved, visitor, creating, started, listening, events>>
         /\ \/ Dropped(n) /\ Stands(n, "asking") /\ Advances(n, "over")
            \/ Finds(n) /\ Stands(n, "asking") /\ Advances(n, "publishing")
            \/ DeliversHere(n) /\ Stands(n, "asking") /\ Advances(n, AfterTold(n))
            \/ Publishes(n) /\ Stands(n, "publishing") /\ Advances(n, AfterTold(n))
            \/ PublishFails(n) /\ Stands(n, "publishing") /\ Advances(n, AfterTold(n))
            \/ Clears(n) /\ Stands(n, "clearing") /\ Advances(n, "posting")
            \/ Posts(n) /\ Stands(n, "posting") /\ Advances(n, "over")
<1>0. /\ "over" \in Stages /\ "publishing" \in Stages /\ "posting" \in Stages
      /\ AfterTold(n) \in Stages
  BY DEF Stages, AfterTold
<1>1. ASSUME Dropped(n)
      PROVE  /\ act[n] # None /\ Stands(n, "asking") /\ Advances(n, "over")
             /\ UNCHANGED <<saved, visitor, creating, started, listening, events>>
  BY <1>0, <1>1, MovesAdvances DEF Dropped, Stands, routing
<1>2. ASSUME Finds(n)
      PROVE  /\ act[n] # None /\ Stands(n, "asking") /\ Advances(n, "publishing")
             /\ UNCHANGED <<saved, visitor, creating, started, listening, events>>
  BY <1>0, <1>2, MovesAdvances DEF Finds, Stands, routing
<1>3. ASSUME DeliversHere(n)
      PROVE  /\ act[n] # None /\ Stands(n, "asking") /\ Advances(n, AfterTold(n))
             /\ UNCHANGED <<saved, visitor, creating, started, listening, events>>
  BY <1>0, <1>3, MovesAdvances DEF DeliversHere, Stands, routing
<1>4. ASSUME Publishes(n)
      PROVE  /\ act[n] # None /\ Stands(n, "publishing") /\ Advances(n, AfterTold(n))
             /\ UNCHANGED <<saved, visitor, creating, started, listening, events>>
  BY <1>0, <1>4, MovesAdvances DEF Publishes, Stands, routing
<1>5. ASSUME PublishFails(n)
      PROVE  /\ act[n] # None /\ Stands(n, "publishing") /\ Advances(n, AfterTold(n))
             /\ UNCHANGED <<saved, visitor, creating, started, listening, events>>
  BY <1>0, <1>5, FailsAdvances DEF PublishFails, Stands, routing
<1>6. ASSUME Clears(n)
      PROVE  /\ act[n] # None /\ Stands(n, "clearing") /\ Advances(n, "posting")
             /\ UNCHANGED <<saved, visitor, creating, started, listening, events>>
  BY <1>0, <1>6, MovesAdvances DEF Clears, Stands
<1>7. ASSUME Posts(n)
      PROVE  /\ act[n] # None /\ Stands(n, "posting") /\ Advances(n, "over")
             /\ UNCHANGED <<saved, visitor, creating, started, listening, events>>
  BY <1>0, <1>7, MovesAdvances DEF Posts, Stands
<1>8. act[n] # None => act[n] \in Handlings
  BY DEF TypeOK
<1> QED BY <1>1, <1>2, <1>3, <1>4, <1>5, <1>6, <1>7, <1>8 DEF Handles

\* A new act, and what Crash leaves of the others.
LEMMA ActsEffect ==
  ASSUME TypeOK, NEW type \in ActTypes, NEW t \in Threads, NEW w \in Workers,
         AgentActs(type, t, w)
  PROVE  /\ events + 1 \in Acts /\ events' = events + 1
         /\ act' \in [Acts -> Handlings \cup {None}] /\ act'[events + 1] \in Handlings
         /\ act'[events + 1].type = type /\ act'[events + 1].thread = t
         /\ act'[events + 1].stage = "asking"
         /\ act'[events + 1].rivals = {n \in Acts : Going(n)}
         /\ \A n \in Acts : n # events + 1 => act'[n] = act[n]
<1> DEFINE a == [type |-> type, thread |-> t, worker |-> w, stage |-> "asking",
                 failed |-> FALSE, rivals |-> {n \in Acts : Going(n)}]
<1>1. events + 1 \in Acts /\ events' = events + 1
  BY HandoffAssumption DEF AgentActs, TypeOK, Acts
<1>2. a \in Handlings
  BY DEF Handlings, Stages
<1>3. act' = [act EXCEPT ![events + 1] = a]
  BY DEF AgentActs
<1>4. /\ a.type = type /\ a.thread = t /\ a.stage = "asking"
      /\ a.rivals = {n \in Acts : Going(n)}
  OBVIOUS
<1> HIDE DEF a
<1>5. act' \in [Acts -> Handlings \cup {None}] /\ act'[events + 1] = a
  BY <1>1, <1>2, <1>3 DEF TypeOK
<1>6. \A n \in Acts : n # events + 1 => act'[n] = act[n]
  BY <1>3 DEF TypeOK
<1> QED BY <1>1, <1>2, <1>4, <1>5, <1>6

LEMMA CrashEffect ==
  ASSUME TypeOK, NEW w \in Workers, Crash(w), NEW n \in Acts
  PROVE  /\ act'[n] \in Handlings \cup {None}
         /\ act[n] = None => act'[n] = None
         /\ act[n] # None =>
              /\ act'[n] # None
              /\ act'[n].type = act[n].type /\ act'[n].thread = act[n].thread
              /\ act'[n].rivals = act[n].rivals
              /\ act'[n].stage = act[n].stage \/ act'[n].stage = "over"
<1>1. act'[n] = IF act[n] # None /\ act[n].worker = w
                  THEN [act[n] EXCEPT !.stage = "over"] ELSE act[n]
  BY DEF Crash
<1>2. act[n] # None => act[n] \in Handlings
  BY DEF TypeOK
<1>3. ASSUME act[n] # None
      PROVE  /\ [act[n] EXCEPT !.stage = "over"] \in Handlings
             /\ [act[n] EXCEPT !.stage = "over"].stage = "over"
             /\ [act[n] EXCEPT !.stage = "over"].type = act[n].type
             /\ [act[n] EXCEPT !.stage = "over"].thread = act[n].thread
             /\ [act[n] EXCEPT !.stage = "over"].rivals = act[n].rivals
  BY <1>2, <1>3 DEF Handlings, Stages
<1>4. CASE act[n] = None
  BY <1>1, <1>4
<1>5. CASE act[n] # None /\ act[n].worker = w
  BY <1>1, <1>3, <1>5, NoneIsNoValue
<1>6. CASE act[n] # None /\ act[n].worker # w
  BY <1>1, <1>2, <1>6
<1> QED BY <1>4, <1>5, <1>6

LEMMA TypeInit == Init => TInv
BY HandoffAssumption DEF Init, TInv, TypeOK, CreatingHasSession, LiveIsNewest, Shows

(* One step per action: what it changes has the type it had.               *)
LEMMA TypeStep ==
  ASSUME TInv, [Next]_vars
  PROVE  TInv'
<1> USE DEF TInv
<1>a. /\ None \notin Sessions /\ None \notin Confirms
      /\ \A w \in Workers : session[w] # None => session[w] \in Sessions
      /\ \A w \in Workers : \A e \in AgentEvents : Append(inbox[w], e) \in Seq(AgentEvents)
  BY NoneIsNoValue DEF TypeOK
<1>b. \A t \in Threads : creating[t] # None =>
        /\ creating[t].worker \in Workers
        /\ session[creating[t].worker] \in Sessions
  BY NoneIsNoValue DEF TypeOK, CreatingHasSession, Confirms
<1>1. CASE VisitorLeaves /\ UNCHANGED redis
  BY <1>1, HandoffAssumption DEF VisitorLeaves, TypeOK, CreatingHasSession, LiveIsNewest, routing, agents, seen
<1>2. ASSUME NEW w \in Workers, Register(w), UNCHANGED redis
      PROVE  TInv'
  <2>1. connects' \in 0 .. MaxConnects /\ connects' = connects + 1
    BY <1>2, HandoffAssumption DEF Register, TypeOK
  <2>2. registered' \in [Workers -> 0 .. MaxConnects]
    BY <1>2, <2>1 DEF Register, TypeOK
  <2>3. loading' \in [Workers -> {<<>>} \cup (Sessions \cup {None}) \X {TRUE}]
    <3>1. <<saved, TRUE>> \in (Sessions \cup {None}) \X {TRUE}
      BY DEF TypeOK
    <3> QED BY <1>2, <3>1 DEF Register, TypeOK
  <2>4. calm' \in BOOLEAN
    BY <1>2 DEF Register, TypeOK
  <2>5. LiveIsNewest'
    BY <1>2, <2>1, HandoffAssumption DEF Register, TypeOK, LiveIsNewest
  <2> QED BY <1>2, <2>1, <2>2, <2>3, <2>4, <2>5
          DEF Register, TypeOK, CreatingHasSession, routing, agents
<1>3. ASSUME NEW w \in Workers, Adopt(w), UNCHANGED redis
      PROVE  TInv'
  <2>1. loading[w][1] \in Sessions \cup {None}
    BY <1>3 DEF Adopt, TypeOK
  <2>2. loading' \in [Workers -> {<<>>} \cup (Sessions \cup {None}) \X {TRUE}]
    BY <1>3 DEF Adopt, TypeOK
  <2>3. /\ session' \in [Workers -> Sessions \cup {None}]
        /\ session'[w] # None
        /\ \A u \in Workers : u # w => session'[u] = session[u]
    BY <1>a, <1>3, <2>1, NewSessionType DEF Adopt, TypeOK, KeepsLocal
  <2>4. started' \subseteq Workers /\ listening' \subseteq started'
    BY <1>3 DEF Adopt, TypeOK
  <2>5. CreatingHasSession'
    BY <1>3, <1>b, <2>3 DEF Adopt, CreatingHasSession, routing
  <2> QED BY <1>3, <2>2, <2>3, <2>4, <2>5 DEF Adopt, TypeOK, LiveIsNewest, routing, seen
<1>4. ASSUME NEW w \in Workers, Cleanup(w), UNCHANGED redis
      PROVE  TInv'
  <2>1. /\ session' \in [Workers -> Sessions \cup {None}]
        /\ saved' \in Sessions \cup {None}
        /\ \A u \in Workers : session[u] # None => session'[u] # None
    <3>1. CASE session[w] = None
      BY <1>4, <3>1 DEF Cleanup, TypeOK
    <3>2. CASE session[w] # None
      BY <1>a, <1>4, <3>2, SaveType DEF Cleanup
    <3> QED BY <3>1, <3>2
  <2>2. registered' \in [Workers -> 0 .. MaxConnects]
    BY <1>4, HandoffAssumption DEF Cleanup, TypeOK
  <2>3. calm' \in BOOLEAN
    BY <1>4 DEF Cleanup, TypeOK
  <2>4. CreatingHasSession'
    BY <1>4, <1>b, <2>1 DEF Cleanup, CreatingHasSession, routing
  <2> QED BY <1>4, <2>1, <2>2, <2>3, <2>4 DEF Cleanup, Current, TypeOK, LiveIsNewest, routing, agents
<1>5. ASSUME NEW w \in Workers, UserMessage(w), UNCHANGED redis
      PROVE  TInv'
  <2>1. /\ session' \in [Workers -> Sessions \cup {None}]
        /\ saved' \in Sessions \cup {None}
        /\ \A u \in Workers : session[u] # None => session'[u] # None
    BY <1>a, <1>5, SaveType DEF UserMessage, Ready
  <2>2. CreatingHasSession'
    BY <1>5, <1>b, <2>1 DEF UserMessage, CreatingHasSession, routing
  <2> QED BY <1>5, <2>1, <2>2 DEF UserMessage, TypeOK, LiveIsNewest, visitor, routing, agents, seen
<1>6. ASSUME NEW w \in Workers, NEW t \in Threads, ConfirmHandoff(w, t), UNCHANGED redis
      PROVE  TInv'
  <2>1. [worker |-> w, conn |-> connects] \in Confirms
    BY <1>6 DEF ConfirmHandoff, Ready, Current, LiveIsNewest, TypeOK, Confirms
  <2>2. creating' \in [Threads -> Confirms \cup {None}]
    BY <1>6, <2>1 DEF ConfirmHandoff, TypeOK
  <2>3. CreatingHasSession'
    BY <1>6, <1>b DEF ConfirmHandoff, CreatingHasSession, Ready, TypeOK
  <2> QED BY <1>6, <2>2, <2>3 DEF ConfirmHandoff, TypeOK, LiveIsNewest, visitor, agents, seen
<1>7. ASSUME NEW t \in Threads, SlackPosts(t), UNCHANGED redis
      PROVE  TInv'
  BY <1>7 DEF SlackPosts, TypeOK, CreatingHasSession, LiveIsNewest, Shows, visitor, agents, seen
<1>8. ASSUME NEW t \in Threads, HandoffCreated(t), UNCHANGED redis
      PROVE  TInv'
  <2>1. PICK w \in Workers : w = creating[t].worker
    BY <1>8, <1>b DEF HandoffCreated
  <2>2. session[w] \in Sessions
    BY <1>8, <1>b, <2>1 DEF HandoffCreated
  <2>3. SaveSession(w, [session[w] EXCEPT !.active = TRUE, !.thread = t])
    BY <1>8, <2>1 DEF HandoffCreated
  <2>4. /\ session' \in [Workers -> Sessions \cup {None}]
        /\ saved' \in Sessions \cup {None}
        /\ \A u \in Workers : session[u] # None => session'[u] # None
    BY <1>a, <2>2, <2>3, EnteredKeeps, SaveType
  <2>5. /\ creating' \in [Threads -> Confirms \cup {None}]
        /\ \A s \in Threads : creating'[s] # None => creating'[s] = creating[s]
    BY <1>8 DEF HandoffCreated, TypeOK
  <2>6. CreatingHasSession'
    BY <1>b, <2>4, <2>5 DEF CreatingHasSession
  <2>7. localMap' \in [Workers -> SUBSET Threads] /\ redisMap' \subseteq Threads
    BY <1>8, <2>1 DEF HandoffCreated, TypeOK
  <2> QED BY <1>8, <2>4, <2>5, <2>6, <2>7
          DEF HandoffCreated, TypeOK, LiveIsNewest, visitor, agents, seen
<1>9. ASSUME NEW t \in Threads, HandoffFails(t), UNCHANGED redis
      PROVE  TInv'
  <2>1. PICK w \in Workers : w = creating[t].worker
    BY <1>9, <1>b DEF HandoffFails
  <2>2. session[w] \in Sessions /\ SaveSession(w, session[w])
    BY <1>9, <1>b, <2>1 DEF HandoffFails
  <2>3. /\ session' \in [Workers -> Sessions \cup {None}]
        /\ saved' \in Sessions \cup {None}
        /\ \A u \in Workers : session[u] # None => session'[u] # None
    BY <1>a, <2>2, SaveType
  <2>4. /\ creating' \in [Threads -> Confirms \cup {None}]
        /\ \A s \in Threads : creating'[s] # None => creating'[s] = creating[s]
    BY <1>9 DEF HandoffFails, TypeOK
  <2>5. CreatingHasSession'
    BY <1>b, <2>3, <2>4 DEF CreatingHasSession
  <2> QED BY <1>9, <2>3, <2>4, <2>5
          DEF HandoffFails, TypeOK, LiveIsNewest, visitor, agents, seen
<1>10. ASSUME NEW type \in ActTypes, NEW t \in Threads, NEW w \in Workers,
              AgentActs(type, t, w), UNCHANGED redis
       PROVE  TInv'
  <2>1. events' \in 0 .. MaxEvents /\ act' \in [Acts -> Handlings \cup {None}]
    BY <1>10, ActsEffect DEF Acts
  <2> QED BY <1>10, <2>1
          DEF AgentActs, TypeOK, CreatingHasSession, LiveIsNewest, visitor, routing, seen
<1>11. ASSUME NEW n \in Acts, Handles(n), UNCHANGED redis
       PROVE  TInv'
  <2>1. /\ act[n] \in Handlings /\ act[n].thread \in Threads /\ act[n].worker \in Workers
        /\ act[n].type \in ActTypes
    BY <1>11, HandlesEffect DEF Handlings
  <2>2. act' \in [Acts -> Handlings \cup {None}]
    BY <1>11, HandlesEffect DEF Advances
  <2>3. UNCHANGED <<saved, visitor, creating, started, listening, events>>
    BY <1>11, HandlesEffect
  <2>4. CASE Dropped(n) \/ Finds(n)
    BY <2>2, <2>4, <1>11 DEF Dropped, Finds, TypeOK, CreatingHasSession, LiveIsNewest,
                       visitor, routing, seen
  <2>5. CASE DeliversHere(n)
    <3>1. session' = [session EXCEPT ![act[n].worker] =
            IF act[n].type = "agent_message" THEN Heard(act[n].worker, n) ELSE Returned(act[n].worker)]
      BY <2>5 DEF DeliversHere
    <3>2. /\ session' \in [Workers -> Sessions \cup {None}]
          /\ \A u \in Workers : session[u] # None => session'[u] # None
      BY <2>1, <3>1, HeardKeeps, ReturnedKeeps DEF TypeOK
    <3>3. Append(shown, n) \in Seq(Acts)
      BY DEF TypeOK
    <3>4. shown' \in Seq(Acts) /\ routed' \subseteq Acts
      BY <2>5, <3>3 DEF DeliversHere, Shown, TypeOK
    <3>5. CreatingHasSession'
      BY <1>b, <2>3, <3>2 DEF CreatingHasSession
    <3> QED BY <1>11, <2>2, <2>3, <2>5, <3>2, <3>4, <3>5
            DEF DeliversHere, TypeOK, LiveIsNewest, visitor, routing
  <2>6. CASE Publishes(n)
    <3>1. inbox' \in [Workers -> Seq(AgentEvents)] /\ calm' \in BOOLEAN
      BY <2>1, <2>6, EventType, PublishType DEF Publishes
    <3>2. routed' \subseteq Acts
      BY <2>6 DEF Publishes, TypeOK
    <3> QED BY <1>11, <2>2, <2>3, <2>6, <3>1, <3>2
            DEF Publishes, TypeOK, CreatingHasSession, LiveIsNewest, visitor, routing
  <2>7. CASE PublishFails(n)
    BY <1>11, <2>2, <2>7 DEF PublishFails, TypeOK, CreatingHasSession, LiveIsNewest,
                             visitor, routing
  <2>8. CASE Clears(n)
    <3>1. localMap' \in [Workers -> SUBSET Threads] /\ redisMap' \subseteq Threads
      BY <2>8 DEF Clears, TypeOK
    <3> QED BY <1>11, <2>2, <2>8, <3>1
            DEF Clears, TypeOK, CreatingHasSession, LiveIsNewest, visitor, seen
  <2>9. CASE Posts(n)
    <3>1. slack' \in [Threads -> Shows]
      BY <2>9 DEF Posts, TypeOK, Shows
    <3> QED BY <1>11, <2>2, <2>9, <3>1
            DEF Posts, TypeOK, CreatingHasSession, LiveIsNewest, visitor, seen
  <2> QED BY <1>11, <2>4, <2>5, <2>6, <2>7, <2>8, <2>9 DEF Handles
<1>12. ASSUME NEW w \in Workers, Deliver(w), UNCHANGED redis
       PROVE  TInv'
  <2>1. PICK e \in AgentEvents : Delivers(w, e)
    BY <1>12, DeliverEffect
  <2>a. /\ inbox' = [inbox EXCEPT ![w] = Tail(inbox[w])]
        /\ Tail(inbox[w]) \in Seq(AgentEvents)
        /\ UNCHANGED <<visitor, creating, slack, redisMap, started, listening,
                       events, act, routed, calm>>
    BY <1>12, DeliverEffect
  <2>2. /\ inbox' \in [Workers -> Seq(AgentEvents)]
        /\ UNCHANGED <<visitor, creating, slack, redisMap, started, listening,
                       events, act, routed, calm>>
    BY <2>a DEF TypeOK
  <2>3. /\ session' \in [Workers -> Sessions \cup {None}]
        /\ saved' \in Sessions \cup {None}
        /\ \A u \in Workers : session[u] # None => session'[u] # None
    <3>1. CASE UNCHANGED <<session, saved>>
      BY <3>1 DEF TypeOK
    <3>2. CASE \E s \in Sessions : SaveSession(w, s)
      BY <3>2, SaveType
    <3> QED BY <2>1, <3>1, <3>2, HeardKeeps, ReturnedKeeps DEF Delivers
  <2>4. localMap' \in [Workers -> SUBSET Threads]
    BY <2>1 DEF Delivers, TypeOK
  <2>5. shown' \in Seq(Acts)
    <3>1. \A r \in Acts : Append(shown, r) \in Seq(Acts)
      BY DEF TypeOK
    <3> QED BY <2>1, <3>1 DEF Delivers, Shown, TypeOK
  <2>6. CreatingHasSession'
    BY <1>b, <2>2, <2>3 DEF CreatingHasSession
  <2> QED BY <1>12, <2>2, <2>3, <2>4, <2>5, <2>6 DEF TypeOK, LiveIsNewest, visitor
<1>13. ASSUME NEW w \in Workers, ListenerDies(w), UNCHANGED redis
       PROVE  TInv'
  <2>1. inbox' \in [Workers -> Seq(AgentEvents)] /\ calm' \in BOOLEAN
    BY <1>13 DEF ListenerDies, TypeOK
  <2> QED BY <1>13, <2>1
          DEF ListenerDies, TypeOK, CreatingHasSession, LiveIsNewest, visitor, routing
<1>14. ASSUME NEW w \in Workers, Crash(w), UNCHANGED redis
       PROVE  TInv'
  <2>1. inbox' \in [Workers -> Seq(AgentEvents)] /\ calm' \in BOOLEAN
    BY <1>14 DEF Crash, TypeOK
  <2>2. /\ session' \in [Workers -> Sessions \cup {None}]
        /\ registered' \in [Workers -> 0 .. MaxConnects]
        /\ localMap' \in [Workers -> SUBSET Threads]
    BY <1>14, HandoffAssumption DEF Crash, TypeOK
  <2>6. loading' \in [Workers -> {<<>>} \cup (Sessions \cup {None}) \X {TRUE}]
    BY <1>14 DEF Crash, TypeOK
  <2>3. creating' \in [Threads -> Confirms \cup {None}]
    BY <1>14 DEF Crash, TypeOK
  <2>4. CreatingHasSession'
    BY <1>14, <1>b DEF Crash, CreatingHasSession, TypeOK
  <2>5. LiveIsNewest' /\ at' \in Workers \cup {None}
    BY <1>14, HandoffAssumption DEF Crash, LiveIsNewest, TypeOK
  <2>7. act' \in [Acts -> Handlings \cup {None}]
    <3>1. act' = [n \in Acts |-> act'[n]]
      BY <1>14 DEF Crash
    <3> QED BY <1>14, <3>1, CrashEffect
  <2> QED BY <1>14, <2>1, <2>2, <2>3, <2>4, <2>5, <2>6, <2>7 DEF Crash, TypeOK
<1>15. CASE UNCHANGED vars
  BY <1>15 DEF vars, TypeOK, CreatingHasSession, LiveIsNewest
<1> QED BY <1>1, <1>2, <1>3, <1>4, <1>5, <1>6, <1>7, <1>8, <1>9, <1>10, <1>11, <1>12,
           <1>13, <1>14, <1>15 DEF Next, Step

\* What the types rest on holds in every state.
LEMMA TypeInvariant == Spec => []TInv
BY TypeInit, TypeStep, PTL DEF Spec

(* Every variable keeps its type, and the worker that awaits a thread from *)
(* Slack keeps the session it awaits it for: initiate_handoff never comes  *)
(* back to a session that is gone.                                         *)
THEOREM TypeCorrect == Spec => []TypeOK
BY TypeInvariant, PTL DEF TInv

-----------------------------------------------------------------------------
(* Threads and their mappings                                              *)

\* A thread is mapped only once the worker that asked for it has its answer,
Unmapped ==
  \A t \in Threads : creating[t] # None \/ slack[t] = "none"
    => t \notin redisMap /\ \A w \in Workers : t \notin localMap[w]

\* and so cannot be resolved before.
CreatingIsNew == \A t \in Threads : creating[t] # None => slack[t] # "resolved"

\* Until then, nothing an agent does to it is told to a session.
Unmarked ==
  \A t \in Threads : creating[t] # None \/ slack[t] = "none"
    => \A n \in Acts : act[n] # None /\ act[n].thread = t => act[n].stage \in {"asking", "over"}

ThreadInv == Unmapped /\ CreatingIsNew /\ Unmarked

LEMMA ThreadInit == Init => ThreadInv
BY DEF Init, ThreadInv, Unmapped, CreatingIsNew, Unmarked

LEMMA ThreadStep ==
  ASSUME TInv, ThreadInv, [Next]_vars
  PROVE  ThreadInv'
<1> USE DEF ThreadInv, Unmapped, CreatingIsNew, Unmarked
<1>a. TypeOK
  BY DEF TInv
<1>1. CASE VisitorLeaves
  BY <1>1 DEF VisitorLeaves, routing, agents
<1>2. ASSUME NEW w \in Workers, Register(w) \/ Adopt(w) \/ Cleanup(w) \/ UserMessage(w)
      PROVE  ThreadInv'
  BY <1>2 DEF Register, Adopt, Cleanup, UserMessage, routing, agents
<1>3. ASSUME NEW w \in Workers, NEW t \in Threads, ConfirmHandoff(w, t)
      PROVE  ThreadInv'
  BY <1>3, <1>a DEF ConfirmHandoff, TypeOK, agents
<1>4. ASSUME NEW t \in Threads, SlackPosts(t)
      PROVE  ThreadInv'
  BY <1>4, <1>a DEF SlackPosts, TypeOK, agents
<1>5. ASSUME NEW t \in Threads, HandoffCreated(t)
      PROVE  ThreadInv'
  <2>1. PICK w \in Workers : w = creating[t].worker
    BY <1>5, <1>a, NoneIsNoValue DEF HandoffCreated, TypeOK, Confirms
  <2>2. /\ slack[t] # "none" /\ slack' = slack
        /\ creating' = [creating EXCEPT ![t] = None]
        /\ localMap' = [localMap EXCEPT ![w] = @ \cup {t}]
        /\ redisMap' \subseteq redisMap \cup {t}
        /\ act' = act
    BY <1>5, <2>1 DEF HandoffCreated, agents
  <2> QED BY <2>2, <1>a DEF TypeOK
<1>6. ASSUME NEW t \in Threads, HandoffFails(t)
      PROVE  ThreadInv'
  BY <1>6, <1>a DEF HandoffFails, TypeOK, agents
<1>7. ASSUME NEW type \in ActTypes, NEW t \in Threads, NEW w \in Workers, AgentActs(type, t, w)
      PROVE  ThreadInv'
  <2>1. UNCHANGED <<creating, slack, redisMap, localMap>>
    BY <1>7 DEF AgentActs, routing
  <2>2. \A n \in Acts : act'[n] = act[n] \/ act'[n].stage = "asking"
    BY <1>7, <1>a, ActsEffect
  <2> QED BY <2>1, <2>2
<1>8. ASSUME NEW n \in Acts, Handles(n)
      PROVE  ThreadInv'
  <2> DEFINE t == act[n].thread
             w == act[n].worker
  <2>1. /\ act[n] # None /\ t \in Threads /\ w \in Workers /\ creating' = creating
        /\ \A m \in Acts : m # n => act'[m] = act[m]
        /\ act'[n].thread = t
    BY <1>8, <1>a, HandlesEffect DEF Handlings, Advances
  <2>2. redisMap' \subseteq redisMap /\ \A u \in Workers : localMap'[u] \subseteq localMap[u]
    <3>1. CASE Clears(n)
      BY <3>1, <2>1, <1>a DEF Clears, TypeOK
    <3> QED BY <1>8, <3>1 DEF Handles, Dropped, Finds, DeliversHere, Publishes, PublishFails,
                            Posts, routing
  \* Only a mapped thread's act gets further than being dropped.
  <2>3. act'[n].stage = "over" \/ (creating[t] = None /\ slack[t] # "none")
    <3>1. CASE Dropped(n)
      BY <3>1, <1>8, <1>a, MovesAdvances DEF Dropped, Stands, Stages, Advances
    <3>2. CASE Finds(n) \/ DeliversHere(n)
      BY <3>2, <2>1 DEF Finds, DeliversHere, Mapped
    <3>3. CASE Publishes(n) \/ PublishFails(n) \/ Clears(n) \/ Posts(n)
      BY <3>3, <2>1 DEF Publishes, PublishFails, Clears, Posts, Stands
    <3> QED BY <1>8, <3>1, <3>2, <3>3 DEF Handles
  <2>4. \/ slack' = slack
        \/ slack' = [slack EXCEPT ![t] = "resolved"] /\ creating[t] = None
    <3>1. CASE Posts(n)
      BY <3>1, <2>1 DEF Posts, Stands
    <3> QED BY <1>8, <3>1 DEF Handles, Dropped, Finds, DeliversHere, Publishes, PublishFails,
                            Clears, routing
  <2> HIDE DEF t
  <2>5. ASSUME NEW u \in Threads
        PROVE  /\ slack'[u] = "none" => slack[u] = "none"
               /\ slack'[u] # slack[u] => creating[u] = None
    BY <2>4, <1>a DEF TypeOK
  <2>6. Unmapped'
    <3> SUFFICES ASSUME NEW u \in Threads, creating[u] # None \/ slack'[u] = "none"
                 PROVE  u \notin redisMap' /\ \A v \in Workers : u \notin localMap'[v]
      BY <2>1
    <3>1. u \notin redisMap /\ \A v \in Workers : u \notin localMap[v]
      BY <2>5
    <3> QED BY <3>1, <2>2
  <2>8. CreatingIsNew'
    BY <2>1, <2>5
  <2>7. Unmarked'
    <3> SUFFICES ASSUME NEW u \in Threads, creating[u] # None \/ slack'[u] = "none",
                        NEW m \in Acts, act'[m] # None, act'[m].thread = u
                 PROVE  act'[m].stage \in {"asking", "over"}
      BY <2>1
    <3>1. creating[u] # None \/ slack[u] = "none"
      BY <2>5
    <3>2. CASE m = n
      BY <2>1, <2>3, <3>1, <3>2
    <3>3. CASE m # n
      BY <2>1, <3>1, <3>3
    <3> QED BY <3>2, <3>3
  <2> QED BY <2>6, <2>7, <2>8
<1>9. ASSUME NEW w \in Workers, Deliver(w)
      PROVE  ThreadInv'
  <2>1. PICK e \in AgentEvents : Delivers(w, e)
    BY <1>9, <1>a, DeliverEffect
  <2>2. UNCHANGED <<creating, slack, redisMap, act>>
    BY <1>9, <1>a, DeliverEffect
  <2>3. \A u \in Workers : localMap'[u] \subseteq localMap[u]
    BY <2>1, <1>a DEF Delivers, TypeOK
  <2> QED BY <2>2, <2>3
<1>10. ASSUME NEW w \in Workers, ListenerDies(w)
       PROVE  ThreadInv'
  BY <1>10 DEF ListenerDies, routing
<1>11. ASSUME NEW w \in Workers, Crash(w)
       PROVE  ThreadInv'
  <2>1. /\ UNCHANGED <<slack, redisMap>>
        /\ \A t \in Threads : creating'[t] # None => creating[t] # None
        /\ localMap' = [localMap EXCEPT ![w] = {}]
    BY <1>11, <1>a DEF Crash, TypeOK
  <2>2. \A u \in Workers : localMap'[u] \subseteq localMap[u]
    BY <2>1, <1>a DEF TypeOK
  <2>3. \A n \in Acts : act'[n] # None =>
          /\ act[n] # None /\ act'[n].thread = act[n].thread
          /\ act'[n].stage = act[n].stage \/ act'[n].stage = "over"
    BY <1>11, <1>a, CrashEffect
  <2> QED BY <2>1, <2>2, <2>3
<1>12. CASE UNCHANGED vars
  BY <1>12 DEF vars
<1> QED BY <1>1, <1>2, <1>3, <1>4, <1>5, <1>6, <1>7, <1>8, <1>9, <1>10, <1>11, <1>12
        DEF Next, Step

LEMMA ThreadInvariant == Spec => []ThreadInv
BY TypeInvariant, ThreadInit, ThreadStep, PTL DEF Spec

-----------------------------------------------------------------------------
(* Without Redis                                                           *)

\* Nothing is shared, nothing is published.
NothingShared ==
  /\ saved = None /\ redisMap = {}
  /\ \A w \in Workers : loading[w] # <<>> => loading[w][1] = None
  /\ \A w \in Workers : inbox[w] = <<>>
  /\ \A n \in Acts : act[n] # None => act[n].stage # "publishing"

\* A session in a handoff is in one that is open and mapped on its worker.
HandoffMapped ==
  \A w \in Workers : session[w] # None /\ session[w].active
    => session[w].thread \in localMap[w] /\ slack[session[w].thread] = "open"

\* A thread is mapped on one worker only: the one its check mark must meet.
OneMapping ==
  \A t \in Threads : \A u, v \in Workers : t \in localMap[u] /\ t \in localMap[v] => u = v

\* Where the handling of a check mark has yet to clear the mapping and to tell
\* Slack, the session was told already.
MarkReturned ==
  \A n \in Acts : act[n] # None /\ act[n].stage \in {"clearing", "posting"} =>
    \A w \in Workers : session[w] # None /\ session[w].active => session[w].thread # act[n].thread

DirectInv == ~redis => NothingShared /\ HandoffMapped /\ OneMapping /\ MarkReturned

(* Without Redis, a save keeps the dict as it is and stores nothing.       *)
LEMMA DirectSave ==
  ASSUME ~redis, NEW w \in Workers, NEW s, SaveSession(w, s)
  PROVE  session' = [session EXCEPT ![w] = s] /\ saved' = saved
BY DEF SaveSession, Stores

LEMMA DirectInit == Init => DirectInv
BY DEF Init, DirectInv, NothingShared, HandoffMapped, OneMapping, MarkReturned

LEMMA DirectStep ==
  ASSUME TInv, ThreadInv, DirectInv, [Next]_vars
  PROVE  DirectInv'
<1>a. TypeOK
  BY DEF TInv
<1>b. redis' = redis
  BY DEF Next, vars
<1> SUFFICES ASSUME ~redis
             PROVE  DirectInv'
  BY <1>b DEF DirectInv
<1>c. NothingShared /\ HandoffMapped /\ OneMapping /\ MarkReturned
  BY DEF DirectInv
\* What leaves the sessions and the mappings alone keeps the invariant.
<1>d. ASSUME UNCHANGED <<saved, redisMap, loading, inbox, session, localMap, slack, act>>
      PROVE  DirectInv'
  BY <1>c, <1>d DEF DirectInv, NothingShared, HandoffMapped, OneMapping, MarkReturned
<1>1. CASE VisitorLeaves
  BY <1>1, <1>d DEF VisitorLeaves, routing, agents
<1>2. ASSUME NEW w \in Workers, Register(w)
      PROVE  DirectInv'
  <2>1. /\ UNCHANGED <<saved, redisMap, inbox, session, localMap, slack, act>>
        /\ loading' = [loading EXCEPT ![w] = <<saved, TRUE>>]
    BY <1>2 DEF Register, routing, agents
  <2> QED BY <2>1, <1>a, <1>c DEF DirectInv, NothingShared, HandoffMapped, OneMapping, MarkReturned, TypeOK
<1>3. ASSUME NEW w \in Workers, Adopt(w)
      PROVE  DirectInv'
  <2>1. loading[w] # <<>> /\ loading[w][1] = None
    BY <1>3, <1>c DEF Adopt, NothingShared
  <2>2. /\ UNCHANGED <<saved, redisMap, inbox, localMap, slack, act>>
        /\ loading' = [loading EXCEPT ![w] = <<>>]
        /\ session' = [session EXCEPT ![w] = IF session[w] # None THEN @ ELSE NewSession]
    BY <1>3, <2>1 DEF Adopt, KeepsLocal, routing
  <2>3. ~NewSession.active
    BY DEF NewSession
  <2> QED BY <2>2, <2>3, <1>a, <1>c DEF DirectInv, NothingShared, HandoffMapped, OneMapping, MarkReturned, TypeOK
<1>4. ASSUME NEW w \in Workers, Cleanup(w)
      PROVE  DirectInv'
  <2>1. UNCHANGED <<loading, saved, session, redisMap, inbox, localMap, slack, act>>
    BY <1>4, <1>a, DirectSave DEF Cleanup, TypeOK, routing, agents
  <2> QED BY <2>1, <1>d
<1>5. ASSUME NEW w \in Workers, UserMessage(w)
      PROVE  DirectInv'
  BY <1>5 DEF UserMessage
<1>6. ASSUME NEW w \in Workers, NEW t \in Threads, ConfirmHandoff(w, t)
      PROVE  DirectInv'
  BY <1>6, <1>d DEF ConfirmHandoff, visitor, agents
<1>7. ASSUME NEW t \in Threads, SlackPosts(t)
      PROVE  DirectInv'
  <2>1. /\ UNCHANGED <<saved, redisMap, loading, inbox, session, localMap, act>>
        /\ slack' = [slack EXCEPT ![t] = "open"]
    BY <1>7 DEF SlackPosts, visitor, agents
  <2> QED BY <2>1, <1>a, <1>c DEF DirectInv, NothingShared, HandoffMapped, OneMapping, MarkReturned, TypeOK
<1>8. ASSUME NEW t \in Threads, HandoffCreated(t)
      PROVE  DirectInv'
  <2>1. creating[t] \in Confirms
    BY <1>8, <1>a DEF HandoffCreated, TypeOK
  <2>2. PICK w \in Workers : w = creating[t].worker
    BY <2>1 DEF Confirms
  <2>3. session[w] \in Sessions
    BY <1>8, <2>2, <1>a DEF HandoffCreated, TInv, CreatingHasSession, TypeOK
  <2> DEFINE s == [session[w] EXCEPT !.active = TRUE, !.thread = t]
  <2>4. s.active /\ s.thread = t
    BY <2>3, EnteredKeeps
  <2>5. /\ session' = [session EXCEPT ![w] = s] /\ saved' = saved
        /\ UNCHANGED <<redisMap, loading, inbox, slack, act>>
        /\ localMap' = [localMap EXCEPT ![w] = @ \cup {t}]
    BY <1>8, <2>2, DirectSave DEF HandoffCreated, visitor, agents
  <2>6. slack[t] = "open" /\ \A u \in Workers : t \notin localMap[u]
    BY <1>8, <1>a DEF HandoffCreated, ThreadInv, Unmapped, CreatingIsNew, TypeOK, Shows
  <2>7. NothingShared'
    BY <2>5, <1>c DEF NothingShared
  <2>8. HandoffMapped'
    <3> SUFFICES ASSUME NEW u \in Workers, session'[u] # None, session'[u].active
                 PROVE  session'[u].thread \in localMap'[u] /\ slack'[session'[u].thread] = "open"
      BY DEF HandoffMapped
    <3>1. CASE u = w
      <4>1. session'[u] = s /\ t \in localMap'[u]
        BY <3>1, <2>5, <1>a DEF TypeOK
      <4> QED BY <4>1, <2>4, <2>5, <2>6
    <3>2. CASE u # w
      BY <3>2, <2>5, <1>a, <1>c DEF HandoffMapped, TypeOK
    <3> QED BY <3>1, <3>2
  <2>9. OneMapping'
    BY <2>5, <2>6, <1>a, <1>c DEF OneMapping, TypeOK
  <2>10. MarkReturned'
    <3> SUFFICES ASSUME NEW n \in Acts, act[n] # None, act[n].stage \in {"clearing", "posting"},
                        NEW u \in Workers, session'[u] # None, session'[u].active
                 PROVE  session'[u].thread # act[n].thread
      BY <2>5 DEF MarkReturned
    <3>1. act[n].thread # t
      BY <1>8 DEF HandoffCreated, ThreadInv, Unmarked
    <3>2. session'[u] = s \/ session'[u] = session[u]
      BY <2>5, <1>a DEF TypeOK
    <3> QED BY <2>4, <3>1, <3>2, <1>c DEF MarkReturned
  <2> QED BY <2>7, <2>8, <2>9, <2>10 DEF DirectInv
<1>9. ASSUME NEW t \in Threads, HandoffFails(t)
      PROVE  DirectInv'
  <2>1. creating[t].worker \in Workers
    BY <1>9, <1>a, NoneIsNoValue DEF HandoffFails, TypeOK, Confirms
  <2>2. UNCHANGED <<loading, saved, session, redisMap, inbox, localMap, slack, act>>
    BY <1>9, <2>1, <1>a, DirectSave DEF HandoffFails, TypeOK, visitor, agents
  <2> QED BY <2>2, <1>d
<1>10. ASSUME NEW type \in ActTypes, NEW t \in Threads, NEW w \in Workers, AgentActs(type, t, w)
       PROVE  DirectInv'
  <2>1. UNCHANGED <<saved, redisMap, loading, inbox, session, localMap, slack>>
    BY <1>10 DEF AgentActs, visitor, routing
  <2>2. \A n \in Acts : act'[n] = act[n] \/ act'[n].stage = "asking"
    BY <1>10, <1>a, ActsEffect
  <2>3. NothingShared' /\ MarkReturned'
    BY <2>1, <2>2, <1>c DEF NothingShared, MarkReturned
  <2> QED BY <2>1, <2>3, <1>c DEF DirectInv, HandoffMapped, OneMapping
<1>11. ASSUME NEW n \in Acts, Handles(n)
       PROVE  DirectInv'
  <2> DEFINE t == act[n].thread
             w == act[n].worker
  <2>1. /\ act[n] # None /\ t \in Threads /\ w \in Workers /\ UNCHANGED <<saved, loading>>
        /\ \A m \in Acts : m # n => act'[m] = act[m]
        /\ act'[n].thread = t /\ act[n].type \in ActTypes
    BY <1>11, <1>a, HandlesEffect DEF Handlings, Advances, visitor
  <2>2. ~Finds(n) /\ ~Publishes(n) /\ ~PublishFails(n)
    BY <2>1, <1>c DEF Finds, Publishes, PublishFails, Stands, NothingShared
  \* A step that tells no session and changes no stage to one that matters.
  <2>3. CASE Dropped(n)
    <3>1. act'[n].stage = "over"
      BY <2>1, <2>3, <1>a, MovesAdvances DEF Dropped, Advances, Stages
    <3>2. UNCHANGED <<saved, redisMap, loading, inbox, session, localMap, slack>>
      BY <2>3 DEF Dropped, visitor, routing
    <3>3. NothingShared' /\ MarkReturned'
      BY <2>1, <3>1, <3>2, <1>c DEF NothingShared, MarkReturned
    <3> QED BY <3>2, <3>3, <1>c DEF DirectInv, HandoffMapped, OneMapping
  <2>4. CASE DeliversHere(n)
    <3>1. /\ t \in localMap[w]
          /\ session' = [session EXCEPT ![w] =
               IF act[n].type = "agent_message" THEN Heard(w, n) ELSE Returned(w)]
          /\ UNCHANGED <<redisMap, localMap, slack, inbox>>
      BY <2>4, <1>c DEF DeliversHere, Mapped, NothingShared, routing
    <3>2. act'[n].stage = AfterTold(n)
      <4>1. AfterTold(n) \in Stages
        BY DEF AfterTold, Stages
      <4> QED BY <2>1, <2>4, <4>1, <1>a, MovesAdvances DEF DeliversHere, Advances
    <3>3. NothingShared'
      BY <2>1, <3>1, <3>2, <1>c DEF NothingShared, AfterTold
    \* Nobody enters a handoff, and a check mark takes the session out of it.
    <3>4. \A u \in Workers : session'[u] # None /\ session'[u].active =>
            /\ session[u] # None /\ session[u].active /\ session'[u].thread = session[u].thread
            /\ act[n].type = "agent_message" \/ u # w
      <4> SUFFICES ASSUME NEW u \in Workers, session'[u] # None, session'[u].active
                   PROVE  /\ session[u] # None /\ session[u].active
                          /\ session'[u].thread = session[u].thread
                          /\ act[n].type = "agent_message" \/ u # w
        OBVIOUS
      <4>1. CASE u # w
        BY <3>1, <4>1, <1>a DEF TypeOK
      <4>2. CASE u = w /\ act[n].type = "agent_message"
        <5>1. session'[u] = Heard(w, n)
          BY <2>1, <3>1, <4>2, <1>a DEF TypeOK
        <5> QED BY <2>1, <4>2, <5>1, <1>a, HeardKeeps
      <4>3. CASE u = w /\ act[n].type # "agent_message"
        <5>1. session'[u] = Returned(w)
          BY <2>1, <3>1, <4>3, <1>a DEF TypeOK
        <5> QED BY <2>1, <4>3, <5>1, <1>a, ReturnedKeeps
      <4> QED BY <4>1, <4>2, <4>3
    <3>5. HandoffMapped'
      BY <3>1, <3>4, <1>c DEF HandoffMapped
    <3>6. MarkReturned'
      <4> SUFFICES ASSUME NEW m \in Acts, act'[m] # None, act'[m].stage \in {"clearing", "posting"},
                          NEW u \in Workers, session'[u] # None, session'[u].active
                   PROVE  session'[u].thread # act'[m].thread
        BY DEF MarkReturned
      <4>1. CASE m # n
        BY <2>1, <3>4, <4>1, <1>c DEF MarkReturned
      <4>2. CASE m = n
        <5>1. u # w
          BY <3>2, <3>4, <4>2 DEF AfterTold
        <5>2. session[u].thread \in localMap[u]
          BY <3>4, <1>c DEF HandoffMapped
        <5>3. session[u].thread # t
          BY <2>1, <3>1, <5>1, <5>2, <1>c DEF OneMapping
        <5> QED BY <2>1, <3>4, <4>2, <5>3
      <4> QED BY <4>1, <4>2
    <3>7. OneMapping'
      BY <3>1, <1>c DEF OneMapping
    <3> QED BY <3>3, <3>5, <3>6, <3>7 DEF DirectInv
  <2>5. CASE Clears(n)
    <3>1. /\ act[n].stage = "clearing"
          /\ localMap' = [localMap EXCEPT ![w] = @ \ {t}]
          /\ redisMap' \subseteq redisMap
          /\ UNCHANGED <<session, slack, inbox>>
      BY <2>5 DEF Clears, Stands
    <3>2. act'[n].stage = "posting"
      BY <2>1, <2>5, <1>a, MovesAdvances DEF Clears, Advances, Stages
    <3>3. NothingShared'
      BY <2>1, <3>1, <3>2, <1>c DEF NothingShared
    <3>4. MarkReturned'
      BY <2>1, <3>1, <1>c DEF MarkReturned
    <3>5. \A u \in Workers : session[u] # None /\ session[u].active => session[u].thread # t
      BY <2>1, <3>1, <1>c DEF MarkReturned
    <3>6. HandoffMapped'
      BY <3>1, <3>5, <1>a, <1>c DEF HandoffMapped, TypeOK
    <3>7. OneMapping'
      BY <3>1, <1>a, <1>c DEF OneMapping, TypeOK
    <3> QED BY <3>3, <3>4, <3>6, <3>7 DEF DirectInv
  <2>6. CASE Posts(n)
    <3>1. /\ act[n].stage = "posting"
          /\ slack' = [slack EXCEPT ![t] = "resolved"] \/ slack' = slack
          /\ UNCHANGED <<session, redisMap, localMap, inbox>>
      BY <2>6 DEF Posts, Stands
    <3>2. act'[n].stage = "over"
      BY <2>1, <2>6, <1>a, MovesAdvances DEF Posts, Advances, Stages
    <3>3. NothingShared'
      BY <2>1, <3>1, <3>2, <1>c DEF NothingShared
    <3>4. MarkReturned'
      BY <2>1, <3>1, <3>2, <1>c DEF MarkReturned
    <3>5. \A u \in Workers : session[u] # None /\ session[u].active => session[u].thread # t
      BY <2>1, <3>1, <1>c DEF MarkReturned
    <3> HIDE DEF t
    <3>6. \A x \in Threads : x # t => slack'[x] = slack[x]
      BY <3>1, <1>a DEF TypeOK
    <3>7. \A u \in Workers : session[u] # None /\ session[u].active => session[u].thread \in Threads
      BY <1>a, <1>c DEF HandoffMapped, TypeOK
    <3>8. HandoffMapped'
      BY <3>1, <3>5, <3>6, <3>7, <1>c DEF HandoffMapped
    <3>9. OneMapping'
      BY <3>1, <1>c DEF OneMapping
    <3> QED BY <3>3, <3>4, <3>8, <3>9 DEF DirectInv
  <2> QED BY <1>11, <2>2, <2>3, <2>4, <2>5, <2>6 DEF Handles
<1>12. ASSUME NEW w \in Workers, Deliver(w)
       PROVE  DirectInv'
  BY <1>12, <1>c DEF Deliver, NothingShared
<1>13. ASSUME NEW w \in Workers, ListenerDies(w)
       PROVE  DirectInv'
  <2>1. /\ UNCHANGED <<saved, redisMap, loading, session, localMap, slack, act>>
        /\ inbox' = [inbox EXCEPT ![w] = <<>>]
    BY <1>13 DEF ListenerDies, visitor, routing
  <2> QED BY <2>1, <1>a, <1>c DEF DirectInv, NothingShared, HandoffMapped, OneMapping, MarkReturned, TypeOK
<1>14. ASSUME NEW w \in Workers, Crash(w)
       PROVE  DirectInv'
  <2>1. /\ session' = [session EXCEPT ![w] = None]
        /\ loading' = [loading EXCEPT ![w] = <<>>]
        /\ localMap' = [localMap EXCEPT ![w] = {}]
        /\ inbox' = [inbox EXCEPT ![w] = <<>>]
        /\ UNCHANGED <<saved, redisMap, slack>>
    BY <1>14 DEF Crash
  <2>2. \A n \in Acts : act'[n] # None =>
          /\ act[n] # None /\ act'[n].thread = act[n].thread
          /\ act'[n].stage = act[n].stage \/ act'[n].stage = "over"
    BY <1>14, <1>a, CrashEffect
  <2>3. NothingShared'
    BY <2>1, <2>2, <1>a, <1>c DEF NothingShared, TypeOK
  <2>4. HandoffMapped' /\ OneMapping'
    BY <2>1, <1>a, <1>c DEF HandoffMapped, OneMapping, TypeOK
  <2>5. MarkReturned'
    BY <2>1, <2>2, <1>a, <1>c DEF MarkReturned, TypeOK
  <2> QED BY <2>3, <2>4, <2>5 DEF DirectInv
<1>15. CASE UNCHANGED vars
  BY <1>15, <1>d DEF vars
<1> QED BY <1>1, <1>2, <1>3, <1>4, <1>5, <1>6, <1>7, <1>8, <1>9, <1>10, <1>11, <1>12,
           <1>13, <1>14, <1>15 DEF Next, Step

(* _handle_handoff_resolved with no Redis: an agent's check mark is acted  *)
(* on where the thread is mapped, which is where the session in it is; no  *)
(* dict, on any worker, is in a handoff whose thread is closed, whatever   *)
(* the visitor's sockets, Slack's calls and the workers do.                *)
THEOREM DirectHandoffTheorem == Spec => []DirectHandoffIsOpen
<1>1. DirectInv => DirectHandoffIsOpen
  BY DEF DirectInv, HandoffMapped, DirectHandoffIsOpen, HandoffIsOpen
<1> QED BY <1>1, TypeInvariant, ThreadInvariant, DirectInit, DirectStep, PTL DEF Spec

-----------------------------------------------------------------------------
(* The order of the agents' replies                                        *)

IsReply(e) == e.type = "agent_message"

\* In the handlings x, act n is past its PUBLISH, or will never be published.
Past(x, n) == x[n] # None /\ x[n].stage \notin {"asking", "publishing"}

\* The visitor may be shown b after a.
Fits(x, a, b) == a # b /\ (b < a => b \in x[a].rivals)

\* Acts are numbered as they come, and an act knows all it can overtake:
ActsKnown == \A n \in Acts : act[n] # None => n <= events
RivalsKnown ==
  \A r, s \in Acts : act[r] # None /\ s < r /\ s \notin act[r].rivals => ~Going(s)

\* what was shown, or waits on a worker, is past its PUBLISH,
ShownIsPast == \A m \in 1..Len(shown) : Past(act, shown[m])
InboxIsPast == \A w \in Workers : \A i \in 1..Len(inbox[w]) : Past(act, inbox[w][i].act)

\* what waits on a worker waits in an order it may be shown in,
InboxInOrder ==
  \A w \in Workers : \A i, j \in 1..Len(inbox[w]) :
    i < j => Fits(act, inbox[w][i].act, inbox[w][j].act)

\* the visitor was shown them in such an order,
ShownFits == \A m, n \in 1..Len(shown) : m < n => Fits(act, shown[m], shown[n])

\* and, for a visitor who stayed on his socket, fits behind all he was shown.
InboxIsNext ==
  \A w \in Workers : at = w =>
    \A m \in 1..Len(shown) : \A i \in 1..Len(inbox[w]) : Fits(act, shown[m], inbox[w][i].act)

OrderInv ==
  /\ connects = 0 => shown = <<>>
  /\ ActsKnown /\ RivalsKnown
  /\ ShownIsPast /\ InboxIsPast /\ InboxInOrder
  /\ connects <= 1 => ShownFits /\ InboxIsNext

LEMMA OrderInit == Init => OrderInv
BY DEF Init, OrderInv, ActsKnown, RivalsKnown, ShownIsPast, InboxIsPast, InboxInOrder,
       InboxIsNext, ShownFits, Going

LEMMA FitsIsOrder ==
  ASSUME TypeOK, ShownFits
  PROVE  ShownInOrder
<1>1. \A m \in 1..Len(shown) : shown[m] \in Nat
  BY HandoffAssumption DEF TypeOK, Acts
<1>2. \A m, n \in 1..Len(shown) : shown[m] > shown[n] <=> shown[n] < shown[m]
  BY <1>1
<1> QED BY <1>2 DEF ShownInOrder, ShownFits, Fits

\* What is on its way now fits behind all that arrived.
LEMMA GoingFits ==
  ASSUME RivalsKnown, NEW a \in Acts, NEW n \in Acts, Past(act, a), Going(n)
  PROVE  Fits(act, a, n)
<1>1. a # n
  BY DEF Past, Going
<1>2. ASSUME n < a, n \notin act[a].rivals
      PROVE  FALSE
  BY <1>2 DEF RivalsKnown, Past
<1> QED BY <1>1, <1>2 DEF Fits

\* Acts only get older: what they overtake is fixed.
Age ==
  \A n \in Acts : act[n] # None =>
    act'[n] # None /\ act'[n].rivals = act[n].rivals /\ (Going(n)' => Going(n))

LEMMA AgeKeeps ==
  ASSUME Age
  PROVE  /\ \A n \in Acts : Past(act, n) => Past(act', n)
         /\ \A a, b \in Acts : Past(act, a) /\ Fits(act, a, b) => Fits(act', a, b)
BY DEF Age, Past, Fits, Going

\* Without a new act, no rival is added.
LEMMA AgeKnown ==
  ASSUME Age, ActsKnown, RivalsKnown, events' = events,
         \A n \in Acts : act[n] = None => act'[n] = None
  PROVE  ActsKnown' /\ RivalsKnown'
<1>1. ActsKnown'
  BY DEF ActsKnown, Age
<1>2. RivalsKnown'
  <2> SUFFICES ASSUME NEW r \in Acts, NEW s \in Acts,
                      act'[r] # None, s < r, s \notin act'[r].rivals, Going(s)'
               PROVE  FALSE
    BY DEF RivalsKnown
  <2>1. act[r] # None /\ act'[r].rivals = act[r].rivals
    BY DEF Age
  <2>2. act[s] # None
    BY DEF Going
  <2>3. Going(s)
    BY <2>2 DEF Age
  <2> QED BY <2>1, <2>3 DEF RivalsKnown
<1> QED BY <1>1, <1>2

LEMMA AgentActsKnown ==
  ASSUME TypeOK, ActsKnown, RivalsKnown, NEW type \in ActTypes, NEW t \in Threads,
         NEW w \in Workers, AgentActs(type, t, w)
  PROVE  Age /\ ActsKnown' /\ RivalsKnown'
<1> DEFINE r == events + 1
<1>0. events \in Nat /\ r \in Nat
  BY HandoffAssumption DEF TypeOK
<1>1. /\ r \in Acts /\ events' = r /\ act'[r].rivals = {n \in Acts : Going(n)}
      /\ \A n \in Acts : n # r => act'[n] = act[n]
  BY ActsEffect
<1>2. act[r] = None
  BY <1>0, <1>1 DEF ActsKnown
<1> HIDE DEF r
<1>3. Age
  BY <1>1, <1>2 DEF Age, Going
<1>4. ActsKnown'
  <2> SUFFICES ASSUME NEW n \in Acts, act'[n] # None
               PROVE  n <= r
    BY <1>1 DEF ActsKnown
  <2>1. CASE n = r
    BY <1>0, <2>1
  <2>2. CASE n # r
    <3>1. n <= events /\ n \in Nat
      BY <1>1, <2>2, HandoffAssumption DEF ActsKnown, Acts
    <3> QED BY <1>0, <3>1 DEF r
  <2> QED BY <2>1, <2>2
<1>5. RivalsKnown'
  <2> SUFFICES ASSUME NEW q \in Acts, NEW s \in Acts,
                      act'[q] # None, s < q, s \notin act'[q].rivals, Going(s)'
               PROVE  FALSE
    BY DEF RivalsKnown
  <2>0. s \in Nat /\ q \in Nat /\ q <= r
    BY <1>1, <1>4, HandoffAssumption DEF Acts, ActsKnown
  <2>1. s # r
    BY <1>0, <2>0
  <2>2. act'[s] = act[s] /\ Going(s)
    BY <1>1, <2>1 DEF Going
  <2>3. CASE q = r
    BY <1>1, <2>2, <2>3
  <2>4. CASE q # r
    <3>1. act'[q] = act[q]
      BY <1>1, <2>4
    <3> QED BY <2>2, <3>1 DEF RivalsKnown
  <2> QED BY <2>3, <2>4
<1> QED BY <1>3, <1>4, <1>5

LEMMA HandlesAge ==
  ASSUME TypeOK, ActsKnown, RivalsKnown, NEW n \in Acts, Handles(n)
  PROVE  /\ Age /\ ActsKnown' /\ RivalsKnown'
         /\ Publishes(n) \/ DeliversHere(n) => Going(n) /\ Past(act', n)
<1>1. /\ act[n] # None /\ act'[n] # None /\ act'[n].rivals = act[n].rivals
      /\ \A m \in Acts : m # n => act'[m] = act[m]
  <2>1. act'[n] \in Handlings /\ act'[n].rivals = act[n].rivals
    BY HandlesEffect DEF Advances
  <2> QED BY <2>1, HandlesEffect, NoneIsNoValue DEF Advances
<1>2. AfterTold(n) \in {"over", "clearing"}
  BY DEF AfterTold
<1>3. Going(n)' => Going(n)
  BY <1>1, <1>2, HandlesEffect DEF Advances, Stands, Going
<1>4. Age
  BY <1>1, <1>3 DEF Age, Going
<1>5. events' = events /\ \A m \in Acts : act[m] = None => act'[m] = None
  BY <1>1, HandlesEffect
<1>6. ASSUME Publishes(n) \/ DeliversHere(n)
      PROVE  Going(n) /\ Past(act', n)
  <2>1. Moves(n, AfterTold(n)) /\ act[n].stage \in {"asking", "publishing"}
    BY <1>6 DEF Publishes, DeliversHere, Stands
  <2>2. AfterTold(n) \in Stages
    BY DEF AfterTold, Stages
  <2>3. act'[n].stage = AfterTold(n)
    BY <1>1, <2>1, <2>2, MovesAdvances DEF Advances
  <2>4. act'[n].stage \notin {"asking", "publishing"}
    BY <1>2, <2>3
  <2> QED BY <1>1, <2>1, <2>4 DEF Going, Past
<1> QED BY <1>4, <1>5, <1>6, AgeKnown

\* Appending what fits behind all before keeps the order.
LEMMA ShownNext ==
  ASSUME TypeOK, NEW r \in Acts, shown' = Append(shown, r), ShownFits,
         Age, ShownIsPast, \A m \in 1..Len(shown) : Fits(act, shown[m], r)
  PROVE  ShownFits'
<1>1. /\ Len(shown') = Len(shown) + 1 /\ Len(shown) \in Nat
      /\ \A m \in 1..Len(shown) : shown'[m] = shown[m]
      /\ shown'[Len(shown) + 1] = r
      /\ \A m \in 1..Len(shown) : shown[m] \in Acts
  BY DEF TypeOK
<1>2. \A m \in 1..Len(shown') : m \in 1..Len(shown) \/ m = Len(shown) + 1
  BY <1>1
<1>3. \A m \in 1..Len(shown) : \A b \in Acts :
        Fits(act, shown[m], b) => Fits(act', shown[m], b)
  BY <1>1, AgeKeeps DEF ShownIsPast
<1> QED BY <1>1, <1>2, <1>3 DEF ShownFits

\* A published event is the last one of each inbox that has it.
LEMMA PublishLast ==
  ASSUME TypeOK, NEW e \in AgentEvents, Publish(e), NEW w \in Workers
  PROVE  /\ Len(inbox[w]) \in Nat /\ Len(inbox'[w]) \in Nat
         /\ Len(inbox'[w]) \in {Len(inbox[w]), Len(inbox[w]) + 1}
         /\ \A i \in 1..Len(inbox[w]) : inbox'[w][i] = inbox[w][i]
         /\ \A i \in 1..Len(inbox'[w]) : i \in 1..Len(inbox[w]) \/ i = Len(inbox[w]) + 1
         /\ Len(inbox'[w]) = Len(inbox[w]) + 1 => inbox'[w][Len(inbox[w]) + 1] = e
<1>1. inbox[w] \in Seq(AgentEvents)
  BY DEF TypeOK
<1>2. inbox'[w] = inbox[w] \/ inbox'[w] = Append(inbox[w], e)
  BY DEF Publish
<1> QED BY <1>1, <1>2

\* The event that is taken was the first one of its inbox.
LEMMA DeliverFirst ==
  ASSUME TypeOK, NEW w \in Workers, Deliver(w)
  PROVE  /\ Len(inbox[w]) \in Nat \ {0} /\ Len(inbox'[w]) = Len(inbox[w]) - 1
         /\ Head(inbox[w]) = inbox[w][1]
         /\ \A i \in 1..Len(inbox'[w]) : i + 1 \in 1..Len(inbox[w]) /\ inbox'[w][i] = inbox[w][i + 1]
         /\ \A u \in Workers : u # w => inbox'[u] = inbox[u]
<1>1. inbox[w] \in Seq(AgentEvents) /\ inbox[w] # <<>>
  BY DeliverEffect DEF TypeOK
<1>2. inbox'[w] = Tail(inbox[w]) /\ \A u \in Workers : u # w => inbox'[u] = inbox[u]
  BY DeliverEffect DEF TypeOK
<1> QED BY <1>1, <1>2

LEMMA OrderStep ==
  ASSUME TInv, DirectInv, OrderInv, [Next]_vars
  PROVE  OrderInv'
<1>a. TypeOK /\ LiveIsNewest /\ connects \in Nat
  <2>1. TypeOK /\ LiveIsNewest
    BY DEF TInv
  <2>2. connects \in 0..MaxConnects
    BY <2>1 DEF TypeOK
  <2> QED BY <2>1, <2>2, HandoffAssumption
<1>b. \A m \in 1..Len(shown) : shown[m] \in Acts
  BY <1>a DEF TypeOK
<1>c. \A w \in Workers : \A i \in 1..Len(inbox[w]) : inbox[w][i].act \in Acts
  <2>1. \A e \in AgentEvents : e.act \in Acts
    BY DEF AgentEvents
  <2> QED BY <2>1, <1>a DEF TypeOK
\* What shows nothing, publishes nothing and reaches no other socket.
<1>d. ASSUME UNCHANGED <<connects, shown>>, at' \in {at, None},
             Age, ActsKnown', RivalsKnown',
             \A w \in Workers : inbox'[w] = <<>> \/ inbox'[w] = inbox[w]
      PROVE  OrderInv'
  <2>1. \A w \in Workers : at' = w => at = w
    BY <1>d, HandoffAssumption
  <2>2. /\ \A n \in Acts : Past(act, n) => Past(act', n)
        /\ \A a, b \in Acts : Past(act, a) /\ Fits(act, a, b) => Fits(act', a, b)
    BY <1>d, AgeKeeps
  <2>3. ShownIsPast' /\ InboxIsPast'
    BY <1>b, <1>c, <1>d, <2>2 DEF OrderInv, ShownIsPast, InboxIsPast
  <2>4. InboxInOrder'
    BY <1>c, <1>d, <2>2 DEF OrderInv, InboxIsPast, InboxInOrder
  <2>5. ShownFits => ShownFits'
    BY <1>b, <1>d, <2>2 DEF OrderInv, ShownIsPast, ShownFits
  <2>6. InboxIsNext => InboxIsNext'
    BY <1>b, <1>c, <1>d, <2>1, <2>2 DEF OrderInv, ShownIsPast, InboxIsNext
  <2> QED BY <1>d, <2>3, <2>4, <2>5, <2>6 DEF OrderInv
\* ... nor touches any act.
<1>e. ASSUME UNCHANGED <<act, events>>
      PROVE  Age /\ ActsKnown' /\ RivalsKnown'
  <2>1. Age
    BY <1>e DEF Age, Going
  <2> QED BY <1>e, <2>1, AgeKnown DEF OrderInv
<1>1. CASE VisitorLeaves
  BY <1>1, <1>d, <1>e DEF VisitorLeaves, agents, seen
<1>2. ASSUME NEW w \in Workers, Register(w)
      PROVE  OrderInv'
  <2>1. UNCHANGED <<shown, act, events, inbox>> /\ connects' = connects + 1
    BY <1>2 DEF Register, agents
  <2>2. connects' <= 1 => shown' = <<>>
    BY <2>1, <1>a DEF OrderInv
  <2>3. ActsKnown' /\ RivalsKnown'
    BY <2>1, <1>e
  <2>4. ShownIsPast' /\ InboxIsPast' /\ InboxInOrder'
    BY <2>1 DEF OrderInv, ShownIsPast, InboxIsPast, InboxInOrder
  <2>5. connects' <= 1 => ShownFits' /\ InboxIsNext'
    BY <2>2 DEF ShownFits, InboxIsNext
  <2> QED BY <2>1, <2>3, <2>4, <2>5, <1>a DEF OrderInv
<1>3. ASSUME NEW w \in Workers, Adopt(w) \/ Cleanup(w) \/ UserMessage(w)
      PROVE  OrderInv'
  BY <1>3, <1>d, <1>e DEF Adopt, Cleanup, UserMessage, visitor, agents, seen
<1>4. ASSUME NEW t \in Threads, SlackPosts(t) \/ HandoffCreated(t) \/ HandoffFails(t)
      PROVE  OrderInv'
  BY <1>4, <1>d, <1>e DEF SlackPosts, HandoffCreated, HandoffFails, visitor, agents, seen
<1>5. ASSUME NEW w \in Workers, NEW t \in Threads, ConfirmHandoff(w, t)
      PROVE  OrderInv'
  BY <1>5, <1>d, <1>e DEF ConfirmHandoff, visitor, agents, seen
<1>6. ASSUME NEW type \in ActTypes, NEW t \in Threads, NEW w \in Workers, AgentActs(type, t, w)
      PROVE  OrderInv'
  <2>1. UNCHANGED <<connects, at, shown, inbox>>
    BY <1>6 DEF AgentActs, visitor, seen
  <2>2. Age /\ ActsKnown' /\ RivalsKnown'
    BY <1>6, <1>a, AgentActsKnown DEF OrderInv
  <2> QED BY <1>d, <2>1, <2>2
<1>7. ASSUME NEW n \in Acts, Handles(n)
      PROVE  OrderInv'
  <2>1. /\ Age /\ ActsKnown' /\ RivalsKnown' /\ UNCHANGED <<connects, at>>
        /\ Publishes(n) \/ DeliversHere(n) => Going(n) /\ Past(act', n)
    BY <1>7, <1>a, HandlesAge, HandlesEffect DEF OrderInv, visitor
  <2>2. CASE UNCHANGED <<shown, inbox>>
    BY <1>d, <2>1, <2>2
  <2>k. /\ \A a \in Acts : Past(act, a) => Past(act', a)
        /\ \A a, b \in Acts : Past(act, a) /\ Fits(act, a, b) => Fits(act', a, b)
    BY <2>1, AgeKeeps
  \* Act n is published: it was on its way, so it fits behind what arrived.
  <2>3. CASE Publishes(n)
    <3> DEFINE e == [type |-> act[n].type, thread |-> act[n].thread, act |-> n]
    <3>1. Publish(e) /\ shown' = shown /\ e.act = n
      BY <2>3 DEF Publishes
    <3>2. e \in AgentEvents
      <4>1. act[n].type \in ActTypes /\ act[n].thread \in Threads
        BY <1>7, <1>a, HandlesEffect DEF Handlings
      <4> QED BY <4>1, EventType
    <3>3. Going(n) /\ Past(act', n)
      BY <2>1, <2>3
    <3> HIDE DEF e
    <3>4. ASSUME NEW w \in Workers, NEW i \in 1..Len(inbox'[w])
          PROVE  \/ i \in 1..Len(inbox[w]) /\ inbox'[w][i] = inbox[w][i]
                 \/ i = Len(inbox[w]) + 1 /\ inbox'[w][i].act = n
      BY <3>1, <3>2, <3>4, <1>a, PublishLast
    <3>5. ShownIsPast'
      BY <3>1, <1>b, <2>k DEF OrderInv, ShownIsPast
    <3>6. InboxIsPast'
      BY <3>3, <3>4, <1>c, <2>k DEF OrderInv, InboxIsPast
    <3>7. InboxInOrder'
      <4> SUFFICES ASSUME NEW w \in Workers, NEW i \in 1..Len(inbox'[w]),
                          NEW j \in 1..Len(inbox'[w]), i < j
                   PROVE  Fits(act', inbox'[w][i].act, inbox'[w][j].act)
        BY DEF InboxInOrder
      <4>1. Len(inbox[w]) \in Nat /\ Len(inbox'[w]) \in {Len(inbox[w]), Len(inbox[w]) + 1}
        BY <3>1, <3>2, <1>a, PublishLast
      <4>2. i \in 1..Len(inbox[w]) /\ inbox'[w][i] = inbox[w][i]
        BY <3>4, <4>1
      <4>3. inbox[w][i].act \in Acts /\ Past(act, inbox[w][i].act)
        BY <4>2, <1>c DEF OrderInv, InboxIsPast
      <4>4. CASE j \in 1..Len(inbox[w]) /\ inbox'[w][j] = inbox[w][j]
        <5>1. Fits(act, inbox[w][i].act, inbox[w][j].act) /\ inbox[w][j].act \in Acts
          BY <4>2, <4>4, <1>c DEF OrderInv, InboxInOrder
        <5> QED BY <4>2, <4>3, <4>4, <5>1, <2>k
      <4>5. CASE inbox'[w][j].act = n
        <5>1. Fits(act, inbox[w][i].act, n)
          BY <3>3, <4>3, GoingFits DEF OrderInv
        <5> QED BY <4>2, <4>3, <4>5, <5>1, <2>k
      <4> QED BY <3>4, <4>4, <4>5
    <3>8. ShownFits => ShownFits'
      BY <3>1, <1>b, <2>k DEF OrderInv, ShownIsPast, ShownFits
    <3>9. InboxIsNext => InboxIsNext'
      <4> SUFFICES ASSUME InboxIsNext, NEW w \in Workers, at = w, NEW m \in 1..Len(shown),
                          NEW i \in 1..Len(inbox'[w])
                   PROVE  Fits(act', shown[m], inbox'[w][i].act)
        BY <2>1, <3>1 DEF InboxIsNext
      <4>1. shown[m] \in Acts /\ Past(act, shown[m])
        BY <1>b DEF OrderInv, ShownIsPast
      <4>2. CASE i \in 1..Len(inbox[w]) /\ inbox'[w][i] = inbox[w][i]
        BY <4>1, <4>2, <1>c, <2>k DEF InboxIsNext
      <4>3. CASE inbox'[w][i].act = n
        <5>1. Fits(act, shown[m], n)
          BY <3>3, <4>1, GoingFits DEF OrderInv
        <5> QED BY <4>1, <4>3, <5>1, <2>k
      <4> QED BY <3>4, <4>2, <4>3
    <3> QED BY <2>1, <3>1, <3>5, <3>6, <3>7, <3>8, <3>9 DEF OrderInv
  \* Without Redis it is shown at once, and nothing waits anywhere.
  <2>4. CASE DeliversHere(n) /\ shown' # shown
    <3>1. /\ shown' = Append(shown, n) /\ inbox' = inbox /\ ~redis /\ at \in Workers
      BY <2>4, <1>7, <1>a, HandlesEffect DEF DeliversHere, Shown, Handlings
    <3>2. Going(n) /\ Past(act', n)
      BY <2>1, <2>4
    <3>3. \A m \in 1..Len(shown) : Fits(act, shown[m], n)
      BY <3>2, <1>b, GoingFits DEF OrderInv, ShownIsPast
    <3>4. ShownFits => ShownFits'
      BY <2>1, <3>1, <3>3, <1>a, ShownNext DEF OrderInv
    <3>5. connects # 0
      BY <1>a, <3>1 DEF LiveIsNewest
    <3>6. \A u \in Workers : inbox'[u] = <<>>
      BY <3>1 DEF DirectInv, NothingShared
    <3>7. ShownIsPast'
      <4>1. \A m \in 1..Len(shown') :
              \/ m \in 1..Len(shown) /\ shown'[m] = shown[m]
              \/ shown'[m] = n
        BY <3>1, <1>a DEF TypeOK
      <4> QED BY <4>1, <3>2, <1>b, <2>k DEF OrderInv, ShownIsPast
    <3>8. InboxIsPast' /\ InboxInOrder' /\ InboxIsNext'
      BY <3>6 DEF InboxIsPast, InboxInOrder, InboxIsNext
    <3> QED BY <2>1, <3>4, <3>5, <3>7, <3>8 DEF OrderInv
  <2>5. Publishes(n) \/ DeliversHere(n) \/ UNCHANGED <<shown, inbox>>
    BY <1>7 DEF Handles, Dropped, Finds, PublishFails, Clears, Posts, seen
  <2>6. DeliversHere(n) => inbox' = inbox
    BY DEF DeliversHere
  <2> QED BY <2>2, <2>3, <2>4, <2>5, <2>6
<1>8. ASSUME NEW w \in Workers, Deliver(w)
      PROVE  OrderInv'
  <2> DEFINE e == inbox[w][1]
  <2>1. Delivers(w, e) /\ UNCHANGED <<connects, at, events, act>>
    BY <1>8, <1>a, DeliverEffect, DeliverFirst DEF visitor
  <2>2. /\ Len(inbox[w]) \in Nat \ {0}
        /\ \A i \in 1..Len(inbox'[w]) : i + 1 \in 1..Len(inbox[w]) /\ inbox'[w][i] = inbox[w][i + 1]
        /\ \A u \in Workers : u # w => inbox'[u] = inbox[u]
        /\ Len(inbox'[w]) = Len(inbox[w]) - 1
    BY <1>8, <1>a, DeliverFirst
  <2>3. 1 \in 1..Len(inbox[w])
    BY <2>2
  <2>a. Age /\ ActsKnown' /\ RivalsKnown'
    BY <2>1, <1>e
  <2>4. InboxIsPast'
    BY <2>1, <2>2 DEF OrderInv, InboxIsPast
  <2>5. InboxInOrder'
    <3> SUFFICES ASSUME NEW u \in Workers, NEW i \in 1..Len(inbox'[u]), NEW j \in 1..Len(inbox'[u]),
                        i < j
                 PROVE  Fits(act, inbox'[u][i].act, inbox'[u][j].act)
      BY <2>1 DEF InboxInOrder
    <3>1. CASE u # w
      BY <2>2, <3>1 DEF OrderInv, InboxInOrder
    <3>2. CASE u = w
      <4>1. /\ i + 1 \in 1..Len(inbox[w]) /\ inbox'[w][i] = inbox[w][i + 1]
            /\ j + 1 \in 1..Len(inbox[w]) /\ inbox'[w][j] = inbox[w][j + 1]
            /\ i + 1 < j + 1
        BY <2>2, <3>2
      <4> QED BY <3>2, <4>1 DEF OrderInv, InboxInOrder
    <3> QED BY <3>1, <3>2
  <2>6. CASE shown' = shown
    <3>1. InboxIsNext => InboxIsNext'
      <4> SUFFICES ASSUME InboxIsNext, NEW u \in Workers, at = u, NEW m \in 1..Len(shown),
                          NEW i \in 1..Len(inbox'[u])
                   PROVE  Fits(act, shown[m], inbox'[u][i].act)
        BY <2>1, <2>6 DEF InboxIsNext
      <4>2. CASE u # w
        BY <2>2, <4>2 DEF InboxIsNext
      <4>3. CASE u = w
        <5>1. i + 1 \in 1..Len(inbox[w]) /\ inbox'[w][i] = inbox[w][i + 1]
          BY <2>2, <4>3
        <5> QED BY <4>3, <5>1 DEF InboxIsNext
      <4> QED BY <4>2, <4>3
    <3> QED BY <2>1, <2>a, <2>4, <2>5, <2>6, <3>1 DEF OrderInv, ShownIsPast, ShownFits
  <2>7. CASE shown' # shown
    <3>1. /\ e.act \in Acts /\ at = w /\ shown' = Append(shown, e.act)
      BY <2>1, <2>7 DEF Delivers, Shown
    <3>2. Past(act, e.act)
      BY <2>3 DEF OrderInv, InboxIsPast
    <3>3. \A m \in 1..Len(shown') :
            (m \in 1..Len(shown) /\ shown'[m] = shown[m]) \/ shown'[m] = e.act
      BY <3>1, <1>a DEF TypeOK
    <3>4. ShownIsPast'
      BY <2>1, <3>2, <3>3 DEF OrderInv, ShownIsPast
    <3>5. connects # 0
      BY <1>a, <3>1 DEF LiveIsNewest
    <3>6. ASSUME InboxIsNext, ShownFits
          PROVE  ShownFits' /\ InboxIsNext'
      <4>1. \A m \in 1..Len(shown) : Fits(act, shown[m], e.act)
        BY <2>3, <3>1, <3>6 DEF InboxIsNext
      <4>2. ShownFits'
        BY <2>a, <3>1, <3>6, <4>1, <1>a, ShownNext DEF OrderInv
      <4>3. ASSUME NEW i \in 1..Len(inbox'[w])
            PROVE  Fits(act, e.act, inbox'[w][i].act)
        <5>1. i + 1 \in 1..Len(inbox[w]) /\ inbox'[w][i] = inbox[w][i + 1] /\ 1 < i + 1
          BY <2>2
        <5> QED BY <2>3, <4>3, <5>1 DEF OrderInv, InboxInOrder
      <4>4. ASSUME NEW i \in 1..Len(inbox'[w]), NEW m \in 1..Len(shown)
            PROVE  Fits(act, shown[m], inbox'[w][i].act)
        <5>1. i + 1 \in 1..Len(inbox[w]) /\ inbox'[w][i] = inbox[w][i + 1]
          BY <2>2
        <5> QED BY <3>1, <3>6, <4>4, <5>1 DEF InboxIsNext
      <4>5. InboxIsNext'
        <5> SUFFICES ASSUME NEW m \in 1..Len(shown'), NEW i \in 1..Len(inbox'[w])
                     PROVE  Fits(act, shown'[m], inbox'[w][i].act)
          BY <2>1, <3>1 DEF InboxIsNext
        <5> QED BY <3>3, <4>3, <4>4
      <4> QED BY <4>2, <4>5
    <3> QED BY <2>1, <2>a, <2>4, <2>5, <3>4, <3>5, <3>6 DEF OrderInv
  <2> QED BY <2>6, <2>7
<1>9. ASSUME NEW w \in Workers, ListenerDies(w)
      PROVE  OrderInv'
  <2>1. UNCHANGED <<connects, at, shown, act, events>>
    BY <1>9 DEF ListenerDies, visitor
  <2>2. \A u \in Workers : inbox'[u] = <<>> \/ inbox'[u] = inbox[u]
    BY <1>9, <1>a DEF ListenerDies, TypeOK
  <2> QED BY <1>d, <1>e, <2>1, <2>2
<1>10. ASSUME NEW w \in Workers, Crash(w)
       PROVE  OrderInv'
  <2>1. UNCHANGED <<connects, shown, events>> /\ at' \in {at, None}
    BY <1>10 DEF Crash
  <2>2. \A u \in Workers : inbox'[u] = <<>> \/ inbox'[u] = inbox[u]
    BY <1>10, <1>a DEF Crash, TypeOK
  <2>3. Age /\ \A n \in Acts : act[n] = None => act'[n] = None
    BY <1>10, <1>a, CrashEffect DEF Age, Going
  <2>4. ActsKnown' /\ RivalsKnown'
    BY <2>1, <2>3, AgeKnown DEF OrderInv
  <2> QED BY <1>d, <2>1, <2>2, <2>3, <2>4
<1>11. CASE UNCHANGED vars
  BY <1>11, <1>d, <1>e DEF vars
<1> QED BY <1>1, <1>2, <1>3, <1>4, <1>5, <1>6, <1>7, <1>8, <1>9, <1>10, <1>11 DEF Next, Step

LEMMA OrderInvariant == Spec => []OrderInv
<1>1. Spec => []DirectInv
  BY TypeInvariant, ThreadInvariant, DirectInit, DirectStep, PTL DEF Spec
<1> QED BY <1>1, TypeInvariant, OrderInit, OrderStep, PTL DEF Spec

(* _deliver_agent_message: to a visitor who opened one socket, and as long *)
(* as he stays on it, each of the agents' replies is shown once; he sees   *)
(* one before an earlier one only if the earlier one's task still awaited  *)
(* Slack's lookups, the session or its PUBLISH when it was written.  On    *)
(* any worker Slack hands them to, with and without Redis, whatever calls  *)
(* fail and whatever subscribers and workers die.                          *)
THEOREM OneSocketOrderTheorem == Spec => [](connects <= 1 => ShownInOrder)
<1>1. TInv /\ OrderInv => (connects <= 1 => ShownInOrder)
  BY FitsIsOrder DEF TInv, OrderInv
<1> QED BY <1>1, OrderInvariant, TypeInvariant, PTL

(* ShownInOrder itself, where the visitor has one socket to open, as in the*)
(* run that checks it.                                                     *)
THEOREM ShownInOrderTheorem ==
  ASSUME MaxConnects <= 1
  PROVE  Spec => []ShownInOrder
<1>1. TInv => connects <= 1
  BY HandoffAssumption DEF TInv, TypeOK
<1> QED BY <1>1, OneSocketOrderTheorem, TypeInvariant, PTL

-----------------------------------------------------------------------------
(* What ends a handoff                                                     *)

\* Before the first load is answered there is no session to hand over.
NothingYet ==
  /\ saved = None
  /\ \A w \in Workers : session[w] = None /\ inbox[w] = <<>>
  /\ \A t \in Threads : creating[t] = None /\ slack[t] = "none"
  /\ \A n \in Acts : act[n] = None

Starts ==
  /\ connects = 0 => \A w \in Workers : loading[w] = <<>>
  /\ connects = 0 \/ (\E w \in Workers : loading[w] # <<>>) => NothingYet
  /\ \A w \in Workers : loading[w] # <<>> => loading[w] = <<None, TRUE>>

\* One socket, one dict of the session, ...
InSession(w) == session[w] # None \/ loading[w] # <<>>
OneSession == \A u, v \in Workers : InSession(u) /\ InSession(v) => u = v

\* ... and one handoff being created, while it is in none.
OneCreation ==
  \A t \in Threads : creating[t] # None =>
    /\ creating[t].conn = connects
    /\ ~session[creating[t].worker].active
    /\ \A s \in Threads : creating[s] # None => s = t

SingleInv == connects <= 1 => Starts /\ OneSession /\ OneCreation

LEMMA SingleInit == Init => SingleInv
BY DEF Init, SingleInv, Starts, NothingYet, OneSession, InSession, OneCreation

\* The dicts that are left are in the handoff they were in, if any.
SameHandoffs ==
  \A w \in Workers : session'[w] # None =>
    /\ session[w] # None
    /\ session'[w].active <=> session[w].active
    /\ session'[w].thread = session[w].thread

\* Worker w's dict leaves its handoff, the others remain in theirs.
Leaves(w) ==
  /\ w \in Workers /\ session[w] # None
  /\ session'[w] # None => ~session'[w].active /\ session'[w].thread = session[w].thread
  /\ \A u \in Workers : u # w => session'[u] = session[u]

LEMMA SaveSame ==
  ASSUME TypeOK, NEW w \in Workers, session[w] # None, NEW s \in Sessions, SaveSession(w, s),
         s.active <=> session[w].active, s.thread = session[w].thread
  PROVE  SameHandoffs
<1>1. /\ session'[w] = Stores(s)
      /\ \A u \in Workers : u # w => session'[u] = session[u]
  BY SaveType
<1>2. (Stores(s).active <=> s.active) /\ Stores(s).thread = s.thread
  BY StoresKeeps
<1> QED BY <1>1, <1>2 DEF SameHandoffs

LEMMA SaveLeaves ==
  ASSUME TypeOK, NEW w \in Workers, session[w] # None, NEW s \in Sessions, SaveSession(w, s),
         ~s.active, s.thread = session[w].thread
  PROVE  Leaves(w)
<1>1. /\ session'[w] = Stores(s)
      /\ \A u \in Workers : u # w => session'[u] = session[u]
  BY SaveType
<1>2. (Stores(s).active <=> s.active) /\ Stores(s).thread = s.thread
  BY StoresKeeps
<1> QED BY <1>1, <1>2 DEF Leaves

\* What an event does to the handoff of a session.
LEMMA DeliverHandoffs ==
  ASSUME TypeOK, NEW w \in Workers, NEW e \in AgentEvents, Delivers(w, e)
  PROVE  \/ SameHandoffs
         \/ ~IsReply(e) /\ Leaves(w)
<1>1. CASE UNCHANGED session
  BY <1>1 DEF SameHandoffs
<1>2. CASE session[w] # None /\ IsReply(e) /\ e.act \in Acts /\ SaveSession(w, Heard(w, e.act))
  <2>1. /\ Heard(w, e.act) \in Sessions
        /\ Heard(w, e.act).active <=> session[w].active
        /\ Heard(w, e.act).thread = session[w].thread
    BY <1>2, HeardKeeps
  <2> QED BY <1>2, <2>1, SaveSame
<1>3. CASE session[w] # None /\ ~IsReply(e) /\ SaveSession(w, Returned(w))
  <2>1. /\ Returned(w) \in Sessions /\ ~Returned(w).active
        /\ Returned(w).thread = session[w].thread
    BY <1>3, ReturnedKeeps
  <2> QED BY <1>3, <2>1, SaveLeaves
<1>4. IsReply(e) <=> e.type = "agent_message"
  BY DEF IsReply
<1> QED BY <1>1, <1>2, <1>3, <1>4 DEF Delivers

LEMMA DirectHandoffs ==
  ASSUME TypeOK, NEW n \in Acts, act[n] \in Handlings, DeliversHere(n)
  PROVE  \/ SameHandoffs
         \/ act[n].type = "agent_left" /\ Leaves(act[n].worker)
<1> DEFINE w == act[n].worker
           d == IF act[n].type = "agent_message" THEN Heard(w, n) ELSE Returned(w)
<1>1. session' = [session EXCEPT ![w] = d]
  BY DEF DeliversHere
<1>2. w \in Workers /\ act[n].type \in {"agent_message", "agent_left"}
  BY DEF Handlings, ActTypes
<1> HIDE DEF w, d
<1>3. session'[w] = d /\ \A u \in Workers : u # w => session'[u] = session[u]
  BY <1>1, <1>2 DEF TypeOK
<1>4. CASE session[w] = None
  <2>1. d = None
    BY <1>2, <1>4, HeardKeeps, ReturnedKeeps DEF d
  <2> QED BY <1>3, <1>4, <2>1 DEF SameHandoffs
<1>5. CASE session[w] # None /\ act[n].type = "agent_message"
  <2>1. (d.active <=> session[w].active) /\ d.thread = session[w].thread
    BY <1>2, <1>5, HeardKeeps DEF d
  <2> QED BY <1>3, <1>5, <2>1 DEF SameHandoffs
<1>6. CASE session[w] # None /\ act[n].type = "agent_left"
  <2>1. ~d.active /\ d.thread = session[w].thread
    BY <1>2, <1>6, ReturnedKeeps DEF d
  <2>2. Leaves(w)
    BY <1>2, <1>3, <1>6, <2>1 DEF Leaves
  <2> QED BY <1>6, <2>2 DEF w
<1> QED BY <1>2, <1>4, <1>5, <1>6

LEMMA CleanupHandoffs ==
  ASSUME TypeOK, NEW w \in Workers, Cleanup(w)
  PROVE  SameHandoffs
<1>1. CASE session[w] = None
  BY <1>1 DEF Cleanup, SameHandoffs
<1>2. CASE session[w] # None
  <2>1. session[w] \in Sessions /\ SaveSession(w, session[w])
    BY <1>2 DEF TypeOK, Cleanup
  <2> QED BY <1>2, <2>1, SaveSame
<1> QED BY <1>1, <1>2

LEMMA UserMessageHandoffs ==
  ASSUME TypeOK, NEW w \in Workers, UserMessage(w)
  PROVE  SameHandoffs
<1>1. session[w] # None /\ session[w] \in Sessions /\ SaveSession(w, session[w])
  BY DEF TypeOK, UserMessage, Ready
<1> QED BY <1>1, SaveSame

LEMMA FailsHandoffs ==
  ASSUME TInv, NEW t \in Threads, HandoffFails(t)
  PROVE  SameHandoffs
<1> DEFINE w == creating[t].worker
<1>1. /\ w \in Workers /\ session[w] # None /\ session[w] \in Sessions
      /\ SaveSession(w, session[w])
  BY NoneIsNoValue DEF TInv, TypeOK, CreatingHasSession, HandoffFails, Confirms
<1> HIDE DEF w
<1> QED BY <1>1, SaveSame DEF TInv

LEMMA CrashHandoffs ==
  ASSUME TypeOK, NEW w \in Workers, Crash(w)
  PROVE  SameHandoffs
BY DEF Crash, TypeOK, SameHandoffs

\* A step that opens no socket and asks for no thread keeps what one socket means.
LEMMA SingleFrame ==
  ASSUME SingleInv, CreatingHasSession', UNCHANGED connects, NothingYet => NothingYet',
         \A w \in Workers : loading'[w] = loading[w] \/ loading'[w] = <<>>,
         \A t \in Threads : creating'[t] # None =>
           creating'[t] = creating[t] /\ creating[t].worker \in Workers,
         SameHandoffs \/ \E w \in Workers : Leaves(w)
  PROVE  SingleInv'
<1> SUFFICES ASSUME connects <= 1
             PROVE  Starts' /\ OneSession' /\ OneCreation'
  BY DEF SingleInv
<1>1. Starts /\ OneSession /\ OneCreation
  BY DEF SingleInv
<1>2. \A w \in Workers : session'[w] # None =>
        session[w] # None /\ (session'[w].active => session[w].active)
  BY DEF SameHandoffs, Leaves
<1>3. Starts'
  BY <1>1 DEF Starts
<1>4. OneSession'
  BY <1>1, <1>2 DEF OneSession, InSession
<1>5. OneCreation'
  BY <1>1, <1>2 DEF OneCreation, CreatingHasSession
<1> QED BY <1>3, <1>4, <1>5

LEMMA SingleStep ==
  ASSUME TInv, TInv', SingleInv, [Next]_vars
  PROVE  SingleInv'
<1>a. TypeOK /\ CreatingHasSession /\ CreatingHasSession' /\ connects \in Nat
  <2>1. TypeOK /\ CreatingHasSession /\ CreatingHasSession'
    BY DEF TInv
  <2>2. connects \in 0..MaxConnects
    BY <2>1 DEF TypeOK
  <2> QED BY <2>1, <2>2, HandoffAssumption
<1>b. \A t \in Threads : creating[t] # None =>
        /\ creating[t].worker \in Workers /\ session[creating[t].worker] # None
        /\ creating[t] = [worker |-> creating[t].worker, conn |-> creating[t].conn]
  BY <1>a, NoneIsNoValue DEF TypeOK, Confirms, CreatingHasSession
<1>1. CASE VisitorLeaves
  BY <1>1, <1>a, <1>b, SingleFrame DEF VisitorLeaves, routing, agents, SameHandoffs, NothingYet
<1>2. ASSUME NEW w \in Workers, Register(w)
      PROVE  SingleInv'
  <2> SUFFICES ASSUME connects' <= 1
               PROVE  Starts' /\ OneSession' /\ OneCreation'
    BY DEF SingleInv
  <2>1. /\ connects = 0 /\ connects' = 1
        /\ loading' = [loading EXCEPT ![w] = <<saved, TRUE>>]
        /\ UNCHANGED <<session, saved, inbox, creating, slack, act>>
    BY <1>2, <1>a DEF Register, routing, agents
  <2>2. NothingYet /\ \A u \in Workers : loading[u] = <<>>
    BY <2>1 DEF SingleInv, Starts
  <2>3. loading'[w] = <<None, TRUE>> /\ \A u \in Workers : u # w => loading'[u] = <<>>
    BY <2>1, <2>2, <1>a DEF NothingYet, TypeOK
  <2>4. NothingYet'
    BY <2>1, <2>2 DEF NothingYet
  <2>10. connects' # 0
    BY <2>1
  <2>9. \A u \in Workers : loading'[u] # <<>> => loading'[u] = <<None, TRUE>>
    BY <2>3
  <2>5. Starts'
    BY <2>4, <2>9, <2>10 DEF Starts
  <2>6. \A u \in Workers : session'[u] = None /\ (loading'[u] # <<>> => u = w)
    BY <2>3, <2>4 DEF NothingYet
  <2>7. OneSession'
    BY <2>6 DEF OneSession, InSession
  <2>8. OneCreation'
    BY <2>4 DEF OneCreation, NothingYet
  <2> QED BY <2>5, <2>7, <2>8
<1>3. ASSUME NEW w \in Workers, Adopt(w)
      PROVE  SingleInv'
  <2> SUFFICES ASSUME connects' <= 1
               PROVE  Starts' /\ OneSession' /\ OneCreation'
    BY DEF SingleInv
  <2>1. /\ loading[w] # <<>> /\ connects' = connects /\ creating' = creating
        /\ loading' = [loading EXCEPT ![w] = <<>>]
        /\ \A u \in Workers : u # w => session'[u] = session[u]
    BY <1>3, <1>a DEF Adopt, routing, TypeOK
  <2>2. Starts /\ OneSession /\ NothingYet /\ connects # 0
    BY <2>1 DEF SingleInv, Starts
  <2>3. \A u \in Workers : loading'[u] = <<>>
    BY <2>1, <2>2, <1>a DEF OneSession, InSession, TypeOK
  <2>4. Starts' /\ OneSession'
    BY <2>1, <2>2, <2>3 DEF Starts, OneSession, InSession, NothingYet
  <2>5. OneCreation'
    BY <2>1, <2>2 DEF OneCreation, NothingYet
  <2> QED BY <2>4, <2>5
<1>4. ASSUME NEW w \in Workers, Cleanup(w)
      PROVE  SingleInv'
  <2>1. NothingYet => NothingYet'
    BY <1>4 DEF Cleanup, NothingYet, routing, agents
  <2> QED BY <1>4, <2>1, <1>a, <1>b, CleanupHandoffs, SingleFrame DEF Cleanup, routing
<1>5. ASSUME NEW w \in Workers, UserMessage(w)
      PROVE  SingleInv'
  <2>1. ~NothingYet
    BY <1>5 DEF UserMessage, Ready, NothingYet
  <2> QED BY <1>5, <2>1, <1>a, <1>b, UserMessageHandoffs, SingleFrame
          DEF UserMessage, visitor, routing
<1>6. ASSUME NEW w \in Workers, NEW t \in Threads, ConfirmHandoff(w, t)
      PROVE  SingleInv'
  <2> SUFFICES ASSUME connects <= 1
               PROVE  Starts' /\ OneSession' /\ OneCreation'
    BY <1>6 DEF SingleInv, ConfirmHandoff, visitor
  <2>1. /\ session[w] # None /\ ~session[w].active /\ loading[w] = <<>>
        /\ \A s \in Threads : creating[s] # [worker |-> w, conn |-> connects]
        /\ creating' = [creating EXCEPT ![t] = [worker |-> w, conn |-> connects]]
        /\ UNCHANGED <<session, connects, loading>>
    BY <1>6 DEF ConfirmHandoff, Ready, visitor
  <2>2. Starts /\ OneSession /\ OneCreation
    BY DEF SingleInv
  <2>3. \A s \in Threads : creating[s] = None
    <3> SUFFICES ASSUME NEW s \in Threads, creating[s] # None
                 PROVE  FALSE
      OBVIOUS
    <3>1. creating[s].worker = w
      BY <2>1, <2>2, <1>b DEF OneSession, InSession
    <3>2. creating[s].conn = connects
      BY <2>2 DEF OneCreation
    <3> QED BY <3>1, <3>2, <2>1, <1>b
  <2>4. \A s \in Threads :
          creating'[s] = IF s = t THEN [worker |-> w, conn |-> connects] ELSE None
    BY <2>1, <2>3, <1>a DEF TypeOK
  <2>5. OneCreation'
    BY <2>1, <2>4 DEF OneCreation
  <2>6. ~NothingYet
    BY <2>1 DEF NothingYet
  <2>7. Starts' /\ OneSession'
    BY <2>1, <2>2, <2>6 DEF Starts, OneSession, InSession
  <2> QED BY <2>5, <2>7
<1>7. ASSUME NEW t \in Threads, SlackPosts(t)
      PROVE  SingleInv'
  <2>1. ~NothingYet
    BY <1>7 DEF SlackPosts, NothingYet
  <2> QED BY <1>7, <2>1, <1>a, <1>b, SingleFrame DEF SlackPosts, visitor, SameHandoffs
<1>8. ASSUME NEW t \in Threads, HandoffCreated(t)
      PROVE  SingleInv'
  <2> SUFFICES ASSUME connects <= 1
               PROVE  Starts' /\ OneSession' /\ OneCreation'
    BY <1>8 DEF SingleInv, HandoffCreated, visitor
  <2>1. Starts /\ OneSession /\ OneCreation
    BY DEF SingleInv
  <2>2. /\ creating[t] # None /\ creating' = [creating EXCEPT ![t] = None]
        /\ UNCHANGED <<connects, loading>>
    BY <1>8 DEF HandoffCreated, visitor
  <2>3. \A s \in Threads : creating'[s] = None
    BY <2>1, <2>2, <1>a DEF OneCreation, TypeOK
  <2>4. \A u \in Workers : session'[u] # None => session[u] # None
    <3> DEFINE w == creating[t].worker
               d == [session[w] EXCEPT !.active = TRUE, !.thread = t]
    <3>1. w \in Workers /\ session[w] # None /\ SaveSession(w, d)
      BY <1>8, <2>2, <1>b DEF HandoffCreated
    <3> HIDE DEF w, d
    <3> QED BY <3>1, <1>a DEF SaveSession, TypeOK
  <2>5. ~NothingYet
    BY <2>2 DEF NothingYet
  <2>6. Starts' /\ OneSession'
    BY <2>1, <2>2, <2>4, <2>5 DEF Starts, OneSession, InSession
  <2> QED BY <2>3, <2>6 DEF OneCreation
<1>9. ASSUME NEW t \in Threads, HandoffFails(t)
      PROVE  SingleInv'
  <2>1. ~NothingYet
    BY <1>9 DEF HandoffFails, NothingYet
  <2>2. /\ creating' = [creating EXCEPT ![t] = None] /\ UNCHANGED <<connects, loading>>
    BY <1>9 DEF HandoffFails, visitor
  <2>3. \A s \in Threads : creating'[s] # None => creating'[s] = creating[s]
    BY <2>2, <1>a DEF TypeOK
  <2> QED BY <1>9, <2>1, <2>2, <2>3, <1>a, <1>b, FailsHandoffs, SingleFrame
<1>10. ASSUME NEW type \in ActTypes, NEW t \in Threads, NEW w \in Workers, AgentActs(type, t, w)
       PROVE  SingleInv'
  <2>1. ~NothingYet
    BY <1>10 DEF AgentActs, NothingYet
  <2> QED BY <1>10, <2>1, <1>a, <1>b, SingleFrame DEF AgentActs, visitor, routing, SameHandoffs
<1>11. ASSUME NEW n \in Acts, Handles(n)
       PROVE  SingleInv'
  <2>1. ~NothingYet /\ act[n] \in Handlings /\ UNCHANGED <<connects, loading, creating>>
    BY <1>11, <1>a, HandlesEffect DEF NothingYet, visitor
  <2>2. SameHandoffs \/ \E w \in Workers : Leaves(w)
    <3>1. CASE DeliversHere(n)
      BY <3>1, <2>1, <1>a, DirectHandoffs DEF Handlings
    <3>2. CASE UNCHANGED session
      BY <3>2 DEF SameHandoffs
    <3> QED BY <1>11, <3>1, <3>2
            DEF Handles, Dropped, Finds, Publishes, PublishFails, Clears, Posts
  <2> QED BY <2>1, <2>2, <1>a, <1>b, SingleFrame
<1>12. ASSUME NEW w \in Workers, Deliver(w)
       PROVE  SingleInv'
  <2>1. ~NothingYet /\ UNCHANGED <<connects, loading, creating>>
    BY <1>12, <1>a, DeliverEffect DEF NothingYet, visitor
  <2>2. SameHandoffs \/ Leaves(w)
    BY <1>12, <1>a, DeliverEffect, DeliverHandoffs
  <2> QED BY <2>1, <2>2, <1>a, <1>b, SingleFrame
<1>13. ASSUME NEW w \in Workers, ListenerDies(w)
       PROVE  SingleInv'
  <2>1. NothingYet => NothingYet'
    BY <1>13, <1>a DEF ListenerDies, NothingYet, routing, TypeOK
  <2> QED BY <1>13, <2>1, <1>a, <1>b, SingleFrame DEF ListenerDies, visitor, routing, SameHandoffs
<1>14. ASSUME NEW w \in Workers, Crash(w)
       PROVE  SingleInv'
  <2>1. NothingYet => NothingYet'
    BY <1>14, <1>a, CrashEffect DEF Crash, NothingYet, TypeOK
  <2>2. /\ UNCHANGED connects
        /\ \A u \in Workers : loading'[u] = loading[u] \/ loading'[u] = <<>>
        /\ \A t \in Threads : creating'[t] # None => creating'[t] = creating[t]
    BY <1>14, <1>a DEF Crash, TypeOK
  <2> QED BY <1>14, <2>1, <2>2, <1>a, <1>b, CrashHandoffs, SingleFrame
<1>15. CASE UNCHANGED vars
  BY <1>15, <1>a, <1>b, SingleFrame DEF vars, SameHandoffs, NothingYet
<1> QED BY <1>1, <1>2, <1>3, <1>4, <1>5, <1>6, <1>7, <1>8, <1>9, <1>10, <1>11, <1>12,
           <1>13, <1>14, <1>15 DEF Next, Step

LEMMA SingleInvariant == Spec => []SingleInv
BY TypeInvariant, SingleInit, SingleStep, PTL DEF Spec

\* What an agent did stays done.
LEMMA ActsStay ==
  ASSUME TypeOK, ActsKnown, [Next]_vars, NEW n \in Acts, act[n] # None
  PROVE  act'[n] # None /\ act'[n].type = act[n].type /\ act'[n].thread = act[n].thread
<1>1. ASSUME NEW type \in ActTypes, NEW t \in Threads, NEW w \in Workers, AgentActs(type, t, w)
      PROVE  act'[n] = act[n]
  <2>1. n <= events /\ n \in Nat /\ events \in Nat
    BY HandoffAssumption DEF ActsKnown, Acts, TypeOK
  <2> QED BY <1>1, <2>1, ActsEffect
<1>2. ASSUME NEW m \in Acts, Handles(m)
      PROVE  act'[n] # None /\ act'[n].type = act[n].type /\ act'[n].thread = act[n].thread
  BY <1>2, HandlesEffect, NoneIsNoValue DEF Advances
<1>3. ASSUME NEW w \in Workers, Crash(w)
      PROVE  act'[n] # None /\ act'[n].type = act[n].type /\ act'[n].thread = act[n].thread
  BY <1>3, CrashEffect
<1>4. ASSUME NEW w \in Workers, Deliver(w)
      PROVE  act' = act
  BY <1>4, DeliverEffect
<1>5. ASSUME NEW w \in Workers,
             Register(w) \/ Adopt(w) \/ Cleanup(w) \/ UserMessage(w) \/ ListenerDies(w)
      PROVE  act' = act
  BY <1>5 DEF Register, Adopt, Cleanup, UserMessage, ListenerDies, agents
<1>6. ASSUME NEW w \in Workers, NEW t \in Threads, ConfirmHandoff(w, t)
      PROVE  act' = act
  BY <1>6 DEF ConfirmHandoff, agents
<1>7. ASSUME NEW t \in Threads, SlackPosts(t) \/ HandoffCreated(t) \/ HandoffFails(t)
      PROVE  act' = act
  BY <1>7 DEF SlackPosts, HandoffCreated, HandoffFails, agents
<1>8. VisitorLeaves \/ UNCHANGED vars => act' = act
  BY DEF VisitorLeaves, agents, vars
<1> QED BY <1>1, <1>2, <1>3, <1>4, <1>5, <1>6, <1>7, <1>8 DEF Next, Step

\* The agents put two check marks on one thread.
Twice == \E t \in Threads, m, n \in Acts : m # n /\ Marks(m, t) /\ Marks(n, t)

MappedSomewhere(t) == t \in redisMap \/ \E w \in Workers : t \in localMap[w]
InHandoff(t) ==
  \A w \in Workers : session[w] # None => session[w].active /\ session[w].thread = t

\* A check mark that a session has yet to be told of.
WaitsFor(w, n) ==
  session[w] # None /\ \E i \in 1..Len(inbox[w]) : ~IsReply(inbox[w][i]) /\ inbox[w][i].act = n
Pending(n, t) ==
  /\ Marks(n, t)
  /\ \/ act[n].stage = "publishing"
     \/ act[n].stage = "asking" /\ MappedSomewhere(t)
     \/ \E w \in Workers : WaitsFor(w, n)

\* Who is no longer in his handoff had a check mark on it; ...
MarkedEnds ==
  \A w \in Workers, t \in Threads :
    session[w] # None /\ session[w].thread = t /\ ~session[w].active
      => \E n \in Acts : Marks(n, t)

\* ... one that is to come finds him in the handoff it is on, ...
PendingHere == \A n \in Acts, t \in Threads : Pending(n, t) => InHandoff(t)

\* ... and so does one that an agent may yet put on a thread that is mapped.
MappedHere ==
  \A t \in Threads : MappedSomewhere(t) /\ (\A n \in Acts : ~Marks(n, t)) => InHandoff(t)

\* An event that is no reply tells of a check mark.
InboxTells ==
  \A w \in Workers, n \in Acts : \A i \in 1..Len(inbox[w]) :
    ~IsReply(inbox[w][i]) /\ inbox[w][i].act = n => \E t \in Threads : Marks(n, t)

MarkInv == InboxTells /\ (connects <= 1 /\ ~Twice => MarkedEnds /\ PendingHere /\ MappedHere)

LEMMA MarkInit == Init => MarkInv
BY DEF Init, MarkInv, InboxTells, MarkedEnds, PendingHere, Pending, MappedHere, MappedSomewhere,
       Marks

\* Marks stay; with them, that there were two.
MarksStay == \A n \in Acts, t \in Threads : Marks(n, t) => Marks(n, t)'

LEMMA MarksNext ==
  ASSUME TypeOK, ActsKnown, [Next]_vars
  PROVE  MarksStay
BY ActsStay DEF MarksStay, Marks

\* A step that leaves every dict where it was, and no more check marks to come
\* than there were, but for one on a thread that had none.
LEMMA MarkFrame ==
  ASSUME TypeOK, MarkInv, MarksStay, SameHandoffs, connects' <= 1 => connects <= 1,
         \A n \in Acts, t \in Threads : Pending(n, t)' =>
           Pending(n, t) \/ (MappedSomewhere(t) /\ \A m \in Acts : ~Marks(m, t)),
         \A t \in Threads : MappedSomewhere(t)' => MappedSomewhere(t)
  PROVE  connects' <= 1 /\ ~Twice' => MarkedEnds' /\ PendingHere' /\ MappedHere'
<1> SUFFICES ASSUME connects' <= 1, ~Twice'
             PROVE  MarkedEnds' /\ PendingHere' /\ MappedHere'
  OBVIOUS
<1>1. ~Twice
  BY DEF Twice, MarksStay
<1>2. MarkedEnds /\ PendingHere /\ MappedHere
  BY <1>1 DEF MarkInv
<1>3. \A t \in Threads : InHandoff(t) => InHandoff(t)'
  BY DEF InHandoff, SameHandoffs
<1>4. MarkedEnds'
  <2> SUFFICES ASSUME NEW w \in Workers, NEW t \in Threads,
                      session'[w] # None, session'[w].thread = t, ~session'[w].active
               PROVE  \E n \in Acts : Marks(n, t)'
    BY DEF MarkedEnds
  <2>1. session[w] # None /\ ~session[w].active /\ session[w].thread = t
    BY DEF SameHandoffs
  <2> QED BY <1>2, <2>1 DEF MarkedEnds, MarksStay
<1>5. PendingHere'
  BY <1>2, <1>3 DEF PendingHere, MappedHere
<1>6. MappedHere'
  BY <1>2, <1>3 DEF MappedHere, MarksStay
<1> QED BY <1>4, <1>5, <1>6

\* A step that tells a session of a check mark ends the handoff it is on.
LEMMA MarkEnds ==
  ASSUME TypeOK, MarkInv, SingleInv, MarksStay, connects' = connects,
         NEW w, Leaves(w), NEW n \in Acts, NEW t \in Threads, Pending(n, t),
         \A m \in Acts, u \in Threads : Pending(m, u)' => Pending(m, u) /\ m # n,
         \A u \in Threads : MappedSomewhere(u)' => MappedSomewhere(u)
  PROVE  connects' <= 1 /\ ~Twice' => MarkedEnds' /\ PendingHere' /\ MappedHere'
<1> SUFFICES ASSUME connects' <= 1, ~Twice'
             PROVE  MarkedEnds' /\ PendingHere' /\ MappedHere'
  OBVIOUS
<1>1. ~Twice
  BY DEF Twice, MarksStay
<1>2. MarkedEnds /\ PendingHere /\ MappedHere /\ OneSession
  BY <1>1 DEF MarkInv, SingleInv
<1>3. w \in Workers /\ session[w] # None /\ session[w].thread = t
  BY <1>2 DEF PendingHere, InHandoff, Leaves
<1>4. \A u \in Workers : session'[u] # None => u = w
  BY <1>2, <1>3 DEF OneSession, InSession, Leaves
<1>5. session'[w] # None => session'[w].thread = t
  BY <1>3 DEF Leaves
<1>6. Marks(n, t) /\ Marks(n, t)'
  BY DEF MarksStay, Pending
<1>7. MarkedEnds'
  BY <1>4, <1>5, <1>6 DEF MarkedEnds
<1>8. PendingHere'
  <2> SUFFICES ASSUME NEW m \in Acts, NEW u \in Threads, Pending(m, u)'
               PROVE  FALSE
    BY DEF PendingHere
  <2>1. Pending(m, u) /\ m # n
    OBVIOUS
  <2>2. u = t
    BY <1>2, <1>3, <2>1 DEF PendingHere, InHandoff
  <2>3. Marks(m, t)
    BY <2>1, <2>2 DEF Pending
  <2> QED BY <1>1, <1>6, <2>1, <2>3 DEF Twice
<1>9. MappedHere'
  <2> SUFFICES ASSUME NEW u \in Threads, MappedSomewhere(u)', \A m \in Acts : ~Marks(m, u)'
               PROVE  FALSE
    BY DEF MappedHere
  <2>1. MappedSomewhere(u) /\ \A m \in Acts : ~Marks(m, u)
    BY DEF MarksStay
  <2>2. u = t
    BY <1>2, <1>3, <2>1 DEF MappedHere, InHandoff
  <2> QED BY <1>6, <2>1, <2>2
<1> QED BY <1>7, <1>8, <1>9

\* A step after which no more waits than before, for a task or for a session.
NothingNew ==
  /\ \A n \in Acts : act'[n] # None =>
       /\ act[n] # None /\ act'[n].type = act[n].type /\ act'[n].thread = act[n].thread
       /\ act'[n].stage = act[n].stage \/ act'[n].stage \notin {"asking", "publishing"}
  /\ \A w \in Workers : \A i \in 1..Len(inbox'[w]) :
       \E j \in 1..Len(inbox[w]) : inbox'[w][i] = inbox[w][j]
  /\ redisMap' \subseteq redisMap /\ \A w \in Workers : localMap'[w] \subseteq localMap[w]

LEMMA NothingPends ==
  ASSUME TypeOK, NothingNew, MarksStay, InboxTells,
         \A w \in Workers : session'[w] # None => session[w] # None
  PROVE  /\ \A n \in Acts, t \in Threads : Pending(n, t)' => Pending(n, t)
         /\ \A t \in Threads : MappedSomewhere(t)' => MappedSomewhere(t)
         /\ InboxTells'
<1>1. \A t \in Threads : MappedSomewhere(t)' => MappedSomewhere(t)
  BY DEF NothingNew, MappedSomewhere
<1>2. \A n \in Acts : \A w \in Workers : WaitsFor(w, n)' => WaitsFor(w, n)
  BY DEF NothingNew, WaitsFor, IsReply
<1>3. \A n \in Acts, t \in Threads : Marks(n, t)' => Marks(n, t)
  BY DEF NothingNew, Marks
<1>4. ASSUME NEW n \in Acts, NEW t \in Threads, Pending(n, t)'
      PROVE  Pending(n, t)
  <2>1. Marks(n, t) /\ act'[n] # None
    BY <1>3, <1>4 DEF Pending, Marks
  <2> QED BY <1>1, <1>2, <1>4, <2>1 DEF Pending, NothingNew
<1>6. InboxTells'
  BY DEF InboxTells, NothingNew, MarksStay, IsReply
<1> QED BY <1>1, <1>4, <1>6

LEMMA MarkStep ==
  ASSUME TInv, ThreadInv, OrderInv, SingleInv, MarkInv, [Next]_vars
  PROVE  MarkInv'
<1>a. TypeOK /\ ActsKnown /\ InboxIsPast /\ InboxInOrder /\ InboxTells
  BY DEF TInv, OrderInv, MarkInv
<1>b. MarksStay
  BY <1>a, MarksNext
<1>c. \A t \in Threads : creating[t] # None =>
        creating[t].worker \in Workers /\ session[creating[t].worker] # None
  BY <1>a, NoneIsNoValue DEF TypeOK, Confirms, TInv, CreatingHasSession
\* What tells nobody of a check mark, ...
<1>d. ASSUME NothingNew, SameHandoffs, connects' <= 1 => connects <= 1
      PROVE  MarkInv'
  <2>1. \A w \in Workers : session'[w] # None => session[w] # None
    BY <1>d DEF SameHandoffs
  <2>2. /\ \A n \in Acts, t \in Threads : Pending(n, t)' => Pending(n, t)
        /\ \A t \in Threads : MappedSomewhere(t)' => MappedSomewhere(t)
        /\ InboxTells'
    BY <2>1, <1>a, <1>b, <1>d, NothingPends
  <2>3. connects' <= 1 /\ ~Twice' => MarkedEnds' /\ PendingHere' /\ MappedHere'
    BY <2>2, <1>a, <1>b, <1>d, MarkFrame
  <2> QED BY <2>2, <2>3 DEF MarkInv
\* ... nor touches what waits.
<1>e. ASSUME UNCHANGED <<act, inbox, localMap, redisMap>>
      PROVE  NothingNew
  BY <1>e DEF NothingNew
<1>1. CASE VisitorLeaves
  BY <1>1, <1>d, <1>e DEF VisitorLeaves, routing, agents, SameHandoffs
<1>2. ASSUME NEW w \in Workers, Register(w)
      PROVE  MarkInv'
  <2>1. connects' <= 1 => connects <= 1
    <3>1. connects \in 0..MaxConnects /\ connects' = connects + 1
      BY <1>2, <1>a DEF Register, TypeOK
    <3> QED BY <3>1, HandoffAssumption
  <2> QED BY <1>2, <2>1, <1>d, <1>e DEF Register, routing, agents, SameHandoffs
<1>3. ASSUME NEW w \in Workers, Adopt(w)
      PROVE  MarkInv'
  <2> SUFFICES ASSUME connects <= 1
               PROVE  InboxTells' /\ MarkedEnds' /\ PendingHere' /\ MappedHere'
    <3>1. InboxTells'
      BY <1>3, <1>b DEF Adopt, MarkInv, InboxTells, MarksStay, IsReply
    <3>2. connects' = connects
      BY <1>3 DEF Adopt
    <3> QED BY <3>1, <3>2 DEF MarkInv
  <2>1. loading[w] = <<None, TRUE>> /\ NothingYet
    BY <1>3 DEF Adopt, SingleInv, Starts
  <2>2. /\ UNCHANGED <<inbox, act, slack, creating, localMap, redisMap>>
        /\ session' = [session EXCEPT ![w] = NewSession]
    <3>1. loading[w][1] = None /\ session[w] = None
      BY <2>1 DEF NothingYet
    <3>2. ~KeepsLocal(w, None)
      BY <3>1 DEF KeepsLocal
    <3> QED BY <1>3, <3>1, <3>2 DEF Adopt, routing
  <2>3. \A u \in Workers : session'[u] # None => session'[u].thread = None
    BY <2>1, <2>2, <1>a DEF NothingYet, TypeOK, NewSession
  <2>4. InboxTells'
    BY <1>b, <2>2 DEF MarkInv, InboxTells, MarksStay, IsReply
  <2>5. MarkedEnds'
    BY <2>3, HandoffAssumption DEF MarkedEnds
  <2>6. PendingHere'
    BY <2>1, <2>2 DEF PendingHere, Pending, Marks, NothingYet
  <2>7. \A t \in Threads : ~MappedSomewhere(t)'
    BY <2>1, <2>2 DEF NothingYet, ThreadInv, Unmapped, MappedSomewhere
  <2> QED BY <2>4, <2>5, <2>6, <2>7 DEF MappedHere
<1>4. ASSUME NEW w \in Workers, Cleanup(w)
      PROVE  MarkInv'
  BY <1>4, <1>a, <1>d, <1>e, CleanupHandoffs DEF Cleanup, routing, agents
<1>5. ASSUME NEW w \in Workers, UserMessage(w)
      PROVE  MarkInv'
  BY <1>5, <1>a, <1>d, <1>e, UserMessageHandoffs DEF UserMessage, visitor, routing, agents
<1>6. ASSUME NEW w \in Workers, NEW t \in Threads, ConfirmHandoff(w, t)
      PROVE  MarkInv'
  BY <1>6, <1>d, <1>e DEF ConfirmHandoff, visitor, agents, SameHandoffs
<1>7. ASSUME NEW t \in Threads, SlackPosts(t)
      PROVE  MarkInv'
  BY <1>7, <1>d, <1>e DEF SlackPosts, visitor, agents, SameHandoffs
\* A handoff begins, and no check mark is to come for another one.
<1>8. ASSUME NEW t \in Threads, HandoffCreated(t)
      PROVE  MarkInv'
  <2> DEFINE w == creating[t].worker
             d == [session[w] EXCEPT !.active = TRUE, !.thread = t]
  <2>1. /\ w \in Workers /\ session[w] \in Sessions /\ session[w] # None
        /\ SaveSession(w, d) /\ UNCHANGED <<inbox, act, connects>>
        /\ localMap' = [localMap EXCEPT ![w] = @ \cup {t}]
        /\ redisMap' \subseteq redisMap \cup {t}
        /\ creating[t] # None
    BY <1>8, <1>a, <1>c DEF HandoffCreated, TypeOK, visitor, agents
  <2>2. d \in Sessions /\ d.active /\ d.thread = t
    BY <2>1, EnteredKeeps
  <2> HIDE DEF d
  <2>3. /\ session'[w] # None /\ session'[w].active /\ session'[w].thread = t
        /\ \A u \in Workers : u # w => session'[u] = session[u]
    BY <2>1, <2>2, <1>a, SaveType, StoresKeeps
  <2>i. InboxTells'
    BY <1>b, <2>1 DEF MarkInv, InboxTells, MarksStay, IsReply
  <2> SUFFICES ASSUME connects <= 1, ~Twice
               PROVE  MarkedEnds' /\ PendingHere' /\ MappedHere'
    <3>1. ~Twice' => ~Twice
      BY <1>b DEF Twice, MarksStay
    <3> QED BY <2>1, <2>i, <3>1 DEF MarkInv
  <2>4. OneSession /\ ~session[w].active /\ PendingHere /\ MappedHere
    BY <2>1 DEF SingleInv, OneCreation, MarkInv
  <2>5. \A u \in Threads : ~InHandoff(u)
    BY <2>1, <2>4 DEF InHandoff
  <2> HIDE DEF w
  <2>6. \A v \in Workers : session'[v] # None => v = w
    BY <2>1, <2>3, <2>4 DEF OneSession, InSession
  <2>7. InHandoff(t)'
    BY <2>3, <2>6 DEF InHandoff
  <2>8. MarkedEnds'
    BY <2>3, <2>6 DEF MarkedEnds
  <2>9. \A u \in Threads : u # t /\ MappedSomewhere(u)' => MappedSomewhere(u)
    BY <2>1, <1>a DEF MappedSomewhere, TypeOK
  <2>10. \A n \in Acts, v \in Workers : WaitsFor(v, n)' => WaitsFor(v, n)
    BY <2>1, <2>6 DEF WaitsFor, IsReply
  <2>11. \A n \in Acts, u \in Threads : (Marks(n, u)' <=> Marks(n, u)) /\ act'[n] = act[n]
    BY <2>1 DEF Marks
  <2>12. \A n \in Acts, u \in Threads : u # t /\ Pending(n, u)' => Pending(n, u)
    BY <2>9, <2>10, <2>11 DEF Pending
  <2>13. PendingHere'
    BY <2>4, <2>5, <2>7, <2>12 DEF PendingHere
  <2>14. MappedHere'
    BY <2>4, <2>5, <2>7, <2>9, <2>11 DEF MappedHere
  <2> QED BY <2>8, <2>13, <2>14
<1>9. ASSUME NEW t \in Threads, HandoffFails(t)
      PROVE  MarkInv'
  BY <1>9, <1>d, <1>e, FailsHandoffs DEF HandoffFails, visitor, agents
<1>10. ASSUME NEW type \in ActTypes, NEW t \in Threads, NEW w \in Workers, AgentActs(type, t, w)
       PROVE  MarkInv'
  <2>0. PICK r \in Acts : r = events + 1
    BY <1>10, <1>a, ActsEffect
  <2>1. /\ act'[r] # None /\ act'[r].type = type /\ act'[r].thread = t
        /\ act'[r].stage = "asking" /\ \A n \in Acts : n # r => act'[n] = act[n]
    BY <1>10, <1>a, <2>0, ActsEffect, NoneIsNoValue
  <2>2. UNCHANGED <<session, inbox, connects, localMap, redisMap>>
    BY <1>10 DEF AgentActs, visitor, routing
  <2>3. act[r] = None
    <3>1. r \in Nat /\ events \in Nat
      BY HandoffAssumption, <1>a DEF Acts, TypeOK
    <3> QED BY <2>0, <3>1, <1>a DEF ActsKnown
  <2>4. SameHandoffs /\ \A u \in Threads : MappedSomewhere(u)' <=> MappedSomewhere(u)
    BY <2>2 DEF SameHandoffs, MappedSomewhere
  <2>5. InboxTells'
    BY <1>a, <1>b, <2>2 DEF InboxTells, MarksStay, IsReply
  <2>6. \A u \in Workers, n \in Acts : WaitsFor(u, n)' <=> WaitsFor(u, n)
    BY <2>2 DEF WaitsFor, IsReply
  <2>7. \A u \in Workers : ~WaitsFor(u, r)
    BY <2>1, <2>3, <1>a DEF WaitsFor, InboxIsPast, Past
  <2>8. ASSUME NEW n \in Acts, NEW u \in Threads, Pending(n, u)', n # r
        PROVE  Pending(n, u)
    BY <2>1, <2>4, <2>6, <2>8 DEF Pending, Marks
  <2>9. ASSUME NEW u \in Threads, Pending(r, u)'
        PROVE  MappedSomewhere(u) /\ Marks(r, u)'
    BY <2>1, <2>4, <2>6, <2>7, <2>9 DEF Pending
  \* A second check mark on a thread is out of the question.
  <2>10. ~Twice' => \A n \in Acts, u \in Threads : Pending(n, u)' =>
           Pending(n, u) \/ (MappedSomewhere(u) /\ \A m \in Acts : ~Marks(m, u))
    <3> SUFFICES ASSUME ~Twice', NEW n \in Acts, NEW u \in Threads, Pending(n, u)'
                 PROVE  Pending(n, u) \/ (MappedSomewhere(u) /\ \A m \in Acts : ~Marks(m, u))
      OBVIOUS
    <3>1. CASE n # r
      BY <3>1, <2>8
    <3>2. CASE n = r
      <4>1. \A m \in Acts : Marks(m, u) => m # r /\ Marks(m, u)'
        BY <2>3, <1>b DEF Marks, MarksStay
      <4>2. \A m \in Acts : ~Marks(m, u)
        BY <2>1, <2>9, <3>2, <4>1 DEF Twice
      <4> QED BY <2>9, <3>2, <4>2
    <3> QED BY <3>1, <3>2
  <2>11. connects' <= 1 /\ ~Twice' => MarkedEnds' /\ PendingHere' /\ MappedHere'
    <3>1. CASE ~Twice'
      BY <2>2, <2>4, <2>10, <3>1, <1>a, <1>b, MarkFrame
    <3> QED BY <3>1
  <2> QED BY <2>5, <2>11 DEF MarkInv
<1>11. ASSUME NEW n \in Acts, Handles(n)
       PROVE  MarkInv'
  <2>1. /\ act[n] # None /\ act[n] \in Handlings /\ connects' = connects
    BY <1>11, <1>a, HandlesEffect DEF visitor
  <2>12. PICK t \in Threads : t = act[n].thread
    BY <2>1 DEF Handlings
  <2>2. t \in Threads /\ act[n].worker \in Workers /\ act[n].type \in ActTypes
    BY <2>1 DEF Handlings
  <2>3. AfterTold(n) \in {"over", "clearing"}
    BY DEF AfterTold
  <2>4. ASSUME NEW stage, Advances(n, stage), stage \notin {"asking", "publishing"},
               UNCHANGED inbox, redisMap' \subseteq redisMap,
               \A w \in Workers : localMap'[w] \subseteq localMap[w]
        PROVE  NothingNew
    BY <2>4, <2>1 DEF NothingNew, Advances
  <2>5. CASE Dropped(n) /\ Advances(n, "over")
    BY <2>1, <2>4, <2>5, <1>d DEF Dropped, routing, SameHandoffs
  <2>6. CASE PublishFails(n) /\ Advances(n, AfterTold(n))
    BY <2>1, <2>3, <2>4, <2>6, <1>d DEF PublishFails, routing, SameHandoffs
  <2>7. CASE Clears(n) /\ Advances(n, "posting")
    <3>1. /\ redisMap' \subseteq redisMap
          /\ \A w \in Workers : localMap'[w] \subseteq localMap[w]
      BY <2>7, <1>a DEF Clears, TypeOK
    <3> QED BY <2>1, <2>4, <2>7, <3>1, <1>d DEF Clears, SameHandoffs
  <2>8. CASE Posts(n) /\ Advances(n, "over")
    BY <2>1, <2>4, <2>8, <1>d DEF Posts, SameHandoffs
  <2>9. CASE Finds(n) /\ Advances(n, "publishing")
    <3>1. /\ UNCHANGED <<session, inbox, localMap, redisMap>>
          /\ MappedSomewhere(t) /\ act[n].stage = "asking"
      BY <2>2, <2>9, <2>12 DEF Finds, Stands, Mapped, MappedSomewhere, routing
    <3>2. InboxTells' /\ SameHandoffs
      BY <1>a, <1>b, <3>1 DEF InboxTells, MarksStay, IsReply, SameHandoffs
    <3>3. /\ \A u \in Threads : MappedSomewhere(u)' <=> MappedSomewhere(u)
          /\ \A w \in Workers, m \in Acts : WaitsFor(w, m)' <=> WaitsFor(w, m)
      BY <3>1 DEF MappedSomewhere, WaitsFor, IsReply
    <3>4. \A m \in Acts, u \in Threads : Pending(m, u)' => Pending(m, u)
      <4> SUFFICES ASSUME NEW m \in Acts, NEW u \in Threads, Pending(m, u)'
                   PROVE  Pending(m, u)
        OBVIOUS
      <4>1. CASE m # n
        BY <2>9, <3>3, <4>1 DEF Pending, Marks, Advances
      <4>2. CASE m = n
        BY <2>1, <2>9, <2>12, <3>1, <4>2 DEF Pending, Marks, Advances
      <4> QED BY <4>1, <4>2
    <3> QED BY <2>1, <3>2, <3>3, <3>4, <1>a, <1>b, MarkFrame DEF MarkInv
  <2>10. CASE Publishes(n) /\ Stands(n, "publishing") /\ Advances(n, AfterTold(n))
    <3> DEFINE e == [type |-> act[n].type, thread |-> t, act |-> n]
    <3>1. Publish(e) /\ UNCHANGED <<session, localMap, redisMap>>
      BY <2>10, <2>12 DEF Publishes, routing
    <3>2. e \in AgentEvents /\ e.act = n /\ (~IsReply(e) => act[n].type = "agent_left")
      BY <2>2, EventType DEF IsReply, ActTypes
    <3> HIDE DEF e
    <3>3. \A w \in Workers : \A i \in 1..Len(inbox'[w]) :
            (i \in 1..Len(inbox[w]) /\ inbox'[w][i] = inbox[w][i]) \/ inbox'[w][i] = e
      <4> SUFFICES ASSUME NEW w \in Workers, NEW i \in 1..Len(inbox'[w])
                   PROVE  (i \in 1..Len(inbox[w]) /\ inbox'[w][i] = inbox[w][i]) \/ inbox'[w][i] = e
        OBVIOUS
      <4>1. /\ Len(inbox[w]) \in Nat /\ Len(inbox'[w]) \in {Len(inbox[w]), Len(inbox[w]) + 1}
            /\ \A j \in 1..Len(inbox[w]) : inbox'[w][j] = inbox[w][j]
            /\ i \in 1..Len(inbox[w]) \/ i = Len(inbox[w]) + 1
            /\ Len(inbox'[w]) = Len(inbox[w]) + 1 => inbox'[w][Len(inbox[w]) + 1] = e
        BY <3>1, <3>2, <1>a, PublishLast
      <4> QED BY <4>1
    <3>4. Marks(n, t)' <=> act[n].type = "agent_left"
      BY <2>1, <2>2, <2>10, <2>12, NoneIsNoValue DEF Marks, Advances
    <3>5. InboxTells'
      BY <1>a, <1>b, <2>2, <3>2, <3>3, <3>4 DEF InboxTells, MarksStay, IsReply
    <3>6. SameHandoffs /\ \A u \in Threads : MappedSomewhere(u)' <=> MappedSomewhere(u)
      BY <3>1 DEF SameHandoffs, MappedSomewhere
    <3>7. \A w \in Workers, m \in Acts : m # n /\ WaitsFor(w, m)' => WaitsFor(w, m)
      BY <3>1, <3>2, <3>3 DEF WaitsFor, IsReply
    <3>8. \A m \in Acts, u \in Threads : Pending(m, u)' => Pending(m, u)
      <4> SUFFICES ASSUME NEW m \in Acts, NEW u \in Threads, Pending(m, u)'
                   PROVE  Pending(m, u)
        OBVIOUS
      <4>1. CASE m # n
        <5>1. act'[m] = act[m] /\ (Marks(m, u)' <=> Marks(m, u))
          BY <2>10, <4>1 DEF Marks, Advances
        <5> QED BY <3>6, <3>7, <4>1, <5>1 DEF Pending
      <4>2. CASE m = n
        BY <2>1, <2>10, <4>2 DEF Pending, Marks, Advances, Stands
      <4> QED BY <4>1, <4>2
    <3> QED BY <2>1, <3>5, <3>6, <3>8, <1>a, <1>b, MarkFrame DEF MarkInv
  <2>11. CASE DeliversHere(n) /\ Stands(n, "asking") /\ Advances(n, AfterTold(n))
    <3>1. UNCHANGED <<inbox, localMap, redisMap>> /\ MappedSomewhere(t)
      BY <2>2, <2>11, <2>12 DEF DeliversHere, routing, Mapped, MappedSomewhere
    <3>2. NothingNew
      BY <2>3, <2>4, <2>11, <3>1
    <3>3. CASE SameHandoffs
      BY <2>1, <3>2, <3>3, <1>d
    <3>4. CASE act[n].type = "agent_left" /\ Leaves(act[n].worker)
      <4>1. \A w \in Workers : session'[w] # None => session[w] # None
        BY <3>4 DEF Leaves
      <4>2. /\ \A m \in Acts, u \in Threads : Pending(m, u)' => Pending(m, u)
            /\ \A u \in Threads : MappedSomewhere(u)' => MappedSomewhere(u)
            /\ InboxTells'
        BY <3>2, <4>1, <1>a, <1>b, NothingPends
      <4>3. Pending(n, t)
        BY <2>1, <2>11, <2>12, <3>1, <3>4 DEF Pending, Marks, Stands
      <4>4. \A u \in Threads : ~Pending(n, u)'
        <5>1. act'[n].stage \notin {"asking", "publishing"}
          BY <2>3, <2>11 DEF Advances
        <5>2. \A w \in Workers : ~WaitsFor(w, n)'
          BY <2>11, <3>1, <1>a DEF WaitsFor, InboxIsPast, Past, Stands, IsReply
        <5> QED BY <5>1, <5>2 DEF Pending
      <4>5. connects' <= 1 /\ ~Twice' => MarkedEnds' /\ PendingHere' /\ MappedHere'
        BY <2>1, <2>2, <3>4, <4>2, <4>3, <4>4, <1>a, <1>b, MarkEnds
      <4> QED BY <4>2, <4>5 DEF MarkInv
    <3> QED BY <2>1, <2>11, <3>3, <3>4, <1>a, DirectHandoffs
  <2> QED BY <1>11, <1>a, HandlesEffect, <2>5, <2>6, <2>7, <2>8, <2>9, <2>10, <2>11
<1>12. ASSUME NEW w \in Workers, Deliver(w)
       PROVE  MarkInv'
  <2> DEFINE e == inbox[w][1]
  <2>0. PICK n \in Acts : n = e.act
    BY <1>12, <1>a, DeliverEffect, DeliverFirst DEF AgentEvents
  <2>1. /\ Delivers(w, e) /\ e \in AgentEvents /\ UNCHANGED <<act, connects, redisMap>>
    BY <1>12, <1>a, DeliverEffect, DeliverFirst DEF visitor
  <2>2. /\ Len(inbox[w]) \in Nat \ {0}
        /\ \A i \in 1..Len(inbox'[w]) : i + 1 \in 1..Len(inbox[w]) /\ inbox'[w][i] = inbox[w][i + 1]
        /\ \A u \in Workers : u # w => inbox'[u] = inbox[u]
    BY <1>12, <1>a, DeliverFirst
  <2>3. NothingNew
    <3>1. \A u \in Workers : localMap'[u] \subseteq localMap[u]
      BY <2>1, <1>a DEF Delivers, TypeOK
    <3>2. \A u \in Workers : \A i \in 1..Len(inbox'[u]) :
            \E j \in 1..Len(inbox[u]) : inbox'[u][i] = inbox[u][j]
      BY <2>2
    <3> QED BY <2>1, <3>1, <3>2 DEF NothingNew
  <2>4. CASE SameHandoffs
    BY <2>1, <2>3, <2>4, <1>d
  <2>5. CASE ~IsReply(e) /\ Leaves(w)
    <3>1. \A u \in Workers : session'[u] # None => session[u] # None
      BY <2>5 DEF Leaves
    <3>2. /\ \A m \in Acts, u \in Threads : Pending(m, u)' => Pending(m, u)
          /\ \A u \in Threads : MappedSomewhere(u)' => MappedSomewhere(u)
          /\ InboxTells'
      BY <2>3, <3>1, <1>a, <1>b, NothingPends
    <3>3. n \in Acts /\ 1 \in 1..Len(inbox[w])
      BY <2>0, <2>2
    <3>4. PICK t \in Threads : Marks(n, t)
      BY <2>0, <2>5, <3>3, <1>a DEF InboxTells
    <3>5. Pending(n, t)
      BY <2>0, <2>5, <3>3, <3>4 DEF Pending, WaitsFor, Leaves
    <3>6. connects' <= 1 => \A u \in Threads : ~Pending(n, u)'
      <4> SUFFICES ASSUME connects <= 1, NEW v \in Workers, WaitsFor(v, n)'
                   PROVE  FALSE
        <5>1. act'[n].stage \notin {"asking", "publishing"}
          BY <2>0, <2>1, <3>3, <1>a DEF InboxIsPast, Past
        <5> QED BY <2>1, <5>1 DEF Pending
      <4>1. v = w
        BY <2>5, <3>1 DEF WaitsFor, SingleInv, OneSession, InSession, Leaves
      <4>2. PICK i \in 1..Len(inbox'[w]) : inbox'[w][i].act = n
        BY <4>1 DEF WaitsFor
      <4>3. i + 1 \in 1..Len(inbox[w]) /\ inbox[w][i + 1].act = n /\ 1 < i + 1
        BY <2>2, <4>2
      <4> QED BY <2>0, <3>3, <4>3, <1>a DEF InboxInOrder, Fits
    <3> HIDE DEF e
    <3>7. connects' <= 1 /\ ~Twice' => MarkedEnds' /\ PendingHere' /\ MappedHere'
      <4>1. CASE connects' <= 1
        <5>1. \A m \in Acts, u \in Threads : Pending(m, u)' => Pending(m, u) /\ m # n
          BY <3>2, <3>6, <4>1
        <5> QED BY <2>1, <2>5, <3>2, <3>3, <3>5, <5>1, <1>a, <1>b, MarkEnds
      <4> QED BY <4>1
    <3> QED BY <3>2, <3>7 DEF MarkInv
  <2> HIDE DEF e
  <2> QED BY <2>1, <2>4, <2>5, <1>a, DeliverHandoffs
<1>13. ASSUME NEW w \in Workers, ListenerDies(w)
       PROVE  MarkInv'
  <2>1. UNCHANGED <<session, connects, act, localMap, redisMap>>
    BY <1>13 DEF ListenerDies, visitor, routing
  <2>2. \A u \in Workers : inbox'[u] = <<>> \/ inbox'[u] = inbox[u]
    BY <1>13, <1>a DEF ListenerDies, TypeOK
  <2>3. NothingNew
    BY <2>1, <2>2 DEF NothingNew
  <2> QED BY <2>1, <2>3, <1>d DEF SameHandoffs
<1>14. ASSUME NEW w \in Workers, Crash(w)
       PROVE  MarkInv'
  <2>1. UNCHANGED <<connects, redisMap>>
    BY <1>14 DEF Crash
  <2>2. \A u \in Workers : (inbox'[u] = <<>> \/ inbox'[u] = inbox[u]) /\ localMap'[u] \subseteq localMap[u]
    BY <1>14, <1>a DEF Crash, TypeOK
  <2>3. \A n \in Acts : act'[n] # None =>
          /\ act[n] # None /\ act'[n].type = act[n].type /\ act'[n].thread = act[n].thread
          /\ act'[n].stage = act[n].stage \/ act'[n].stage = "over"
    BY <1>14, <1>a, CrashEffect
  <2>4. NothingNew
    BY <2>1, <2>2, <2>3 DEF NothingNew
  <2> QED BY <1>14, <2>1, <2>4, <1>a, <1>d, CrashHandoffs
<1>15. CASE UNCHANGED vars
  BY <1>15, <1>d, <1>e DEF vars, SameHandoffs
<1> QED BY <1>1, <1>2, <1>3, <1>4, <1>5, <1>6, <1>7, <1>8, <1>9, <1>10, <1>11, <1>12,
           <1>13, <1>14, <1>15 DEF Next, Step

(* agent_left does not say which handoff it ends (websocket.py,            *)
(* _deliver_handoff_resolved): on one socket it is the one the agents put  *)
(* their check mark on all the same, however late a PUBLISH or an event,   *)
(* and whatever handoffs the visitor asked for since, so long as no thread *)
(* is marked twice.                                                        *)
THEOREM OneSocketMarkTheorem == Spec => [](connects <= 1 => OnlyItsMarkEnds)
<1>1. TInv /\ MarkInv => (connects <= 1 => OnlyItsMarkEnds)
  <2> SUFFICES ASSUME TInv, MarkInv, connects <= 1, NEW w \in Workers, ~Twice,
                      session[w] # None, session[w].thread # None, ~session[w].active
               PROVE  \E n \in Acts : Marks(n, session[w].thread)
    BY DEF OnlyItsMarkEnds, Twice
  <2>1. session[w].thread \in Threads
    BY DEF TInv, TypeOK, Sessions
  <2> QED BY <2>1 DEF MarkInv, MarkedEnds
<1>2. Spec => []MarkInv
  BY TypeInvariant, ThreadInvariant, OrderInvariant, SingleInvariant, MarkInit, MarkStep, PTL
     DEF Spec
<1> QED BY <1>1, <1>2, TypeInvariant, PTL

(* OnlyItsMarkEnds itself, where the visitor has one socket to open, as in *)
(* the run that checks it.                                                 *)
THEOREM OnlyItsMarkEndsTheorem ==
  ASSUME MaxConnects <= 1
  PROVE  Spec => []OnlyItsMarkEnds
<1>1. TInv => connects <= 1
  BY HandoffAssumption DEF TInv, TypeOK
<1> QED BY <1>1, OneSocketMarkTheorem, TypeInvariant, PTL

-----------------------------------------------------------------------------
(* With Redis, while nothing falls between two sockets                     *)

\* The session as it is: the copy in Redis, or a new one.
Latest == IF saved = None THEN NewSession ELSE saved

\* A socket of the visitor's, alive or not, is registered on one worker.
Holder(w) == registered[w] # 0
OneHolder == \A u, v \in Workers : Holder(u) /\ Holder(v) => u = v

\* A connect that awaits its load will have the latest copy, with no event
\* and no confirm_handoff to change it meanwhile.
LoadIsLatest ==
  \A w \in Workers : loading[w] # <<>> =>
    /\ Holder(w) /\ loading[w] = <<saved, TRUE>>
    /\ \A u \in Workers : inbox[u] = <<>>
    /\ \A t \in Threads : creating[t] = None

\* What a worker remembers is the latest copy or an older one, ...
OlderElsewhere ==
  \A w \in Workers : session[w] # None =>
    (session[w] = Latest) \/ (saved # None /\ session[w].rev < saved.rev)

\* ... and the latest where the visitor is.
HolderHasLatest ==
  \A w \in Workers : Holder(w) /\ loading[w] = <<>> => session[w] # None /\ session[w] = Latest

\* One confirm_handoff at a time awaits Slack, for the registered socket.
OneConfirm ==
  \A t \in Threads : creating[t] # None =>
    /\ registered[creating[t].worker] = creating[t].conn
    /\ \A s \in Threads : creating[s] # None => s = t

\* A reply that found its session is in its history, or waits where it is.
RoutedIsHeard ==
  \A r \in routed : (r \in Latest.heard) \/
    \E w \in Workers : Holder(w) /\ \E i \in 1..Len(inbox[w]) :
      IsReply(inbox[w][i]) /\ inbox[w][i].act = r

\* Thread t is open, and no task that told the session of a check mark on it
\* is about to close it.
StillOpen(x, shows, t) ==
  /\ shows[t] = "open"
  /\ \A n \in Acts : x[n] # None /\ x[n].thread = t
       => x[n].stage \notin {"clearing", "posting"}

\* A handoff is open, or its check mark waits where the session is.
LatestIsOpen ==
  Latest.active =>
    /\ Latest.thread \in Threads
    /\ StillOpen(act, slack, Latest.thread) \/
       \E w \in Workers : Holder(w) /\ \E i \in 1..Len(inbox[w]) : ~IsReply(inbox[w][i])

SharedInv ==
  /\ OneHolder /\ LoadIsLatest /\ OlderElsewhere /\ HolderHasLatest
  /\ OneConfirm /\ RoutedIsHeard /\ LatestIsOpen

CalmInv == redis /\ calm => SharedInv

LEMMA CalmInit == Init => CalmInv
<1>1. Init => Latest = NewSession /\ ~Latest.active
  BY DEF Init, Latest, NewSession
<1> QED BY <1>1 DEF Init, CalmInv, SharedInv, OneHolder, LoadIsLatest, OlderElsewhere,
                    HolderHasLatest, OneConfirm, RoutedIsHeard, LatestIsOpen, Holder

(* A save of the latest copy's successor is not refused: it is the latest  *)
(* from then on, and every other one is older.                             *)
LEMMA CalmSave ==
  ASSUME TypeOK, redis, OlderElsewhere, NEW h \in Workers, session[h] \in Sessions,
         session[h] = Latest, NEW s \in Sessions, s.rev = session[h].rev, SaveSession(h, s)
  PROVE  /\ OlderElsewhere'
         /\ session'[h] # None /\ session'[h] = Latest'
         /\ \A u \in Workers : u # h => session'[u] = session[u]
         /\ Latest'.active = s.active /\ Latest'.thread = s.thread /\ Latest'.heard = s.heard
<1>1. saved # None => saved.rev = s.rev
  BY DEF Latest
<1>2. s.rev \in Nat
  BY DEF Sessions
<1>3. ~Refused(s)
  BY <1>1, <1>2 DEF Refused
<1>4. /\ session' = [session EXCEPT ![h] = Stores(s)] /\ saved' = Stores(s)
      /\ Stores(s).rev = s.rev + 1
      /\ Stores(s) # None
  BY <1>3, StoresKeeps, NoneIsNoValue DEF SaveSession
<1>5. Latest' = Stores(s)
  BY <1>4 DEF Latest
<1>6. \A u \in Workers : session'[u] = IF u = h THEN Stores(s) ELSE session[u]
  BY <1>4 DEF TypeOK
<1>7. ASSUME NEW u \in Workers, u # h, session[u] # None
      PROVE  session[u].rev < s.rev + 1
  <2>1. CASE session[u] = Latest
    BY <1>2, <2>1
  <2>2. CASE saved # None /\ session[u].rev < saved.rev
    <3>1. session[u].rev \in Nat
      BY <1>7 DEF TypeOK, Sessions
    <3> QED BY <1>1, <1>2, <2>2, <3>1
  <2> QED BY <1>7, <2>1, <2>2 DEF OlderElsewhere
<1>8. OlderElsewhere'
  BY <1>4, <1>5, <1>6, <1>7 DEF OlderElsewhere
<1> QED BY <1>4, <1>5, <1>6, <1>8, StoresKeeps

\* The steps of a task that leave every open thread open.
LEMMA StaysOpen ==
  ASSUME TypeOK, NEW n \in Acts, NEW stage, Advances(n, stage), UNCHANGED slack,
         \/ stage \notin {"clearing", "posting"}
         \/ act[n].stage = "clearing",
         NEW t \in Threads, StillOpen(act, slack, t)
  PROVE  StillOpen(act', slack', t)
<1>1. act[n] # None
  BY NoneIsNoValue DEF Advances
<1> QED BY <1>1 DEF StillOpen, Advances

LEMMA CalmStep ==
  ASSUME TInv, ThreadInv, CalmInv, [Next]_vars
  PROVE  CalmInv'
<1>a. TypeOK /\ LiveIsNewest /\ redis' = redis
  BY DEF TInv, Next, vars
<1>b. calm' => calm
  <2>1. ASSUME NEW type \in ActTypes, NEW w \in Workers, NEW t \in Threads, AgentActs(type, t, w)
        PROVE  calm' = calm
    BY <2>1 DEF AgentActs, seen
  <2>2. ASSUME NEW w \in Workers, Deliver(w)
        PROVE  calm' = calm
    BY <2>2, <1>a, DeliverEffect
  <2>3. ASSUME NEW n \in Acts, Handles(n)
        PROVE  calm' => calm
    BY <2>3 DEF Handles, Dropped, Finds, DeliversHere, Publishes, Publish, PublishFails, Clears,
                Posts, seen
  <2>4. ASSUME NEW w \in Workers,
               Register(w) \/ Adopt(w) \/ Cleanup(w) \/ UserMessage(w) \/ ListenerDies(w) \/ Crash(w)
        PROVE  calm' => calm
    BY <2>4 DEF Register, Adopt, Cleanup, UserMessage, ListenerDies, Crash, seen
  <2>5. ASSUME NEW w \in Workers, NEW t \in Threads, ConfirmHandoff(w, t)
        PROVE  calm' = calm
    BY <2>5 DEF ConfirmHandoff, seen
  <2>6. ASSUME NEW t \in Threads, SlackPosts(t) \/ HandoffCreated(t) \/ HandoffFails(t)
        PROVE  calm' = calm
    BY <2>6 DEF SlackPosts, HandoffCreated, HandoffFails, seen
  <2>7. VisitorLeaves \/ UNCHANGED vars => calm' = calm
    BY DEF VisitorLeaves, vars, seen
  <2> QED BY <2>1, <2>2, <2>3, <2>4, <2>5, <2>6, <2>7 DEF Next, Step
<1> SUFFICES ASSUME redis, calm'
             PROVE  SharedInv'
  BY <1>a DEF CalmInv
<1>c. SharedInv
  BY <1>b DEF CalmInv
<1> HIDE DEF SharedInv
<1>i. /\ OneHolder /\ LoadIsLatest /\ OlderElsewhere /\ HolderHasLatest
      /\ OneConfirm /\ RoutedIsHeard /\ LatestIsOpen
  BY <1>c DEF SharedInv
<1>e. \A t \in Threads : creating[t] # None =>
        creating[t].worker \in Workers /\ creating[t].conn # 0 /\ creating[t] \in Confirms
  BY <1>a, NoneIsNoValue DEF TypeOK, Confirms
<1>f. \A w \in Workers : session[w] # None => session[w] \in Sessions
  BY <1>a DEF TypeOK
\* What touches neither the session, nor the sockets, nor what waits.
<1>d. ASSUME UNCHANGED <<session, saved, registered, loading, creating, inbox, routed>>,
             \A t \in Threads : StillOpen(act, slack, t) => StillOpen(act', slack', t)
      PROVE  SharedInv'
  <2>1. OneHolder' /\ LoadIsLatest' /\ HolderHasLatest'
    BY <1>d, <1>i DEF OneHolder, LoadIsLatest, HolderHasLatest, Holder, Latest
  <2>2. OlderElsewhere' /\ OneConfirm'
    BY <1>d, <1>i DEF OlderElsewhere, OneConfirm, Latest
  <2>3. RoutedIsHeard'
    BY <1>d, <1>i DEF RoutedIsHeard, Holder, Latest
  <2>5. Latest' = Latest /\ \A w \in Workers : Holder(w)' <=> Holder(w)
    BY <1>d DEF Latest, Holder
  <2>4. LatestIsOpen'
    BY <2>5, <1>d, <1>i DEF LatestIsOpen, IsReply
  <2> QED BY <2>1, <2>2, <2>3, <2>4 DEF SharedInv
\* A save where the visitor is, that the history and the handoff survive.
<1>g. ASSUME NEW w \in Workers, Holder(w), loading[w] = <<>>,
             NEW s \in Sessions, s.rev = session[w].rev, SaveSession(w, s),
             UNCHANGED <<registered, loading, inbox, slack, act, routed>>,
             \A t \in Threads : creating'[t] # None => creating'[t] = creating[t],
             s.heard = session[w].heard,
             \/ s.active = session[w].active /\ s.thread = session[w].thread
             \/ s.thread \in Threads /\ StillOpen(act, slack, s.thread)
      PROVE  SharedInv'
  <2>1. session[w] # None /\ session[w] = Latest
    BY <1>g, <1>i DEF HolderHasLatest
  <2>2. /\ OlderElsewhere'
        /\ session'[w] # None /\ session'[w] = Latest'
        /\ \A u \in Workers : u # w => session'[u] = session[u]
        /\ Latest'.active = s.active /\ Latest'.thread = s.thread /\ Latest'.heard = s.heard
    BY <2>1, <1>a, <1>f, <1>g, <1>i, CalmSave
  <2>3. OneHolder' /\ OneConfirm'
    BY <1>g, <1>i DEF OneHolder, OneConfirm, Holder
  <2>4. HolderHasLatest' /\ LoadIsLatest'
    BY <2>2, <1>g, <1>i DEF HolderHasLatest, LoadIsLatest, OneHolder, Holder
  <2>5. RoutedIsHeard'
    BY <2>1, <2>2, <1>g, <1>i DEF RoutedIsHeard, Holder
  <2>6. LatestIsOpen'
    BY <2>1, <2>2, <1>g, <1>i DEF LatestIsOpen, Holder
  <2> QED BY <2>2, <2>3, <2>4, <2>5, <2>6 DEF SharedInv
<1>1. CASE VisitorLeaves
  BY <1>1, <1>d DEF VisitorLeaves, routing, agents, seen, StillOpen
<1>2. ASSUME NEW w \in Workers, Register(w)
      PROVE  SharedInv'
  <2>1. /\ UNCHANGED <<session, saved, creating, slack, inbox, act, routed>>
        /\ registered' = [registered EXCEPT ![w] = connects + 1]
        /\ loading' = [loading EXCEPT ![w] = <<saved, TRUE>>]
        /\ \A u \in Workers : /\ u # w => registered[u] = 0
                              /\ inbox[u] = <<>>
                              /\ ~CreatingAt(u)
    BY <1>2 DEF Register, routing, agents
  <2>2. \A t \in Threads : creating[t] = None
    BY <2>1, <1>e DEF CreatingAt
  <2>3. /\ \A u \in Workers : Holder(u)' => u = w
        /\ \A u \in Workers : u # w => loading[u] = <<>>
    BY <2>1, <1>a, <1>i DEF LoadIsLatest, Holder, TypeOK
  <2>4. Holder(w)'
    BY <2>1, <1>a, HandoffAssumption DEF Holder, TypeOK
  <2>5. loading'[w] = <<saved, TRUE>> /\ \A u \in Workers : u # w => loading'[u] = <<>>
    BY <2>1, <2>3, <1>a DEF TypeOK
  <2>6. OneHolder' /\ LoadIsLatest' /\ HolderHasLatest' /\ OneConfirm'
    <3>1. OneHolder' /\ OneConfirm'
      BY <2>1, <2>2, <2>3 DEF OneHolder, OneConfirm
    <3>2. LoadIsLatest'
      BY <2>1, <2>2, <2>4, <2>5 DEF LoadIsLatest
    <3>3. loading'[w] # <<>>
      BY <2>5
    <3>4. HolderHasLatest'
      BY <2>3, <3>3 DEF HolderHasLatest
    <3> QED BY <3>1, <3>2, <3>4
  <2>7. OlderElsewhere'
    BY <2>1, <1>i DEF OlderElsewhere, Latest
  <2>8. \A r \in routed : r \in Latest.heard
    BY <2>1, <1>i DEF RoutedIsHeard
  <2>9. Latest.active => Latest.thread \in Threads /\ StillOpen(act, slack, Latest.thread)
    BY <2>1, <1>i DEF LatestIsOpen
  <2>10. RoutedIsHeard' /\ LatestIsOpen'
    BY <2>1, <2>8, <2>9 DEF RoutedIsHeard, LatestIsOpen, Latest
  <2> QED BY <2>6, <2>7, <2>10 DEF SharedInv
<1>3. ASSUME NEW w \in Workers, Adopt(w)
      PROVE  SharedInv'
  <2>1. loading[w] # <<>> /\ loading[w] = <<saved, TRUE>> /\ Holder(w)
    BY <1>3, <1>i DEF Adopt, LoadIsLatest
  <2>2. /\ UNCHANGED <<saved, registered, creating, slack, inbox, act, routed>>
        /\ loading' = [loading EXCEPT ![w] = <<>>]
        /\ session' = [session EXCEPT ![w] =
             IF KeepsLocal(w, saved) THEN @ ELSE IF saved = None THEN NewSession ELSE saved]
    BY <1>3, <2>1 DEF Adopt, routing, seen
  <2>3. KeepsLocal(w, saved) => session[w] # None /\ session[w] = Latest
    <3> SUFFICES ASSUME KeepsLocal(w, saved), saved # None, session[w].rev < saved.rev
                 PROVE  FALSE
      BY <1>i DEF KeepsLocal, OlderElsewhere
    <3>1. session[w].rev \in Nat /\ saved.rev \in Nat /\ session[w].rev >= saved.rev
      BY <1>a DEF KeepsLocal, TypeOK, Sessions
    <3> QED BY <3>1
  <2>4. Latest' = Latest /\ Latest \in Sessions /\ Latest # None
    BY <2>2, <1>a, NewSessionType, NoneIsNoValue DEF Latest, TypeOK
  <2>5. /\ session'[w] # None /\ session'[w] = Latest
        /\ \A u \in Workers : u # w => session'[u] = session[u]
    BY <2>2, <2>3, <2>4, <1>a DEF Latest, TypeOK
  <2>6. \A u \in Workers : loading'[u] = IF u = w THEN <<>> ELSE loading[u]
    BY <2>2, <1>a DEF TypeOK
  <2>7. OneHolder' /\ OneConfirm' /\ RoutedIsHeard' /\ LatestIsOpen'
    BY <2>2, <2>4, <1>i DEF OneHolder, OneConfirm, RoutedIsHeard, LatestIsOpen, Holder
  <2>8. LoadIsLatest' /\ HolderHasLatest'
    <3>1. \A u \in Workers : Holder(u)' <=> Holder(u)
      BY <2>2 DEF Holder
    <3>2. LoadIsLatest'
      BY <2>2, <2>6, <3>1, <1>i DEF LoadIsLatest
    <3>3. HolderHasLatest'
      <4> SUFFICES ASSUME NEW u \in Workers, Holder(u)', loading'[u] = <<>>
                   PROVE  session'[u] # None /\ session'[u] = Latest'
        BY DEF HolderHasLatest
      <4>1. CASE u = w
        BY <4>1, <2>4, <2>5
      <4>2. CASE u # w
        BY <4>2, <2>4, <2>5, <2>6, <3>1, <1>i DEF HolderHasLatest
      <4> QED BY <4>1, <4>2
    <3> QED BY <3>2, <3>3
  <2>9. OlderElsewhere'
    BY <2>2, <2>4, <2>5, <1>i DEF OlderElsewhere
  <2> QED BY <2>7, <2>8, <2>9 DEF SharedInv
<1>4. ASSUME NEW w \in Workers, Cleanup(w)
      PROVE  SharedInv'
  <2>1. /\ Holder(w) /\ loading[w] = <<>> /\ inbox[w] = <<>>
        /\ \A t \in Threads : creating[t] # [worker |-> w, conn |-> registered[w]]
        /\ registered' = [registered EXCEPT ![w] = 0]
        /\ UNCHANGED <<loading, creating, slack, inbox, act, routed>>
    BY <1>4 DEF Cleanup, Holder, routing, agents
  <2>2. session[w] # None /\ session[w] = Latest
    BY <2>1, <1>i DEF HolderHasLatest
  <2>3. SaveSession(w, session[w])
    BY <1>4, <2>2 DEF Cleanup
  <2>4. /\ OlderElsewhere'
        /\ Latest'.active = Latest.active /\ Latest'.thread = Latest.thread
        /\ Latest'.heard = Latest.heard
    BY <2>2, <2>3, <1>a, <1>f, <1>i, CalmSave
  <2>5. /\ \A u \in Workers : Holder(u) => u = w
        /\ \A u \in Workers : ~Holder(u)'
        /\ \A u \in Workers : loading[u] = <<>>
    BY <2>1, <1>a, <1>i DEF OneHolder, LoadIsLatest, Holder, TypeOK
  <2>6. \A t \in Threads : creating[t] = None
    <3> SUFFICES ASSUME NEW t \in Threads, creating[t] # None
                 PROVE  FALSE
      OBVIOUS
    <3>1. registered[creating[t].worker] = creating[t].conn /\ creating[t].worker = w
      BY <2>5, <1>e, <1>i DEF OneConfirm, Holder
    <3>2. creating[t] = [worker |-> w, conn |-> registered[w]]
      BY <3>1, <1>e DEF Confirms
    <3> QED BY <2>1, <3>2
  <2>7. OneHolder' /\ LoadIsLatest' /\ HolderHasLatest' /\ OneConfirm'
    BY <2>1, <2>5, <2>6 DEF OneHolder, LoadIsLatest, HolderHasLatest, OneConfirm
  <2>8. \A r \in routed : r \in Latest.heard
    BY <2>1, <2>5, <1>i DEF RoutedIsHeard
  <2>9. Latest.active => Latest.thread \in Threads /\ StillOpen(act, slack, Latest.thread)
    BY <2>1, <2>5, <1>i DEF LatestIsOpen
  <2>10. RoutedIsHeard' /\ LatestIsOpen'
    BY <2>1, <2>4, <2>8, <2>9 DEF RoutedIsHeard, LatestIsOpen
  <2> QED BY <2>4, <2>7, <2>10 DEF SharedInv
<1>5. ASSUME NEW w \in Workers, UserMessage(w)
      PROVE  SharedInv'
  <2>1. Holder(w) /\ loading[w] = <<>>
    BY <1>5, <1>a DEF UserMessage, Ready, Current, LiveIsNewest, Holder
  <2>2. session[w] \in Sessions
    BY <2>1, <1>f, <1>i DEF HolderHasLatest
  <2> QED BY <1>5, <1>g, <2>1, <2>2 DEF UserMessage, visitor, routing, agents, seen
<1>6. ASSUME NEW w \in Workers, NEW t \in Threads, ConfirmHandoff(w, t)
      PROVE  SharedInv'
  <2>1. /\ Holder(w) /\ registered[w] = connects /\ loading[w] = <<>>
        /\ \A s \in Threads : creating[s] # [worker |-> w, conn |-> connects]
        /\ creating' = [creating EXCEPT ![t] = [worker |-> w, conn |-> connects]]
        /\ UNCHANGED <<session, saved, registered, loading, slack, inbox, act, routed>>
    BY <1>6, <1>a
       DEF ConfirmHandoff, Ready, Current, LiveIsNewest, Holder, visitor, agents, seen
  <2>2. \A s \in Threads : creating[s] = None
    <3> SUFFICES ASSUME NEW s \in Threads, creating[s] # None
                 PROVE  FALSE
      OBVIOUS
    <3>1. registered[creating[s].worker] = creating[s].conn /\ creating[s].worker = w
      BY <2>1, <1>e, <1>i DEF OneConfirm, OneHolder, Holder
    <3>2. creating[s] = [worker |-> w, conn |-> registered[w]]
      BY <3>1, <1>e DEF Confirms
    <3> QED BY <2>1, <3>2
  <2>3. \A s \in Threads :
          creating'[s] = IF s = t THEN [worker |-> w, conn |-> connects] ELSE None
    BY <2>1, <2>2, <1>a DEF TypeOK
  <2>4. OneConfirm'
    BY <2>1, <2>3 DEF OneConfirm
  <2>5. \A u \in Workers : loading[u] = <<>>
    BY <2>1, <1>i DEF LoadIsLatest, OneHolder
  <2>6. LoadIsLatest'
    BY <2>1, <2>5 DEF LoadIsLatest
  <2>7. OneHolder' /\ OlderElsewhere' /\ HolderHasLatest'
    BY <2>1, <1>i DEF OneHolder, OlderElsewhere, HolderHasLatest, Holder, Latest
  <2>8. RoutedIsHeard' /\ LatestIsOpen'
    BY <2>1, <1>i DEF RoutedIsHeard, LatestIsOpen, Holder, Latest
  <2> QED BY <2>4, <2>6, <2>7, <2>8 DEF SharedInv
<1>7. ASSUME NEW t \in Threads, SlackPosts(t)
      PROVE  SharedInv'
  <2>1. /\ UNCHANGED <<session, saved, registered, loading, creating, inbox, act, routed>>
        /\ slack' = [slack EXCEPT ![t] = "open"]
    BY <1>7 DEF SlackPosts, visitor, agents, seen
  <2>2. \A u \in Threads : StillOpen(act, slack, u) => StillOpen(act', slack', u)
    BY <2>1, <1>a DEF StillOpen, TypeOK
  <2> QED BY <2>1, <2>2, <1>d
<1>8. ASSUME NEW t \in Threads, HandoffCreated(t)
      PROVE  SharedInv'
  <2>1. PICK w \in Workers : w = creating[t].worker
    BY <1>8, <1>e DEF HandoffCreated
  <2>2. Holder(w) /\ loading[w] = <<>>
    BY <1>8, <2>1, <1>e, <1>i DEF HandoffCreated, OneConfirm, LoadIsLatest, Holder
  <2>3. session[w] \in Sessions
    BY <2>2, <1>f, <1>i DEF HolderHasLatest
  <2> DEFINE s == [session[w] EXCEPT !.active = TRUE, !.thread = t]
  <2>4. /\ s \in Sessions /\ s.rev = session[w].rev /\ s.active /\ s.thread = t
        /\ s.heard = session[w].heard
    BY <2>3, EnteredKeeps
  <2>8. creating[t] # None /\ slack[t] = "open"
    BY <1>8, <1>a DEF HandoffCreated, ThreadInv, CreatingIsNew, TypeOK, Shows
  <2>5. StillOpen(act, slack, t)
    BY <2>8 DEF ThreadInv, Unmarked, StillOpen
  <2>6. /\ SaveSession(w, s) /\ creating' = [creating EXCEPT ![t] = None]
        /\ UNCHANGED <<registered, loading, inbox, slack, act, routed>>
    BY <1>8, <2>1 DEF HandoffCreated, visitor, agents, seen
  <2>7. \A u \in Threads : creating'[u] # None => creating'[u] = creating[u]
    BY <2>6, <1>a DEF TypeOK
  <2> HIDE DEF s
  <2> QED BY <1>g, <2>2, <2>4, <2>5, <2>6, <2>7
<1>9. ASSUME NEW t \in Threads, HandoffFails(t)
      PROVE  SharedInv'
  <2>1. PICK w \in Workers : w = creating[t].worker
    BY <1>9, <1>e DEF HandoffFails
  <2>2. Holder(w) /\ loading[w] = <<>>
    BY <1>9, <2>1, <1>e, <1>i DEF HandoffFails, OneConfirm, LoadIsLatest, Holder
  <2>3. session[w] \in Sessions
    BY <2>2, <1>f, <1>i DEF HolderHasLatest
  <2>4. /\ SaveSession(w, session[w]) /\ creating' = [creating EXCEPT ![t] = None]
        /\ UNCHANGED <<registered, loading, inbox, slack, act, routed>>
    BY <1>9, <2>1 DEF HandoffFails, visitor, agents, seen
  <2>5. \A u \in Threads : creating'[u] # None => creating'[u] = creating[u]
    BY <2>4, <1>a DEF TypeOK
  <2> QED BY <1>g, <2>2, <2>3, <2>4, <2>5
\* An event is published: the worker the visitor is on has it, last.
<1>h. ASSUME NEW e \in AgentEvents, Publish(e),
             UNCHANGED <<session, saved, registered, loading, creating>>
      PROVE  /\ OneHolder' /\ LoadIsLatest' /\ OlderElsewhere' /\ HolderHasLatest' /\ OneConfirm'
             /\ \A w \in Workers : \A i \in 1..Len(inbox[w]) :
                  i \in 1..Len(inbox'[w]) /\ inbox'[w][i] = inbox[w][i]
             /\ \E w \in Workers : Holder(w)' /\ \E i \in 1..Len(inbox'[w]) : inbox'[w][i] = e
  <2>1. PICK h \in Workers : Holder(h) /\ loading[h] = <<>> /\ h \in listening
    BY <1>h DEF Publish, Attended, Holder
  <2>2. \A u \in Workers : loading[u] = <<>>
    BY <2>1, <1>i DEF LoadIsLatest, OneHolder
  <2>3. OneHolder' /\ LoadIsLatest' /\ OlderElsewhere' /\ HolderHasLatest' /\ OneConfirm'
    BY <2>2, <1>h, <1>i
       DEF OneHolder, LoadIsLatest, OlderElsewhere, HolderHasLatest, OneConfirm, Holder, Latest
  <2>4. \A w \in Workers : \A i \in 1..Len(inbox[w]) :
          i \in 1..Len(inbox'[w]) /\ inbox'[w][i] = inbox[w][i]
    BY <1>h, <1>a, PublishLast
  <2>5. inbox[h] \in Seq(AgentEvents) /\ inbox'[h] = Append(inbox[h], e)
    BY <2>1, <1>h, <1>a DEF Publish, TypeOK
  <2>6. Len(inbox[h]) + 1 \in 1..Len(inbox'[h]) /\ inbox'[h][Len(inbox[h]) + 1] = e
    BY <2>5
  <2>7. Holder(h)'
    BY <2>1, <1>h DEF Holder
  <2> QED BY <2>3, <2>4, <2>6, <2>7
<1>10. ASSUME NEW type \in ActTypes, NEW t \in Threads, NEW w \in Workers, AgentActs(type, t, w)
       PROVE  SharedInv'
  <2>1. UNCHANGED <<session, saved, registered, loading, creating, slack, inbox, routed>>
    BY <1>10 DEF AgentActs, visitor, routing, seen
  <2>2. \A n \in Acts : act'[n] = act[n] \/ act'[n].stage = "asking"
    BY <1>10, <1>a, ActsEffect
  <2>3. \A u \in Threads : StillOpen(act, slack, u) => StillOpen(act', slack', u)
    BY <2>1, <2>2 DEF StillOpen
  <2> QED BY <2>1, <2>3, <1>d
\* The task of an act: what does not publish, ...
<1>j. ASSUME NEW n \in Acts, NEW stage, Advances(n, stage), UNCHANGED slack,
             \/ stage \notin {"clearing", "posting"}
                 \/ act[n].stage = "clearing",
             UNCHANGED <<session, saved, registered, loading, creating, inbox, routed>>
      PROVE  SharedInv'
  <2>1. \A t \in Threads : StillOpen(act, slack, t) => StillOpen(act', slack', t)
    BY <1>j, <1>a, StaysOpen
  <2> QED BY <2>1, <1>d, <1>j
\* ... what does, ...
<1>k. ASSUME NEW n \in Acts, Publishes(n), Advances(n, AfterTold(n)), act[n] \in Handlings
      PROVE  SharedInv'
  <2> DEFINE e == [type |-> act[n].type, thread |-> act[n].thread, act |-> n]
  <2>1. /\ Publish(e)
        /\ routed' = IF IsReply(e) THEN routed \cup {n} ELSE routed
        /\ UNCHANGED <<session, saved, registered, loading, creating, slack>>
    BY <1>k DEF Publishes, visitor, routing, IsReply
  <2>2. /\ e \in AgentEvents /\ e.act = n /\ (IsReply(e) <=> act[n].type = "agent_message")
    BY <1>k, EventType DEF IsReply, Handlings
  <2> HIDE DEF e
  <2>3. /\ OneHolder' /\ LoadIsLatest' /\ OlderElsewhere' /\ HolderHasLatest' /\ OneConfirm'
        /\ \A u \in Workers : \A i \in 1..Len(inbox[u]) :
             i \in 1..Len(inbox'[u]) /\ inbox'[u][i] = inbox[u][i]
        /\ \E u \in Workers : Holder(u)' /\ \E i \in 1..Len(inbox'[u]) : inbox'[u][i] = e
    BY <2>1, <2>2, <1>h
  <2>4. Latest' = Latest /\ \A u \in Workers : Holder(u)' <=> Holder(u)
    BY <2>1 DEF Latest, Holder
  <2>5. RoutedIsHeard'
    <3> SUFFICES ASSUME NEW q \in routed', q \notin Latest.heard
                 PROVE  \E u \in Workers : Holder(u)' /\ \E i \in 1..Len(inbox'[u]) :
                          IsReply(inbox'[u][i]) /\ inbox'[u][i].act = q
      BY <2>4 DEF RoutedIsHeard, IsReply
    <3>1. CASE q = n /\ IsReply(e)
      BY <3>1, <2>2, <2>3
    <3>2. CASE q \in routed
      BY <3>2, <2>3, <2>4, <1>i DEF RoutedIsHeard
    <3> QED BY <2>1, <3>1, <3>2
  <2>6. LatestIsOpen'
    <3>1. CASE IsReply(e)
      <4>1. AfterTold(n) = "over"
        BY <2>2, <3>1 DEF AfterTold
      <4>2. \A t \in Threads : StillOpen(act, slack, t) => StillOpen(act', slack', t)
        BY <4>1, <2>1, <1>a, <1>k, StaysOpen
      <4> QED BY <4>2, <2>3, <2>4, <1>i DEF LatestIsOpen, IsReply
    <3>2. CASE ~IsReply(e)
      BY <3>2, <2>3, <2>4, <1>i DEF LatestIsOpen, IsReply
    <3> QED BY <3>1, <3>2
  <2> QED BY <2>3, <2>5, <2>6 DEF SharedInv
\* ... and what tells Slack: the session has been told, or is in another thread.
<1>l. ASSUME NEW n \in Acts, Posts(n), Stands(n, "posting"), Advances(n, "over"),
             act[n] \in Handlings
      PROVE  SharedInv'
  <2>1. UNCHANGED <<session, saved, registered, loading, creating, inbox, routed>>
    BY <1>l DEF Posts, visitor, seen
  <2>2. CASE slack' = [slack EXCEPT ![act[n].thread] = "resolved"]
    <3>1. ~StillOpen(act, slack, act[n].thread)
      BY <1>l, <2>2 DEF StillOpen, Stands
    <3>2. \A t \in Threads : StillOpen(act, slack, t) => StillOpen(act', slack', t)
      <4> SUFFICES ASSUME NEW t \in Threads, StillOpen(act, slack, t)
                   PROVE  StillOpen(act', slack', t)
        OBVIOUS
      <4>1. t # act[n].thread
        BY <3>1
      <4>2. slack'[t] = "open"
        BY <4>1, <2>2, <1>a DEF StillOpen, TypeOK
      <4> QED BY <4>2, <1>l DEF StillOpen, Advances
    <3> QED BY <3>2, <2>1, <1>d
  <2>3. CASE slack' = slack
    BY <2>1, <2>3, <1>j, <1>l
  <2> QED BY <1>l, <2>2, <2>3 DEF Posts
<1>11. ASSUME NEW n \in Acts, Handles(n)
       PROVE  SharedInv'
  <2>1. act[n] \in Handlings /\ UNCHANGED <<saved, registered, loading, creating>>
    BY <1>11, <1>a, HandlesEffect DEF visitor
  <2>2. CASE Dropped(n) /\ Advances(n, "over")
    BY <2>1, <2>2, <1>j DEF Dropped, routing, seen
  <2>3. CASE Finds(n) /\ Advances(n, "publishing")
    BY <2>1, <2>3, <1>j DEF Finds, routing, seen
  <2>4. CASE DeliversHere(n)
    BY <2>4 DEF DeliversHere
  <2>5. CASE Publishes(n) /\ Advances(n, AfterTold(n))
    BY <2>1, <2>5, <1>k
  <2>6. CASE PublishFails(n) /\ Advances(n, AfterTold(n))
    <3>1. act[n].type = "agent_message"
      BY <2>6 DEF PublishFails
    <3>2. AfterTold(n) = "over"
      BY <3>1 DEF AfterTold
    <3> QED BY <2>1, <2>6, <3>2, <1>j DEF PublishFails, routing
  <2>7. CASE Clears(n) /\ Stands(n, "clearing") /\ Advances(n, "posting")
    <3>1. act[n].stage = "clearing"
      BY <2>7 DEF Stands
    <3> QED BY <2>1, <2>7, <3>1, <1>j DEF Clears, seen
  <2>8. CASE Posts(n) /\ Stands(n, "posting") /\ Advances(n, "over")
    BY <2>1, <2>8, <1>l
  <2> QED BY <1>11, <1>a, HandlesEffect, <2>2, <2>3, <2>4, <2>5, <2>6, <2>7, <2>8
<1>12. ASSUME NEW w \in Workers, Deliver(w)
       PROVE  SharedInv'
  <2> DEFINE e == inbox[w][1]
  <2>1. /\ Delivers(w, e) /\ inbox[w] # <<>>
        /\ UNCHANGED <<registered, loading, creating, slack, act, routed>>
    BY <1>12, <1>a, DeliverEffect, DeliverFirst DEF visitor
  <2>2. /\ Len(inbox[w]) \in Nat \ {0} /\ Len(inbox'[w]) = Len(inbox[w]) - 1
        /\ \A i \in 1..Len(inbox'[w]) : i + 1 \in 1..Len(inbox[w]) /\ inbox'[w][i] = inbox[w][i + 1]
        /\ \A u \in Workers : u # w => inbox'[u] = inbox[u]
    BY <1>12, <1>a, DeliverFirst
  <2>3. \A i \in 1..Len(inbox[w]) :
          i = 1 \/ (i - 1 \in 1..Len(inbox'[w]) /\ inbox'[w][i - 1] = inbox[w][i])
    BY <2>2
  <2>4. \A u \in Workers : loading[u] = <<>>
    BY <2>1, <1>i DEF LoadIsLatest
  <2> HIDE DEF e
  <2>5. CASE ~Holder(w)
    <3>1. UNCHANGED <<session, saved>>
      BY <2>1, <2>5 DEF Delivers, Holder
    <3>2. \A u \in Workers : Holder(u)' => Holder(u) /\ inbox'[u] = inbox[u]
      BY <2>1, <2>2, <2>5 DEF Holder
    <3>3. \A u \in Workers : Holder(u) => Holder(u)' /\ inbox'[u] = inbox[u]
      BY <2>1, <2>2, <2>5 DEF Holder
    <3>4. OneHolder' /\ HolderHasLatest' /\ OlderElsewhere' /\ OneConfirm'
      BY <2>1, <3>1, <1>i
         DEF OneHolder, HolderHasLatest, OlderElsewhere, OneConfirm, Holder, Latest
    <3>5. LoadIsLatest'
      BY <2>1, <2>4 DEF LoadIsLatest
    <3>6. Latest' = Latest
      BY <3>1 DEF Latest
    <3>7. RoutedIsHeard' /\ LatestIsOpen'
      BY <2>1, <3>3, <3>6, <1>i DEF RoutedIsHeard, LatestIsOpen, IsReply
    <3> QED BY <3>4, <3>5, <3>7 DEF SharedInv
  <2>6. CASE Holder(w)
    <3>1. session[w] # None /\ session[w] = Latest /\ session[w] \in Sessions
      BY <2>4, <2>6, <1>f, <1>i DEF HolderHasLatest
    <3>2. \A u \in Workers : Holder(u) <=> u = w
      BY <2>6, <1>i DEF OneHolder
    <3>3. PICK s \in Sessions :
            /\ SaveSession(w, s) /\ s.rev = session[w].rev
            /\ \/ /\ IsReply(e)
                  /\ s.heard = session[w].heard \cup {e.act}
                  /\ s.active = session[w].active /\ s.thread = session[w].thread
               \/ ~IsReply(e) /\ s.heard = session[w].heard /\ ~s.active
      <4>1. CASE IsReply(e)
        <5>1. e.act \in Acts /\ SaveSession(w, Heard(w, e.act))
          BY <2>1, <2>6, <3>1, <4>1 DEF Delivers, IsReply, Holder
        <5>2. Heard(w, e.act) \in Sessions
          BY <3>1, <5>1, <1>a, HeardKeeps
        <5> QED BY <3>1, <4>1, <5>1, <5>2, <1>a, HeardKeeps
      <4>2. CASE ~IsReply(e)
        <5>1. SaveSession(w, Returned(w))
          BY <2>1, <2>6, <3>1, <4>2 DEF Delivers, IsReply, Holder
        <5>2. Returned(w) \in Sessions
          BY <3>1, <1>a, ReturnedKeeps
        <5> QED BY <3>1, <4>2, <5>1, <5>2, <1>a, ReturnedKeeps
      <4> QED BY <4>1, <4>2
    <3>4. /\ OlderElsewhere'
          /\ session'[w] # None /\ session'[w] = Latest'
          /\ Latest'.active = s.active /\ Latest'.thread = s.thread /\ Latest'.heard = s.heard
      BY <3>1, <3>3, <1>a, <1>i, CalmSave
    <3>5. \A u \in Workers : Holder(u)' <=> u = w
      BY <2>1, <3>2 DEF Holder
    <3>6. OneHolder' /\ OneConfirm' /\ LoadIsLatest' /\ HolderHasLatest'
      BY <2>1, <2>4, <3>4, <3>5, <1>i DEF OneHolder, OneConfirm, LoadIsLatest, HolderHasLatest
    <3>7. RoutedIsHeard'
      <4> SUFFICES ASSUME NEW r \in routed, r \notin Latest'.heard
                   PROVE  \E i \in 1..Len(inbox'[w]) : IsReply(inbox'[w][i]) /\ inbox'[w][i].act = r
        BY <2>1, <3>5 DEF RoutedIsHeard, IsReply
      <4>1. r \notin Latest.heard
        BY <3>1, <3>3, <3>4
      <4>2. PICK i \in 1..Len(inbox[w]) : IsReply(inbox[w][i]) /\ inbox[w][i].act = r
        BY <3>2, <4>1, <1>i DEF RoutedIsHeard
      <4>3. i # 1
        BY <3>3, <3>4, <4>2 DEF e
      <4> QED BY <2>3, <4>2, <4>3
    <3>8. LatestIsOpen'
      <4> SUFFICES ASSUME Latest'.active
                   PROVE  /\ Latest'.thread \in Threads
                          /\ StillOpen(act, slack, Latest'.thread) \/
                             \E i \in 1..Len(inbox'[w]) : ~IsReply(inbox'[w][i])
        BY <2>1, <3>5 DEF LatestIsOpen, IsReply
      <4>1. IsReply(e) /\ Latest.active /\ Latest'.thread = Latest.thread
        BY <3>1, <3>3, <3>4
      <4>2. CASE StillOpen(act, slack, Latest.thread)
        BY <4>1, <4>2, <1>i DEF LatestIsOpen
      <4>3. CASE ~StillOpen(act, slack, Latest.thread)
        <5>1. PICK i \in 1..Len(inbox[w]) : ~IsReply(inbox[w][i])
          BY <3>2, <4>1, <4>3, <1>i DEF LatestIsOpen
        <5>2. i # 1
          BY <4>1, <5>1 DEF e
        <5> QED BY <2>3, <4>1, <5>1, <5>2, <1>i DEF LatestIsOpen
      <4> QED BY <4>2, <4>3
    <3> QED BY <3>4, <3>6, <3>7, <3>8 DEF SharedInv
  <2> QED BY <2>5, <2>6
<1>13. ASSUME NEW w \in Workers, ListenerDies(w)
       PROVE  SharedInv'
  <2>1. inbox[w] = <<>> /\ inbox' = [inbox EXCEPT ![w] = <<>>]
    BY <1>13 DEF ListenerDies
  <2>2. inbox' = inbox
    BY <2>1, <1>a DEF TypeOK
  <2>3. UNCHANGED <<act, slack>>
    BY <1>13 DEF ListenerDies, routing
  <2>4. \A t \in Threads : StillOpen(act, slack, t) => StillOpen(act', slack', t)
    BY <2>3
  <2> QED BY <1>13, <2>2, <2>4, <1>d DEF ListenerDies, visitor, routing
<1>14. ASSUME NEW w \in Workers, Crash(w)
       PROVE  SharedInv'
  <2>1. /\ inbox[w] = <<>> /\ inbox' = [inbox EXCEPT ![w] = <<>>] /\ ~CreatingAt(w)
        /\ UNCHANGED <<saved, slack, routed>>
        /\ session' = [session EXCEPT ![w] = None]
        /\ registered' = [registered EXCEPT ![w] = 0]
        /\ loading' = [loading EXCEPT ![w] = <<>>]
    BY <1>14 DEF Crash
  <2>2. \A t \in Threads : creating'[t] = creating[t] /\ (creating[t] # None => creating[t].worker # w)
    BY <1>14, <2>1 DEF Crash, CreatingAt
  <2>3. \A u \in Workers :
          /\ session'[u] = IF u = w THEN None ELSE session[u]
          /\ registered'[u] = IF u = w THEN 0 ELSE registered[u]
          /\ loading'[u] = IF u = w THEN <<>> ELSE loading[u]
          /\ inbox'[u] = inbox[u]
    BY <2>1, <1>a DEF TypeOK
  <2>4. Latest' = Latest /\ \A u \in Workers : Holder(u)' <=> Holder(u) /\ u # w
    BY <2>1, <2>3 DEF Latest, Holder
  <2>5. OneHolder' /\ OlderElsewhere' /\ HolderHasLatest'
    BY <2>1, <2>3, <2>4, <1>i DEF OneHolder, OlderElsewhere, HolderHasLatest
  <2>6. LoadIsLatest'
    BY <2>1, <2>2, <2>3, <2>4, <1>i DEF LoadIsLatest
  <2>7. OneConfirm'
    BY <2>2, <2>3, <1>e, <1>i DEF OneConfirm
  <2>8. RoutedIsHeard' /\ LatestIsOpen'
    <3>1. \A u \in Workers : Holder(u) /\ 1..Len(inbox[u]) # {} => Holder(u)'
      BY <2>1, <2>4
    <3>2. \A u \in Workers : \A i \in 1..Len(inbox[u]) : 1..Len(inbox[u]) # {}
      OBVIOUS
    <3>3. \A n \in Acts : act'[n] # None =>
            /\ act[n] # None
            /\ act'[n].type = act[n].type /\ act'[n].thread = act[n].thread
            /\ act'[n].stage = act[n].stage \/ act'[n].stage = "over"
      BY <1>14, <1>a, CrashEffect
    <3>4. \A t \in Threads : StillOpen(act, slack, t) => StillOpen(act', slack', t)
      BY <2>1, <3>3 DEF StillOpen
    <3>5. RoutedIsHeard'
      BY <2>1, <2>3, <2>4, <3>1, <3>2, <1>i DEF RoutedIsHeard, IsReply
    <3>6. LatestIsOpen'
      BY <2>3, <2>4, <3>1, <3>2, <3>4, <1>i DEF LatestIsOpen, IsReply
    <3> QED BY <3>5, <3>6
  <2> QED BY <2>5, <2>6, <2>7, <2>8 DEF SharedInv
<1>15. CASE UNCHANGED vars
  <2>1. UNCHANGED <<act, slack>>
    BY <1>15 DEF vars
  <2>2. \A t \in Threads : StillOpen(act, slack, t) => StillOpen(act', slack', t)
    BY <2>1
  <2> QED BY <1>15, <2>2, <1>d DEF vars
<1> QED BY <1>1, <1>2, <1>3, <1>4, <1>5, <1>6, <1>7, <1>8, <1>9, <1>10, <1>11, <1>12,
           <1>13, <1>14, <1>15 DEF Next, Step

(* The copies of the handoff state that follow the visitor: so long as no  *)
(* event falls between two of his sockets, the worker he is on has all of  *)
(* it as soon as it has handled what it was sent, for any workers and any  *)
(* moves between them, restarts and lost subscribers included.             *)
THEOREM CalmHandoffTheorem == Spec => []CalmHandoffSettles
<1>1. TInv /\ CalmInv => CalmHandoffSettles
  <2> SUFFICES ASSUME TInv, CalmInv, NEW w \in Workers, redis, calm, Settled(w)
               PROVE  HandoffIsOpen(w) /\ HistoryHasReplies(w)
    BY DEF CalmHandoffSettles
  <2>1. /\ OneHolder /\ HolderHasLatest /\ RoutedIsHeard /\ LatestIsOpen
    BY DEF CalmInv, SharedInv
  <2>2. Holder(w) /\ session[w] = Latest /\ inbox[w] = <<>>
    BY <2>1 DEF Settled, Current, TInv, LiveIsNewest, Holder, HolderHasLatest
  <2>3. \A u \in Workers : Holder(u) => inbox[u] = <<>>
    BY <2>1, <2>2 DEF OneHolder
  <2>4. \A r \in routed : r \in Latest.heard
    BY <2>1, <2>3 DEF RoutedIsHeard
  <2>5. Latest.active => slack[Latest.thread] = "open"
    BY <2>1, <2>3 DEF LatestIsOpen, StillOpen
  <2> QED BY <2>2, <2>4, <2>5 DEF HandoffIsOpen, HistoryHasReplies
<1> QED BY <1>1, TypeInvariant, ThreadInvariant, CalmInit, CalmStep, PTL DEF Spec
=============================================================================
