-------------------------- MODULE ConversationProofs --------------------------
(***************************************************************************)
(* Proofs about Conversation, for any workers, pages, faults and numbers of*)
(* connections and messages that ConversationAssumption allows: its types, *)
(* the registration of the newest socket, and the log of an orderly visit. *)
(***************************************************************************)
EXTENDS Conversation, TLAPS

\* The visitor's connections begin in the order of their numbers.
ConnsInOrder ==
  \A c, d \in Conns : d < c /\ conn[c].pc # "new" => conn[d].pc # "new"

\* A connection is on a worker that has the session.
Placed ==
  \A c \in Conns :
    /\ conn[c].pc = "new" => conn[c].worker = None
    /\ conn[c].pc # "new" => conn[c].worker \in Workers
    /\ Live(c) => session[conn[c].worker] # None

\* A copy counts no more conversations or messages than there were messages.
Counts(s, m) ==
  /\ s.counter <= m
  /\ s.turns <= m
  /\ s.started => s.counter >= 1

Counted ==
  /\ \A w \in Workers : session[w] # None => Counts(session[w], messages)
  /\ saved # None => Counts(saved, messages)
  /\ \A c \in Conns : conn[c].pc = "turn" => conn[c].id \in Ids

TInv == TypeOK /\ ConnsInOrder /\ Placed /\ Counted

ConnRecords ==
  [pc     : {"new", "open", "turn", "over"},
   worker : Workers \cup {None},
   id     : 0..MaxMessages,
   orphan : BOOLEAN]

(* What the steps do to the record of a connection and to a session.       *)
LEMMA ConnSteps ==
  ASSUME NEW r \in ConnRecords
  PROVE  /\ [r EXCEPT !.orphan = TRUE] \in ConnRecords
         /\ [r EXCEPT !.pc = "over"] \in ConnRecords
         /\ [[r EXCEPT !.pc = "open"] EXCEPT !.orphan = FALSE] \in ConnRecords
         /\ \A i \in 0..MaxMessages :
              [[[r EXCEPT !.pc = "turn"] EXCEPT !.id = i] EXCEPT !.orphan = FALSE] \in ConnRecords
BY DEF ConnRecords

LEMMA NewConnTyped ==
  /\ NewConn \in ConnRecords
  /\ \A w \in Workers :
       /\ [NewConn EXCEPT !.pc = "open", !.worker = w] \in ConnRecords
       /\ [NewConn EXCEPT !.pc = "open", !.worker = w].pc = "open"
       /\ [NewConn EXCEPT !.pc = "open", !.worker = w].worker = w
       /\ [NewConn EXCEPT !.pc = "open", !.worker = w].id = 0
       /\ ~[NewConn EXCEPT !.pc = "open", !.worker = w].orphan
<1>1. NewConn \in ConnRecords
  BY ConversationAssumption DEF NewConn, ConnRecords
<1>2. ASSUME NEW r \in ConnRecords, NEW w \in Workers
      PROVE  /\ [r EXCEPT !.pc = "open", !.worker = w] \in ConnRecords
             /\ [r EXCEPT !.pc = "open", !.worker = w].pc = "open"
             /\ [r EXCEPT !.pc = "open", !.worker = w].worker = w
             /\ [r EXCEPT !.pc = "open", !.worker = w].id = r.id
             /\ [r EXCEPT !.pc = "open", !.worker = w].orphan = r.orphan
  BY DEF ConnRecords
<1>3. NewConn.id = 0 /\ ~NewConn.orphan
  BY DEF NewConn
<1> QED BY <1>1, <1>2, <1>3

(* What a message does to the session: the fields of the copy it leaves.   *)
LooseSessions ==
  [rev : Nat, counter : Nat, turns : Nat, started : BOOLEAN, responded : BOOLEAN,
   page : Pages \cup {None}]

LEMMA SessionSteps ==
  ASSUME NEW s \in LooseSessions
  PROVE  /\ StartNewConversation(s) \in LooseSessions
         /\ StartNewConversation(s).counter = s.counter + 1
         /\ StartNewConversation(s).turns = 0
         /\ StartNewConversation(s).started
         /\ ~StartNewConversation(s).responded
         /\ StartNewConversation(s).rev = s.rev
         /\ \A page \in Pages :
              LET t == [s EXCEPT !.turns = @ + 1, !.page = page]
              IN  /\ t \in LooseSessions
                  /\ t.counter = s.counter /\ t.turns = s.turns + 1
                  /\ t.started = s.started /\ t.responded = s.responded
                  /\ t.rev = s.rev
<1>0. /\ s.counter + 1 \in Nat /\ s.turns + 1 \in Nat
  BY DEF LooseSessions
<1>1. StartNewConversation(s) \in LooseSessions
  <2>1. ASSUME NEW n \in Nat
        PROVE  [s EXCEPT !.counter = n, !.turns = 0, !.started = TRUE, !.responded = FALSE]
                 \in LooseSessions
    BY DEF LooseSessions
  <2> QED BY <1>0, <2>1 DEF StartNewConversation
<1>2. /\ StartNewConversation(s).counter = s.counter + 1
      /\ StartNewConversation(s).turns = 0
      /\ StartNewConversation(s).started
      /\ ~StartNewConversation(s).responded
      /\ StartNewConversation(s).rev = s.rev
  BY DEF LooseSessions, StartNewConversation
<1>3. ASSUME NEW page \in Pages
      PROVE  LET t == [s EXCEPT !.turns = @ + 1, !.page = page]
             IN  /\ t \in LooseSessions
                 /\ t.counter = s.counter /\ t.turns = s.turns + 1
                 /\ t.started = s.started /\ t.responded = s.responded
                 /\ t.rev = s.rev
  <2>1. ASSUME NEW n \in Nat
        PROVE  [s EXCEPT !.turns = n, !.page = page] \in LooseSessions
    BY DEF LooseSessions
  <2>2. [s EXCEPT !.turns = @ + 1, !.page = page] \in LooseSessions
    BY <1>0, <2>1
  <2> QED BY <2>2 DEF LooseSessions
<1> QED BY <1>1, <1>2, <1>3

(* One more entry in the log of one conversation.                          *)
LEMMA Logged ==
  ASSUME NEW S, NEW log \in [Ids -> Seq(S)], NEW i, NEW e \in S
  PROVE  [log EXCEPT ![i] = Append(@, e)] \in [Ids -> Seq(S)]
<1>1. \A j \in Ids : [log EXCEPT ![i] = Append(@, e)][j] \in Seq(S)
  <2> SUFFICES ASSUME NEW j \in Ids
               PROVE  [log EXCEPT ![i] = Append(@, e)][j] \in Seq(S)
    OBVIOUS
  <2>1. log[j] \in Seq(S) /\ Append(log[j], e) \in Seq(S)
    OBVIOUS
  <2> QED BY <2>1
<1> QED BY <1>1

LEMMA TInvInit == Init => TInv
<1> SUFFICES ASSUME Init
             PROVE  TInv
  OBVIOUS
<1>2. TypeOK
  <2>1. conn \in [Conns -> ConnRecords]
    BY NewConnTyped DEF Init
  <2>2. received \in [Ids -> Seq(1..MaxMessages)]
    BY DEF Init
  <2>3. ended \in [Ids -> Seq([turns : 0..MaxMessages, state : TerminalStates])]
    BY DEF Init
  <2>4. messages \in 0..MaxMessages
    BY ConversationAssumption DEF Init
  <2> QED BY <2>1, <2>2, <2>3, <2>4 DEF Init, TypeOK, ConnRecords
<1>3. \A c \in Conns : conn[c].pc = "new" /\ conn[c].worker = None
  BY DEF Init, NewConn
<1> QED BY <1>2, <1>3, ConversationAssumption DEF TInv, ConnsInOrder, Placed, Counted, Live, Init

(* What save_session leaves: the dict, written or not.                     *)
LEMMA SaveEffect ==
  ASSUME TypeOK, NEW w \in Workers, NEW s \in Sessions, SaveSession(w, s)
  PROVE  \E t \in Sessions :
           /\ session' = [session EXCEPT ![w] = t]
           /\ saved' \in {saved, t}
           /\ t = s \/ t = [s EXCEPT !.rev = @ + 1]
           /\ orderly' \in BOOLEAN
           /\ orderly' => orderly /\ saved' = t /\ t = [s EXCEPT !.rev = @ + 1]
<1>1. CASE SaveRefused(s)
  BY <1>1 DEF SaveSession, TypeOK
<1>2. CASE ~SaveRefused(s)
  <2> DEFINE t == [s EXCEPT !.rev = @ + 1]
  <2>1. t \in Sessions
    BY DEF Sessions
  <2> QED BY <1>2, <2>1 DEF SaveSession, TypeOK
<1> QED BY <1>1, <1>2

(* A save keeps what is typed and counted, if the dict it is given is.     *)
LEMMA SaveCounts ==
  ASSUME TypeOK, Counted, NEW w \in Workers, NEW s \in Sessions, SaveSession(w, s),
         Counts(s, messages)
  PROVE  /\ session' \in [Workers -> Sessions \cup {None}]
         /\ saved' \in Sessions \cup {None}
         /\ orderly' \in BOOLEAN
         /\ \A v \in Workers : session[v] # None => session'[v] # None
         /\ \A v \in Workers : session'[v] # None => Counts(session'[v], messages)
         /\ saved' # None => Counts(saved', messages)
<1>1. PICK t \in Sessions :
        /\ session' = [session EXCEPT ![w] = t] /\ saved' \in {saved, t}
        /\ t = s \/ t = [s EXCEPT !.rev = @ + 1]
        /\ orderly' \in BOOLEAN
  BY SaveEffect
<1>2. t.counter = s.counter /\ t.turns = s.turns /\ t.started = s.started
  BY <1>1 DEF Sessions
<1>3. t # None
  BY NoneIsNoSession
<1> QED BY <1>1, <1>2, <1>3 DEF TypeOK, Counted, Counts

LEMMA TInvConnect ==
  ASSUME TInv, NEW c \in Conns, NEW w \in Workers, Connect(c, w)
  PROVE  TInv'
<1> USE DEF TInv
<1>1. /\ NewSession \in Sessions
      /\ NewSession.counter = 0 /\ NewSession.turns = 0 /\ ~NewSession.started
  BY ConversationAssumption DEF NewSession, Sessions
<1>2. Adopted(w) \in Sessions /\ Counts(Adopted(w), messages)
  <2>1. messages \in Nat
    BY ConversationAssumption DEF TypeOK
  <2>2. Counts(NewSession, messages)
    BY <1>1, <2>1, 0 <= messages DEF Counts
  <2> QED BY <1>1, <2>2 DEF Adopted, KeepsLocal, TypeOK, Counted
<1>3. session' = [session EXCEPT ![w] = Adopted(w)] /\ Adopted(w) # None
  BY <1>2, NoneIsNoSession DEF Connect
<1>4. /\ conn'[c].pc = "open" /\ conn'[c].worker = w /\ conn'[c].id = 0
      /\ \A d \in Conns : d # c => /\ conn'[d].pc = conn[d].pc /\ conn'[d].worker = conn[d].worker
                                   /\ conn'[d].id = conn[d].id
  BY DEF Connect, NewConn, TypeOK
<1>5. TypeOK'
  <2>1. conn' \in [Conns -> ConnRecords]
    <3>1. conn \in [Conns -> ConnRecords]
      BY DEF TypeOK, ConnRecords
    <3>2. conn' = [d \in Conns |-> conn'[d]]
      BY DEF Connect
    <3>3. ASSUME NEW d \in Conns
          PROVE  conn'[d] \in {[NewConn EXCEPT !.pc = "open", !.worker = w],
                              [conn[d] EXCEPT !.orphan = TRUE], conn[d]}
      BY DEF Connect
    <3>4. \A d \in Conns : conn'[d] \in ConnRecords
      BY <3>1, <3>3, ConnSteps, NewConnTyped
    <3> QED BY <3>2, <3>4
  <2>2. registered' \in [Workers -> Conns \cup {None}]
    BY DEF TypeOK, Connect
  <2>3. orderly' \in BOOLEAN
    BY DEF Connect, TypeOK
  <2>4. session' \in [Workers -> Sessions \cup {None}]
    BY <1>2, <1>3 DEF TypeOK
  <2> QED BY <2>1, <2>2, <2>3, <2>4 DEF TypeOK, Connect, history, ConnRecords
<1>6. ConnsInOrder'
  BY <1>4 DEF ConnsInOrder, Connect, Conns
<1>7. Placed'
  BY <1>3, <1>4 DEF Placed, Live, TypeOK
<1>8. Counted'
  <2>1. messages' = messages /\ saved' = saved
    BY DEF Connect, history
  <2> QED BY <1>2, <1>3, <1>4, <2>1 DEF Counted, Counts, TypeOK
<1> QED BY <1>5, <1>6, <1>7, <1>8

(* What a message leaves, in the conversation it finds or in a new one.    *)
Same(s, t) ==
  /\ s.started
  /\ t.counter = s.counter /\ t.turns = s.turns + 1 /\ t.responded = s.responded
  /\ ended' = ended

Opened(s, t) ==
  /\ t.counter = s.counter + 1 /\ t.turns = 1 /\ ~t.responded
  /\ IF s.started THEN Emit(s, "navigated") ELSE UNCHANGED ended

Receives(c, s, t) ==
  /\ session[conn[c].worker] = s /\ Counts(s, messages)
  /\ session' = [session EXCEPT ![conn[c].worker] = t]
  /\ t.rev = s.rev /\ t.started /\ t.counter \in Ids
  /\ t.turns \in 1..MaxMessages /\ Counts(t, messages')
  /\ received' = [received EXCEPT ![t.counter] = Append(@, t.turns)]
  /\ Same(s, t) \/ Opened(s, t)
  /\ conn' = [conn EXCEPT ![c] = [[[conn[c] EXCEPT !.pc = "turn"]
                                   EXCEPT !.id = t.counter] EXCEPT !.orphan = FALSE]]

LEMMA ReceiveEffect ==
  ASSUME TInv, NEW c \in Conns, NEW page \in Pages, NEW idle \in BOOLEAN, Receive(c, page, idle)
  PROVE  \E s, t \in Sessions : Receives(c, s, t)
<1> USE DEF TInv
<1> DEFINE w  == conn[c].worker
           s  == session[w]
           b  == s.started /\ Boundary(s, page, idle)
           s1 == IF ~s.started \/ b THEN StartNewConversation(s) ELSE s
           s2 == [s1 EXCEPT !.turns = @ + 1, !.page = page]
<1>1. w \in Workers /\ s \in Sessions /\ Counts(s, messages)
  BY DEF Receive, Placed, Live, TypeOK, Counted
<1>2. /\ messages < MaxMessages /\ messages' = messages + 1 /\ messages \in Nat
  <2>1. messages < MaxMessages /\ messages' = messages + 1
    BY Zenon DEF Receive
  <2>2. messages \in Nat
    BY ConversationAssumption DEF TypeOK
  <2> QED BY <2>1, <2>2
<1>3. /\ s2.counter = (IF ~s.started \/ b THEN s.counter + 1 ELSE s.counter)
      /\ s2.turns = (IF ~s.started \/ b THEN 1 ELSE s.turns + 1)
      /\ s2.started /\ s2.rev = s.rev
      /\ ~s.started \/ b => ~s2.responded
      /\ ~(~s.started \/ b) => s2.responded = s.responded
      /\ s2 \in [rev : Nat, counter : Nat, turns : Nat, started : BOOLEAN, responded : BOOLEAN,
                 page : Pages \cup {None}]
  <2>1. s \in LooseSessions
    BY <1>1, ConversationAssumption DEF Sessions, LooseSessions
  <2>2. s1 \in LooseSessions
    BY <2>1, SessionSteps
  <2>3. s2 \in LooseSessions /\ s2.counter = s1.counter /\ s2.turns = s1.turns + 1
        /\ s2.started = s1.started /\ s2.responded = s1.responded /\ s2.rev = s1.rev
    <3> HIDE DEF s1
    <3> QED BY <2>2, SessionSteps
  <2>4. CASE ~s.started \/ b
    <3>1. s1 = StartNewConversation(s)
      BY <2>4
    <3>2. /\ s1.counter = s.counter + 1 /\ s1.turns = 0 /\ s1.started
          /\ ~s1.responded /\ s1.rev = s.rev
      <4> HIDE DEF s, s1
      <4> QED BY <2>1, <3>1, SessionSteps
    <3> HIDE DEF s2, s1, b
    <3> QED BY <2>3, <2>4, <3>2 DEF LooseSessions
  <2>5. CASE ~(~s.started \/ b)
    <3>1. s1 = s /\ s.started
      BY <2>5
    <3> HIDE DEF s2, s1, b
    <3> QED BY <2>3, <2>5, <3>1 DEF LooseSessions
  <2> QED BY <2>4, <2>5
<1>4. s2.counter \in Ids /\ s2.turns \in 1..MaxMessages
      /\ s2.turns <= messages' /\ s2.counter <= messages'
  BY <1>1, <1>2, <1>3, ConversationAssumption DEF Counts, Ids, Sessions
<1>5. s2 \in Sessions /\ s2 # None
  <2> HIDE DEF s2
  <2>1. s2.counter \in 0..MaxMessages /\ s2.turns \in 0..MaxMessages
    BY <1>4, ConversationAssumption DEF Ids
  <2>2. s2 \in Sessions
    BY <1>3, <2>1 DEF Sessions
  <2> QED BY <2>2, NoneIsNoSession
<1> HIDE DEF s2
<1>6. /\ session' = [session EXCEPT ![w] = s2]
      /\ received' = [received EXCEPT ![s2.counter] = Append(@, s2.turns)]
      /\ IF b THEN Emit(s, "navigated") ELSE UNCHANGED ended
      /\ conn' = [conn EXCEPT ![c].pc = "turn", ![c].id = s2.counter, ![c].orphan = FALSE]
  BY DEF Receive, s2
<1>7. conn' = [conn EXCEPT ![c] = [[[conn[c] EXCEPT !.pc = "turn"]
                                     EXCEPT !.id = s2.counter] EXCEPT !.orphan = FALSE]]
  BY <1>6
<1>8. Same(s, s2) \/ Opened(s, s2)
  <2>1. CASE ~s.started \/ b
    BY <1>3, <1>6, <2>1 DEF Opened
  <2>2. CASE ~(~s.started \/ b)
    BY <1>3, <1>6, <2>2 DEF Same
  <2> QED BY <2>1, <2>2
<1>9. Counts(s2, messages')
  BY <1>3, <1>4, ConversationAssumption DEF Counts, Ids
<1> HIDE DEF s, b
<1>10. session[conn[c].worker] = s
  BY DEF s
<1>11. Receives(c, s, s2)
  BY <1>1, <1>3, <1>4, <1>6, <1>8, <1>9, <1>7, <1>10 DEF Receives
<1> QED BY <1>1, <1>5, <1>11

LEMMA TInvReceive ==
  ASSUME TInv, NEW c \in Conns, NEW page \in Pages, NEW idle \in BOOLEAN, Receive(c, page, idle)
  PROVE  TInv'
<1>1. PICK s \in Sessions, t \in Sessions : Receives(c, s, t)
  BY ReceiveEffect
<1> DEFINE w == conn[c].worker
<1> USE DEF TInv, Receives
<1>2. /\ messages < MaxMessages /\ messages' = messages + 1 /\ messages \in Nat
      /\ conn[c].pc = "open" /\ t # None
      /\ UNCHANGED <<registered, saved, gone, answered, orderly>>
  <2>1. /\ messages < MaxMessages /\ messages' = messages + 1 /\ conn[c].pc = "open"
        /\ UNCHANGED <<registered, saved, gone, answered, orderly>>
    BY Zenon DEF Receive
  <2>2. messages \in Nat /\ t # None
    BY ConversationAssumption, NoneIsNoSession DEF TypeOK
  <2> QED BY <2>1, <2>2
<1>3. w \in Workers
  BY <1>2 DEF Placed
<1>4. /\ conn'[c].pc = "turn" /\ conn'[c].worker = w /\ conn'[c].id = t.counter
      /\ \A d \in Conns : d # c => conn'[d] = conn[d]
  BY <1>1 DEF TypeOK
<1>5. TypeOK'
  <2>1. conn' \in [Conns -> ConnRecords]
    <3>1. conn \in [Conns -> ConnRecords]
      BY DEF TypeOK, ConnRecords
    <3>2. t.counter \in 0..MaxMessages
      BY <1>1, ConversationAssumption DEF Ids
    <3> QED BY <1>1, <3>1, <3>2, ConnSteps
  <2>2. received' \in [Ids -> Seq(1..MaxMessages)]
    <3>1. received \in [Ids -> Seq(1..MaxMessages)]
      BY DEF TypeOK
    <3> QED BY <1>1, <3>1, Logged
  <2>3. ended' \in [Ids -> Seq([turns : 0..MaxMessages, state : TerminalStates])]
    <3>1. [turns |-> s.turns, state |-> "navigated"] \in [turns : 0..MaxMessages, state : TerminalStates]
      BY DEF TerminalStates, Sessions
    <3>2. ended \in [Ids -> Seq([turns : 0..MaxMessages, state : TerminalStates])]
      BY DEF TypeOK
    <3>3. CASE ended' = ended
      BY <3>2, <3>3
    <3>4. CASE ended' # ended
      <4>1. PICK e \in [turns : 0..MaxMessages, state : TerminalStates] :
              ended' = [ended EXCEPT ![s.counter] = Append(@, e)]
        BY <1>1, <3>1, <3>4 DEF Same, Opened, Emit
      <4> QED BY <3>2, <4>1, Logged
    <3> QED BY <3>3, <3>4
  <2>4. session' \in [Workers -> Sessions \cup {None}]
    BY <1>1 DEF TypeOK
  <2>5. messages' \in 0..MaxMessages
    BY <1>2, ConversationAssumption
  <2>6. overlapped' \in BOOLEAN
    BY DEF Receive, TypeOK, OthersTurn
  <2> QED BY <1>2, <2>1, <2>2, <2>3, <2>4, <2>5, <2>6 DEF TypeOK, ConnRecords
<1>6. ConnsInOrder'
  BY <1>2, <1>4 DEF ConnsInOrder
<1>7. Placed'
  BY <1>1, <1>2, <1>4, <1>3 DEF Placed, Live, TypeOK
<1>8. Counted'
  <2>1. \A x \in Sessions : Counts(x, messages) => Counts(x, messages')
    BY <1>2, ConversationAssumption DEF Counts, Sessions
  <2> QED BY <1>1, <1>2, <1>4, <1>3, <2>1 DEF Counted, TypeOK
<1> QED BY <1>5, <1>6, <1>7, <1>8

LEMMA TInvTurnEnds ==
  ASSUME TInv, NEW c \in Conns, NEW answer \in BOOLEAN, TurnEnds(c, answer)
  PROVE  TInv'
<1> USE DEF TInv
<1> DEFINE w == conn[c].worker
           s == session[w]
           x == IF answer /\ ~conn[c].orphan THEN [s EXCEPT !.responded = TRUE] ELSE s
<1>1. /\ w \in Workers /\ s \in Sessions /\ Counts(s, messages)
      /\ conn[c].pc = "turn" /\ conn[c].id \in Ids
  BY DEF TurnEnds, Placed, Live, TypeOK, Counted
<1>2. x \in Sessions /\ Counts(x, messages)
  <2>1. /\ [s EXCEPT !.responded = TRUE] \in Sessions
        /\ [s EXCEPT !.responded = TRUE].counter = s.counter
        /\ [s EXCEPT !.responded = TRUE].turns = s.turns
        /\ [s EXCEPT !.responded = TRUE].started = s.started
    BY <1>1 DEF Sessions
  <2> QED BY <1>1, <2>1 DEF Counts
<1>3. SaveSession(w, x)
  BY DEF TurnEnds
<1> HIDE DEF x
<1>4. /\ session' \in [Workers -> Sessions \cup {None}]
      /\ saved' \in Sessions \cup {None}
      /\ orderly' \in BOOLEAN
      /\ \A v \in Workers : session[v] # None => session'[v] # None
      /\ \A v \in Workers : session'[v] # None => Counts(session'[v], messages)
      /\ saved' # None => Counts(saved', messages)
  BY <1>1, <1>2, <1>3, SaveCounts
<1>5. /\ conn' = [conn EXCEPT ![c] = [[conn[c] EXCEPT !.pc = "open"] EXCEPT !.orphan = FALSE]]
      /\ answered' \subseteq answered \cup {conn[c].id}
      /\ UNCHANGED <<registered, gone, received, ended, messages, overlapped>>
  BY DEF TurnEnds
<1>6. /\ conn'[c].pc = "open" /\ conn'[c].worker = w
      /\ \A d \in Conns : d # c => conn'[d] = conn[d]
  BY <1>5 DEF TypeOK
<1>7. TypeOK'
  <2>1. conn' \in [Conns -> ConnRecords]
    <3>1. conn \in [Conns -> ConnRecords]
      BY DEF TypeOK, ConnRecords
    <3> QED BY <1>5, <3>1, ConnSteps
  <2> QED BY <1>1, <1>4, <1>5, <2>1 DEF TypeOK, ConnRecords
<1>8. ConnsInOrder'
  BY <1>1, <1>6 DEF ConnsInOrder
<1>9. Placed'
  BY <1>1, <1>4, <1>6 DEF Placed, Live
<1>10. Counted'
  BY <1>4, <1>5, <1>6 DEF Counted
<1> QED BY <1>7, <1>8, <1>9, <1>10

LEMMA TInvCleanup ==
  ASSUME TInv, NEW c \in Conns, NEW error \in BOOLEAN, Cleanup(c, error)
  PROVE  TInv'
<1> USE DEF TInv
<1> DEFINE w == conn[c].worker
           s == session[w]
           x == IF s.turns > 0 THEN Reset(s) ELSE s
<1>1. w \in Workers /\ s \in Sessions /\ Counts(s, messages) /\ conn[c].pc = "open"
  BY DEF Cleanup, Placed, Live, TypeOK, Counted
<1>2. x \in Sessions /\ Counts(x, messages)
  <2>1. /\ Reset(s) \in Sessions
        /\ Reset(s).counter = s.counter /\ Reset(s).turns = 0 /\ ~Reset(s).started
    <3>1. ASSUME NEW n \in 0..MaxMessages
          PROVE  LET t == [s EXCEPT !.turns = n, !.responded = FALSE, !.started = FALSE]
                 IN  t \in Sessions /\ t.counter = s.counter /\ t.turns = n /\ ~t.started
      BY <1>1 DEF Sessions
    <3>2. 0 \in 0..MaxMessages
      BY ConversationAssumption
    <3> QED BY <3>1, <3>2 DEF Reset
  <2>2. 0 <= messages
    BY ConversationAssumption DEF TypeOK
  <2> QED BY <1>1, <2>1, <2>2 DEF Counts
<1>3. /\ session' \in [Workers -> Sessions \cup {None}]
      /\ saved' \in Sessions \cup {None}
      /\ orderly' \in BOOLEAN
      /\ \A v \in Workers : session[v] # None => session'[v] # None
      /\ \A v \in Workers : session'[v] # None => Counts(session'[v], messages)
      /\ saved' # None => Counts(saved', messages)
  <2>1. CASE Owns(c)
    <3>1. SaveSession(w, x)
      BY <2>1 DEF Cleanup
    <3> HIDE DEF x
    <3> QED BY <1>1, <1>2, <3>1, SaveCounts
  <2>2. CASE ~Owns(c)
    BY <2>2 DEF Cleanup, TypeOK, Counted
  <2> QED BY <2>1, <2>2
<1>4. /\ conn' = [conn EXCEPT ![c] = [conn[c] EXCEPT !.pc = "over"]]
      /\ gone' = gone \cup {c}
      /\ registered' = registered \/ registered' = [registered EXCEPT ![w] = None]
      /\ overlapped' \in BOOLEAN
      /\ \/ ended' = ended
         \/ ended' = [ended EXCEPT ![s.counter] =
                        Append(@, [turns |-> s.turns, state |-> TerminalState(s, error)])]
      /\ UNCHANGED <<received, answered, messages>>
  BY DEF Cleanup, Emit, OthersTurn, TypeOK
<1>5. /\ conn'[c].pc = "over" /\ conn'[c].worker = w
      /\ \A d \in Conns : d # c => conn'[d] = conn[d]
  BY <1>4 DEF TypeOK
<1>6. TypeOK'
  <2>1. conn' \in [Conns -> ConnRecords]
    <3>1. conn \in [Conns -> ConnRecords]
      BY DEF TypeOK, ConnRecords
    <3> QED BY <1>4, <3>1, ConnSteps
  <2>2. ended' \in [Ids -> Seq([turns : 0..MaxMessages, state : TerminalStates])]
    <3>1. TerminalState(s, error) \in TerminalStates
      BY DEF TerminalState, TerminalStates
    <3>2. [turns |-> s.turns, state |-> TerminalState(s, error)]
            \in [turns : 0..MaxMessages, state : TerminalStates]
      BY <1>1, <3>1 DEF Sessions
    <3>3. ended \in [Ids -> Seq([turns : 0..MaxMessages, state : TerminalStates])]
      BY DEF TypeOK
    <3>4. CASE ended' = ended
      BY <3>3, <3>4
    <3>5. CASE ended' # ended
      <4>1. PICK e \in [turns : 0..MaxMessages, state : TerminalStates] :
              ended' = [ended EXCEPT ![s.counter] = Append(@, e)]
        BY <1>4, <3>2, <3>5
      <4> HIDE DEF s
      <4> QED BY <3>3, <4>1, Logged
    <3> QED BY <3>4, <3>5
  <2>3. registered' \in [Workers -> Conns \cup {None}]
    BY <1>1, <1>4 DEF TypeOK
  <2> QED BY <1>3, <1>4, <2>1, <2>2, <2>3 DEF TypeOK, ConnRecords
<1>7. ConnsInOrder'
  BY <1>1, <1>5 DEF ConnsInOrder
<1>8. Placed'
  BY <1>1, <1>3, <1>5 DEF Placed, Live
<1>9. Counted'
  BY <1>3, <1>4, <1>5 DEF Counted
<1> QED BY <1>6, <1>7, <1>8, <1>9

LEMMA TInvCrash ==
  ASSUME TInv, NEW w \in Workers, Crash(w)
  PROVE  TInv'
<1> USE DEF TInv
<1>1. /\ conn' = [c \in Conns |->
           IF conn[c].worker = w THEN [conn[c] EXCEPT !.pc = "over"] ELSE conn[c]]
      /\ session' = [session EXCEPT ![w] = None]
      /\ registered' = [registered EXCEPT ![w] = None]
      /\ gone' \subseteq Conns
      /\ UNCHANGED <<saved, received, ended, answered, messages, overlapped>>
  BY DEF Crash, history, TypeOK
<1>2. /\ \A c \in Conns : conn'[c].worker = conn[c].worker /\ conn'[c].id = conn[c].id
      /\ \A c \in Conns : conn[c].worker # w => conn'[c] = conn[c]
      /\ \A c \in Conns : conn[c].worker = w => conn'[c].pc = "over"
  BY <1>1 DEF TypeOK
<1>3. TypeOK'
  <2>1. conn' \in [Conns -> ConnRecords]
    <3>1. conn \in [Conns -> ConnRecords]
      BY DEF TypeOK, ConnRecords
    <3> QED BY <1>1, <3>1, ConnSteps
  <2>2. orderly' \in BOOLEAN
    BY DEF Crash, TypeOK
  <2> QED BY <1>1, <2>1, <2>2 DEF TypeOK, ConnRecords
<1>4. ConnsInOrder'
  BY <1>2, ConversationAssumption DEF ConnsInOrder, Placed
<1>5. Placed'
  BY <1>1, <1>2, ConversationAssumption DEF Placed, Live, TypeOK
<1>6. Counted'
  BY <1>1, <1>2 DEF Counted, TypeOK
<1> QED BY <1>3, <1>4, <1>5, <1>6

LEMMA TInvStep ==
  ASSUME TInv, [Next]_vars
  PROVE  TInv'
<1>1. ASSUME NEW c \in Conns, ClientLeaves(c)
      PROVE  TInv'
  BY <1>1 DEF TInv, ClientLeaves, history, TypeOK, ConnsInOrder, Placed, Counted, Live
<1>2. ASSUME NEW c \in Conns, OtherMessage(c)
      PROVE  TInv'
  <2>1. /\ conn[c].worker \in Workers /\ session[conn[c].worker] \in Sessions
        /\ Counts(session[conn[c].worker], messages)
    BY <1>2 DEF TInv, OtherMessage, Placed, Live, TypeOK, Counted
  <2>2. /\ session' \in [Workers -> Sessions \cup {None}]
        /\ saved' \in Sessions \cup {None}
        /\ orderly' \in BOOLEAN
        /\ \A v \in Workers : session[v] # None => session'[v] # None
        /\ \A v \in Workers : session'[v] # None => Counts(session'[v], messages)
        /\ saved' # None => Counts(saved', messages)
    <3>1. SaveSession(conn[c].worker, session[conn[c].worker])
      BY <1>2 DEF OtherMessage
    <3> QED BY <2>1, <3>1, SaveCounts DEF TInv
  <2>3. UNCHANGED <<registered, conn, gone, received, ended, answered, messages, overlapped>>
    BY <1>2 DEF OtherMessage, history
  <2> QED BY <2>2, <2>3 DEF TInv, TypeOK, ConnsInOrder, Placed, Counted, Live
<1>3. CASE Expire
  BY <1>3 DEF TInv, Expire, history, TypeOK, ConnsInOrder, Placed, Counted, Live
<1>4. CASE UNCHANGED vars
  BY <1>4 DEF TInv, vars, TypeOK, ConnsInOrder, Placed, Counted, Live
<1> QED BY <1>1, <1>2, <1>3, <1>4, TInvConnect, TInvReceive, TInvTurnEnds, TInvCleanup, TInvCrash
        DEF Next

(* The registry, the copies, the connections and the log have their types, *)
(* whatever is lost, refused or late.                                      *)
THEOREM TypeCorrect == Spec => []TypeOK
<1>1. TInv => TypeOK
  BY DEF TInv
<1> QED BY <1>1, TInvInit, TInvStep, PTL DEF Spec

(***************************************************************************)
(* The newest connection of a worker.                                      *)
(***************************************************************************)
RInv == TInv /\ NewestIsRegistered

LEMMA RInvStep ==
  ASSUME RInv, [Next]_vars
  PROVE  RInv'
<1> USE DEF RInv
<1>0. TInv'
  BY TInvStep
<1>1. ASSUME NEW c \in Conns, NEW w \in Workers, Connect(c, w)
      PROVE  NewestIsRegistered'
  <2>1. /\ conn'[c].worker = w /\ registered' = [registered EXCEPT ![w] = c] /\ conn[c].pc = "new"
        /\ \A d \in Conns : d # c => conn'[d].pc = conn[d].pc /\ conn'[d].worker = conn[d].worker
    BY <1>1 DEF Connect, NewConn, TInv, TypeOK
  <2>2. \A d \in Conns : d > c => conn[d].pc = "new" /\ conn[d].worker = None
    BY <2>1 DEF TInv, ConnsInOrder, Placed, Conns
  <2>3. conn[c].worker = None
    BY <2>1 DEF TInv, Placed
  <2> SUFFICES ASSUME NEW e \in Conns, Live(e)',
                      \A d \in Conns : d > e => conn'[d].worker # conn'[e].worker
               PROVE  registered'[conn'[e].worker] = e
    BY DEF NewestIsRegistered
  <2>4. CASE e = c
    BY <2>1, <2>4 DEF TInv, TypeOK
  <2>5. CASE e # c
    <3>1. Live(e) /\ e < c /\ conn'[e].worker = conn[e].worker
      BY <2>1, <2>2, <2>5 DEF Live, Conns
    <3>2. conn[e].worker # w /\ conn[e].worker \in Workers
      BY <2>1, <3>1 DEF Live, TInv, Placed, Conns
    <3>3. registered[conn[e].worker] = e
      BY <2>1, <2>3, <3>1, <3>2, ConversationAssumption DEF NewestIsRegistered
    <3> QED BY <2>1, <3>1, <3>2, <3>3 DEF TInv, TypeOK
  <2> QED BY <2>4, <2>5
<1>2. ASSUME NEW c \in Conns, NEW page \in Pages, NEW idle \in BOOLEAN, Receive(c, page, idle)
      PROVE  NewestIsRegistered'
  <2>1. /\ registered' = registered /\ conn[c].pc = "open"
        /\ \A d \in Conns : conn'[d].worker = conn[d].worker /\ (d # c => conn'[d] = conn[d])
    BY <1>2 DEF Receive, TInv, TypeOK
  <2> QED BY <2>1 DEF NewestIsRegistered, Live
<1>3. ASSUME NEW c \in Conns, NEW answer \in BOOLEAN, TurnEnds(c, answer)
      PROVE  NewestIsRegistered'
  <2>1. /\ registered' = registered /\ conn[c].pc = "turn"
        /\ \A d \in Conns : conn'[d].worker = conn[d].worker /\ (d # c => conn'[d] = conn[d])
    BY <1>3 DEF TurnEnds, TInv, TypeOK
  <2> QED BY <2>1 DEF NewestIsRegistered, Live
<1>4. ASSUME NEW c \in Conns, NEW error \in BOOLEAN, Cleanup(c, error)
      PROVE  NewestIsRegistered'
  <2>1. /\ conn'[c].pc = "over" /\ conn[c].pc = "open"
        /\ \A d \in Conns : conn'[d].worker = conn[d].worker /\ (d # c => conn'[d] = conn[d])
        /\ \/ registered' = registered
           \/ /\ registered[conn[c].worker] = c
              /\ registered' = [registered EXCEPT ![conn[c].worker] = None]
    BY <1>4 DEF Cleanup, Owns, TInv, TypeOK
  <2> SUFFICES ASSUME NEW e \in Conns, Live(e)',
                      \A d \in Conns : d > e => conn'[d].worker # conn'[e].worker
               PROVE  registered'[conn'[e].worker] = e
    BY DEF NewestIsRegistered
  <2>2. e # c /\ Live(e) /\ conn'[e].worker = conn[e].worker /\ conn[e].worker \in Workers
    BY <2>1 DEF Live, TInv, Placed
  <2>3. registered[conn[e].worker] = e
    BY <2>1, <2>2 DEF NewestIsRegistered
  <2> QED BY <2>1, <2>2, <2>3 DEF TInv, TypeOK
<1>5. ASSUME NEW w \in Workers, Crash(w)
      PROVE  NewestIsRegistered'
  <2>1. /\ registered' = [registered EXCEPT ![w] = None]
        /\ \A c \in Conns : conn'[c].worker = conn[c].worker
        /\ \A c \in Conns : conn[c].worker # w => conn'[c] = conn[c]
        /\ \A c \in Conns : conn[c].worker = w => conn'[c].pc = "over"
    BY <1>5 DEF Crash, TInv, TypeOK
  <2> SUFFICES ASSUME NEW e \in Conns, Live(e)',
                      \A d \in Conns : d > e => conn'[d].worker # conn'[e].worker
               PROVE  registered'[conn'[e].worker] = e
    BY DEF NewestIsRegistered
  <2>2. conn[e].worker # w /\ Live(e) /\ conn[e].worker \in Workers
    BY <2>1 DEF Live, TInv, Placed
  <2>3. registered[conn[e].worker] = e
    BY <2>1, <2>2 DEF NewestIsRegistered
  <2> QED BY <2>1, <2>2, <2>3 DEF TInv, TypeOK
<1>6. ASSUME UNCHANGED <<registered, conn>>
      PROVE  NewestIsRegistered'
  BY <1>6 DEF NewestIsRegistered, Live
<1> QED BY <1>0, <1>1, <1>2, <1>3, <1>4, <1>5, <1>6
        DEF Next, ClientLeaves, OtherMessage, Expire, vars

(* disconnect: however late older connections are cleaned up, the newest   *)
(* one of a worker stays registered until its own clean-up, for any number *)
(* of connections and whatever fails.                                      *)
THEOREM NewestStaysRegistered == Spec => []NewestIsRegistered
<1>1. Init => RInv
  BY TInvInit DEF RInv, Init, NewestIsRegistered, Live, NewConn
<1>2. RInv => NewestIsRegistered
  BY DEF RInv
<1> QED BY <1>1, <1>2, RInvStep, PTL DEF Spec

(***************************************************************************)
(* The log of an orderly visit.                                            *)
(***************************************************************************)
\* The copy in Redis, or what a connect makes up without one.
Base == IF saved = None THEN NewSession ELSE saved

InTurn(w) == \E c \in Conns : conn[c].pc = "turn" /\ conn[c].worker = w

OneWorker ==
  \A c, d \in Conns : Live(c) /\ Live(d) => conn[c].worker = conn[d].worker

\* No copy is ahead of Redis, and one that is level and not in use is equal.
CopiesAgree ==
  /\ \A w \in Workers : session[w] # None =>
       /\ session[w].rev <= Base.rev
       /\ session[w].rev = Base.rev => InTurn(w) \/ session[w] = Base
  /\ \A c \in Conns : Live(c) => session[conn[c].worker].rev = Base.rev

\* The counters of a copy are those of the log.
Fits(s) ==
  /\ \A i \in Ids : i > s.counter => received[i] = <<>> /\ ended[i] = <<>>
  /\ s.started => /\ s.turns > 0
                  /\ ended[s.counter] = <<>>
                  /\ s.turns = Len(received[s.counter])
  /\ ~s.started => s.turns = 0
  /\ s.started /\ s.responded => overlapped \/ s.counter \in answered

CurrentFits ==
  /\ (\A w \in Workers : ~InTurn(w)) => Fits(Base)
  /\ \A w \in Workers : InTurn(w) => Fits(session[w])

\* A turn knows its conversation, unless it met another connection's.
TurnsFit ==
  \A c \in Conns : conn[c].pc = "turn" =>
    /\ ~conn[c].orphan
    /\ \/ overlapped
       \/ /\ conn[c].id = session[conn[c].worker].counter
          /\ \A d \in Conns \ {c} : conn[d].pc # "turn"

\* What the log has of one conversation is right.
EndsRight(i, e) ==
  /\ e.turns = Len(received[i])
  /\ e.state = "inactive_end" => i \in answered \/ overlapped

LogTrue(i) ==
  /\ ended[i] = <<>> \/ \E e \in [turns : 0..MaxMessages, state : TerminalStates] :
                          ended[i] = <<e>> /\ EndsRight(i, e)
  /\ \A n \in 1..Len(received[i]) : received[i][n] = n

OInv == OneWorker /\ CopiesAgree /\ CurrentFits /\ TurnsFit /\ \A i \in Ids : LogTrue(i)

LInv == TInv /\ (orderly => OInv)

LEMMA LInvInit == Init => LInv
<1> SUFFICES ASSUME Init
             PROVE  OInv
  BY TInvInit DEF LInv
<1>1. \A c \in Conns : conn[c].pc = "new"
  BY DEF Init, NewConn
<1>2. Base = NewSession /\ NewSession.turns = 0 /\ ~NewSession.started
  BY DEF Init, Base, NewSession
<1>3. Fits(Base)
  BY <1>2 DEF Fits, Init
<1>4. OneWorker /\ CopiesAgree /\ CurrentFits /\ TurnsFit
  BY <1>1, <1>3 DEF OneWorker, CopiesAgree, CurrentFits, TurnsFit, Live, InTurn, Init
<1>5. \A i \in Ids : LogTrue(i)
  BY DEF Init, LogTrue
<1> QED BY <1>4, <1>5 DEF OInv

(* The copy at the end of a live connection is the one the log agrees with.*)
LEMMA LiveFits ==
  ASSUME TInv, OInv, NEW c \in Conns, Live(c)
  PROVE  /\ conn[c].worker \in Workers
         /\ session[conn[c].worker] \in Sessions
         /\ Fits(session[conn[c].worker])
<1>1. conn[c].worker \in Workers /\ session[conn[c].worker] \in Sessions
  BY DEF TInv, TypeOK, Placed, Live
<1>2. CASE InTurn(conn[c].worker)
  BY <1>1, <1>2 DEF OInv, CurrentFits
<1>3. CASE ~InTurn(conn[c].worker)
  <2>1. \A w \in Workers : ~InTurn(w)
    BY <1>3 DEF OInv, OneWorker, InTurn, Live
  <2>2. session[conn[c].worker] = Base
    BY <1>1, <1>3, NoneIsNoSession DEF OInv, CopiesAgree
  <2> QED BY <1>1, <2>1, <2>2 DEF OInv, CurrentFits
<1> QED BY <1>1, <1>2, <1>3

LEMMA LogConnect ==
  ASSUME TInv, OInv, NEW c \in Conns, NEW w \in Workers, Connect(c, w), orderly'
  PROVE  OInv'
<1>1. /\ conn'[c].pc = "open" /\ conn'[c].worker = w /\ conn[c].pc = "new"
      /\ \A d \in Conns : d # c => /\ conn'[d].pc = conn[d].pc /\ conn'[d].worker = conn[d].worker
                                   /\ conn'[d].id = conn[d].id
      /\ KeepsLocal(w) => \A d \in Conns : d # c => conn'[d].orphan = conn[d].orphan
  BY DEF Connect, NewConn, TInv, TypeOK
<1>2. \A d \in Conns : Live(d) => conn[d].worker = w
  BY DEF Connect
<1>3. /\ session' = [session EXCEPT ![w] = Adopted(w)]
      /\ UNCHANGED <<saved, received, ended, answered, messages, overlapped>>
  BY DEF Connect, history
<1>4. /\ Base \in Sessions
      /\ \A v \in Workers : session[v] \in Sessions \cup {None}
  BY ConversationAssumption DEF Base, NewSession, Sessions, TInv, TypeOK
<1>5. \A v \in Workers : InTurn(v)' <=> InTurn(v)
  BY <1>1 DEF InTurn
<1>6. OneWorker'
  BY <1>1, <1>2 DEF OneWorker, Live
<1>7. CASE KeepsLocal(w)
  <2>1. session[w] # None /\ session[w].rev = Base.rev /\ session' = session
    <3>1. session[w] # None /\ session[w].rev <= Base.rev
      BY <1>7 DEF KeepsLocal, OInv, CopiesAgree
    <3>2. session[w].rev >= Base.rev
      BY <1>4, <1>7, <3>1 DEF KeepsLocal, Base, NewSession, Sessions
    <3>3. session' = session
      BY <1>3, <1>7 DEF Adopted, TInv, TypeOK
    <3> QED BY <1>4, <3>1, <3>2, <3>3 DEF Sessions
  <2>2. CopiesAgree'
    BY <1>1, <1>3, <1>5, <2>1 DEF OInv, CopiesAgree, Base, Live
  <2>3. CurrentFits'
    BY <1>3, <1>5, <2>1 DEF OInv, CurrentFits, Base, Fits
  <2>4. TurnsFit'
    BY <1>1, <1>3, <1>7, <2>1 DEF OInv, TurnsFit
  <2>5. \A i \in Ids : LogTrue(i)'
    BY <1>3 DEF OInv, LogTrue, EndsRight
  <2> QED BY <1>6, <2>2, <2>3, <2>4, <2>5 DEF OInv
<1>8. CASE ~KeepsLocal(w)
  <2>1. Adopted(w) = Base
    BY <1>8 DEF Adopted, Base
  <2>2. \A d \in Conns : ~Live(d)
    <3> SUFFICES ASSUME NEW d \in Conns, Live(d)
                 PROVE  FALSE
      OBVIOUS
    <3>1. conn[d].worker = w /\ session[w] # None /\ session[w].rev = Base.rev
      BY <1>2 DEF OInv, CopiesAgree, TInv, Placed
    <3> QED BY <1>4, <1>8, <3>1 DEF KeepsLocal, Base, Sessions
  <2>3. \A v \in Workers : ~InTurn(v)
    BY <2>2 DEF InTurn, Live
  <2>4. CopiesAgree'
    <3>1. Base' = Base /\ Base.rev <= Base.rev
      BY <1>3, <1>4 DEF Base, Sessions
    <3>2. session'[w] = Base /\ \A v \in Workers : v # w => session'[v] = session[v]
      BY <1>3, <2>1 DEF TInv, TypeOK
    <3>3. \A d \in Conns : Live(d)' => d = c
      BY <1>1, <2>2 DEF Live
    <3>4. \A v \in Workers : session[v] # None =>
            session[v].rev <= Base.rev /\ (session[v].rev = Base.rev => session[v] = Base)
      BY <2>3 DEF OInv, CopiesAgree
    <3>5. \A v \in Workers : session'[v] # None =>
            session'[v].rev <= Base.rev /\ (session'[v].rev = Base.rev => session'[v] = Base)
      BY <3>1, <3>2, <3>4
    <3> QED BY <1>1, <3>1, <3>2, <3>3, <3>5 DEF CopiesAgree
  <2>5. CurrentFits'
    BY <1>3, <1>5, <2>3 DEF OInv, CurrentFits, Base, Fits
  <2>6. TurnsFit'
    BY <1>1, <2>2 DEF TurnsFit, Live
  <2>7. \A i \in Ids : LogTrue(i)'
    BY <1>3 DEF OInv, LogTrue, EndsRight
  <2> QED BY <1>6, <2>4, <2>5, <2>6, <2>7 DEF OInv
<1> QED BY <1>7, <1>8

LEMMA LogReceive ==
  ASSUME TInv, OInv, NEW c \in Conns, NEW page \in Pages, NEW idle \in BOOLEAN,
         Receive(c, page, idle)
  PROVE  OInv'
<1>0. PICK w \in Workers : w = conn[c].worker
  BY LiveFits DEF Receive, Live
<1>1. PICK s \in Sessions, t \in Sessions : Receives(c, s, t)
  BY ReceiveEffect
<1>2. /\ conn[c].pc = "open" /\ Live(c)
      /\ overlapped' = (overlapped \/ OthersTurn(c))
      /\ UNCHANGED <<saved, answered>>
  BY DEF Receive, Live
<1>3. session[w] = s /\ Fits(s)
  BY <1>0, <1>1, <1>2, LiveFits DEF Receives
<1>4. session' = [session EXCEPT ![w] = t] /\ t.rev = s.rev /\ t # None /\ session'[w] = t
  BY <1>0, <1>1, <1>3, NoneIsNoSession DEF Receives, TInv, TypeOK
<1>5. /\ conn'[c].pc = "turn" /\ conn'[c].worker = w /\ conn'[c].id = t.counter /\ ~conn'[c].orphan
      /\ \A d \in Conns : d # c => conn'[d] = conn[d]
  BY <1>0, <1>1 DEF Receives, TInv, TypeOK
<1>6. \A d \in Conns : Live(d)' <=> Live(d)
  BY <1>2, <1>5 DEF Live
<1>7. OneWorker'
  BY <1>0, <1>5, <1>6 DEF OInv, OneWorker
<1>8. CopiesAgree'
  <2>1. Base' = Base /\ s.rev = Base.rev /\ s # None
    BY <1>0, <1>2, <1>3, NoneIsNoSession DEF Base, OInv, CopiesAgree
  <2>2. InTurn(w)' /\ \A v \in Workers : v # w => (InTurn(v)' <=> InTurn(v))
    BY <1>0, <1>5 DEF InTurn
  <2>3. \A v \in Workers : v # w => session'[v] = session[v]
    BY <1>4 DEF TInv, TypeOK
  <2>4. \A v \in Workers : session'[v] # None =>
          /\ session'[v].rev <= Base.rev
          /\ session'[v].rev = Base.rev => InTurn(v)' \/ session'[v] = Base
    <3>1. s.rev <= Base.rev
      BY <1>3, <2>1 DEF OInv, CopiesAgree
    <3>2. ASSUME NEW v \in Workers, v # w, session[v] # None
          PROVE  /\ session[v].rev <= Base.rev
                 /\ session[v].rev = Base.rev => InTurn(v) \/ session[v] = Base
      BY <3>2 DEF OInv, CopiesAgree
    <3> QED BY <1>4, <2>2, <2>3, <3>1, <3>2
  <2>5. \A d \in Conns : Live(d) => conn[d].worker = w /\ conn'[d].worker = w
    BY <1>0, <1>2, <1>5 DEF OInv, OneWorker
  <2> QED BY <1>4, <1>6, <2>1, <2>4, <2>5 DEF CopiesAgree
<1>9. /\ received \in [Ids -> Seq(1..MaxMessages)]
      /\ ended \in [Ids -> Seq([turns : 0..MaxMessages, state : TerminalStates])]
      /\ t.counter \in Ids /\ t.turns \in 1..MaxMessages /\ t.started
      /\ received' = [received EXCEPT ![t.counter] = Append(@, t.turns)]
      /\ s.counter \in Nat /\ s.turns \in Nat
  <2>1. s.counter \in 0..MaxMessages /\ s.turns \in 0..MaxMessages
    BY DEF Sessions
  <2>2. s.counter \in Nat /\ s.turns \in Nat
    BY <2>1, ConversationAssumption
  <2>3. t.counter \in Ids /\ t.turns \in 1..MaxMessages /\ t.started
    BY <1>1 DEF Receives
  <2>4. received' = [received EXCEPT ![t.counter] = Append(@, t.turns)]
    BY <1>1 DEF Receives
  <2> QED BY <2>2, <2>3, <2>4 DEF TInv, TypeOK
<1>10. \A i \in Ids : i # t.counter => received'[i] = received[i]
  BY <1>9
<1>11. ended[t.counter] = <<>> /\ ended'[t.counter] = <<>> /\ t.turns = Len(received[t.counter]) + 1
  <2>1. CASE Same(s, t)
    BY <1>3, <1>9, <2>1 DEF Same, Fits
  <2>2. CASE Opened(s, t)
    <3>1. t.counter > s.counter /\ t.turns = 1
      BY <1>9, <2>2 DEF Opened
    <3>2. received[t.counter] = <<>> /\ ended[t.counter] = <<>>
      BY <1>3, <1>9, <3>1 DEF Fits
    <3>3. ended'[t.counter] = ended[t.counter]
      BY <1>9, <2>2, <3>1 DEF Opened, Emit
    <3> QED BY <3>1, <3>2, <3>3
  <2> QED BY <1>1, <2>1, <2>2 DEF Receives
<1>12. /\ received'[t.counter] = Append(received[t.counter], t.turns)
       /\ Len(received'[t.counter]) = t.turns
       /\ \A n \in 1..Len(received'[t.counter]) :
            received'[t.counter][n] = IF n = t.turns THEN t.turns ELSE received[t.counter][n]
  <2>1. received[t.counter] \in Seq(1..MaxMessages)
    BY <1>9
  <2>2. received'[t.counter] = Append(received[t.counter], t.turns)
    BY <1>9
  <2> QED BY <1>9, <1>11, <2>1, <2>2
<1>13. CurrentFits'
  <2>1. Fits(t)'
    <3>1. ASSUME NEW i \in Ids, i > t.counter
          PROVE  received'[i] = <<>> /\ ended'[i] = <<>>
      <4>1. i > s.counter /\ i # t.counter /\ i # s.counter
        BY <1>1, <1>9, <3>1 DEF Receives, Same, Opened, Ids
      <4>2. ended'[i] = ended[i]
        BY <1>1, <1>9, <4>1 DEF Receives, Same, Opened, Emit
      <4> QED BY <1>3, <1>10, <4>1, <4>2 DEF Fits
    <3>2. t.responded => overlapped' \/ t.counter \in answered'
      BY <1>1, <1>2, <1>3 DEF Receives, Same, Opened, Fits
    <3> QED BY <1>9, <1>11, <1>12, <3>1, <3>2 DEF Fits
  <2>2. InTurn(w)' /\ \A v \in Workers : InTurn(v)' => v = w
    BY <1>5, <1>7, <1>6 DEF InTurn, OneWorker, Live
  <2>3. \A v \in Workers : InTurn(v)' => session'[v] = t
    BY <1>4, <2>2
  <2>4. ~\A v \in Workers : ~InTurn(v)'
    BY <2>2
  <2>5. ASSUME NEW v \in Workers, InTurn(v)'
        PROVE  Fits(session[v])'
    BY <2>1, <2>3, <2>5 DEF Fits
  <2> QED BY <2>4, <2>5 DEF CurrentFits
<1>14. TurnsFit'
  <2> SUFFICES ASSUME NEW d \in Conns, conn'[d].pc = "turn"
               PROVE  /\ ~conn'[d].orphan
                      /\ \/ overlapped'
                         \/ /\ conn'[d].id = session'[conn'[d].worker].counter
                            /\ \A e \in Conns \ {d} : conn'[e].pc # "turn"
    BY DEF TurnsFit
  <2>1. \A e \in Conns : e # c /\ conn[e].pc = "turn" => overlapped'
    BY <1>0, <1>2 DEF OInv, OneWorker, OthersTurn, Live
  <2>2. CASE d = c
    BY <1>4, <1>5, <2>1, <2>2
  <2>3. CASE d # c
    BY <1>5, <2>1, <2>3 DEF OInv, TurnsFit
  <2> QED BY <2>2, <2>3
<1>15. ASSUME NEW i \in Ids
       PROVE  LogTrue(i)'
  <2>1. LogTrue(i)
    BY DEF OInv
  <2>2. \A n \in 1..Len(received'[i]) : received'[i][n] = n
    <3>1. CASE i = t.counter
      <4>1. \A n \in 1..Len(received[i]) : received[i][n] = n
        BY <2>1 DEF LogTrue
      <4>2. Len(received[i]) \in Nat
        BY <1>9
      <4> QED BY <1>11, <1>12, <3>1, <4>1, <4>2
    <3>2. CASE i # t.counter
      BY <1>10, <2>1, <3>2 DEF LogTrue
    <3> QED BY <3>1, <3>2
  <2>3. CASE i = t.counter
    BY <1>11, <2>2, <2>3 DEF LogTrue
  <2>4. CASE i # t.counter /\ ended'[i] = ended[i]
    <3>1. \A e : EndsRight(i, e) => EndsRight(i, e)'
      BY <1>2, <1>10, <2>4 DEF EndsRight
    <3> QED BY <2>1, <2>2, <2>4, <3>1 DEF LogTrue
  <2>5. CASE i # t.counter /\ ended'[i] # ended[i]
    <3> DEFINE e == [turns |-> s.turns, state |-> "navigated"]
    <3>1. s.started /\ i = s.counter /\ ended'[i] = Append(ended[i], e)
      BY <1>1, <1>9, <2>5 DEF Receives, Same, Opened, Emit
    <3>2. ended[i] = <<>> /\ s.turns = Len(received[i])
      BY <1>3, <3>1 DEF Fits
    <3>3. e \in [turns : 0..MaxMessages, state : TerminalStates]
      BY DEF TerminalStates, Sessions
    <3>4. ended'[i] = <<e>>
      BY <3>1, <3>2
    <3>5. EndsRight(i, e)'
      BY <1>10, <2>5, <3>2 DEF EndsRight
    <3> QED BY <2>2, <3>3, <3>4, <3>5 DEF LogTrue
  <2> QED BY <2>3, <2>4, <2>5
<1> QED BY <1>7, <1>8, <1>13, <1>14, <1>15 DEF OInv

(* A save of the live worker: the copies agree on what it leaves.          *)
LEMMA LogSaves ==
  ASSUME TInv, OInv, NEW c \in Conns, Live(c), orderly',
         NEW x \in Sessions, x.rev = session[conn[c].worker].rev,
         SaveSession(conn[c].worker, x),
         \A d \in Conns : conn'[d].worker = conn[d].worker /\ (Live(d)' => Live(d))
  PROVE  \E t \in Sessions :
           /\ session' = [session EXCEPT ![conn[c].worker] = t]
           /\ session'[conn[c].worker] = t /\ Base' = t
           /\ t.counter = x.counter /\ t.turns = x.turns
           /\ t.started = x.started /\ t.responded = x.responded
           /\ OneWorker' /\ CopiesAgree'
<1> DEFINE w == conn[c].worker
<1>1. PICK t \in Sessions :
        /\ session' = [session EXCEPT ![w] = t] /\ saved' = t
        /\ t = [x EXCEPT !.rev = @ + 1]
  <2>1. w \in Workers
    BY LiveFits
  <2>2. TypeOK
    BY DEF TInv
  <2> QED BY <2>1, <2>2, SaveEffect
<1>2. /\ t.counter = x.counter /\ t.turns = x.turns /\ t.rev = x.rev + 1
      /\ t.started = x.started /\ t.responded = x.responded
  BY <1>1 DEF Sessions
<1>3. t # None /\ w \in Workers /\ session[w] \in Sessions
  BY NoneIsNoSession, LiveFits
<1>4. session'[w] = t /\ Base' = t /\ \A v \in Workers : v # w => session'[v] = session[v]
  BY <1>1, <1>3 DEF Base, TInv, TypeOK
<1>5. \A d \in Conns : Live(d) => conn[d].worker = w
  BY DEF OInv, OneWorker
<1>6. OneWorker'
  BY <1>5 DEF OneWorker
<1>7. x.rev = Base.rev /\ x.rev \in Nat /\ t.rev \in Nat
  BY <1>1 DEF OInv, CopiesAgree, Sessions
<1>8. CopiesAgree'
  <2>1. ASSUME NEW v \in Workers, v # w, session'[v] # None
        PROVE  session'[v].rev <= t.rev /\ session'[v].rev # t.rev
    <3>1. session[v] \in Sessions /\ session[v].rev \in Nat
      BY <1>4, <2>1 DEF TInv, TypeOK, Sessions
    <3>2. session[v].rev <= Base.rev
      BY <1>4, <2>1 DEF OInv, CopiesAgree
    <3> QED BY <1>2, <1>4, <1>7, <2>1, <3>1, <3>2
  <2>2. t.rev <= t.rev
    BY <1>7
  <2>3. \A d \in Conns : Live(d)' => session'[conn'[d].worker] = t
    BY <1>4, <1>5
  <2> QED BY <1>4, <2>1, <2>2, <2>3 DEF CopiesAgree
<1> QED BY <1>1, <1>2, <1>4, <1>6, <1>8

LEMMA LogTurnEnds ==
  ASSUME TInv, OInv, NEW c \in Conns, NEW answer \in BOOLEAN, TurnEnds(c, answer), orderly'
  PROVE  OInv'
<1> DEFINE w == conn[c].worker
           s == session[w]
           mine == answer /\ ~conn[c].orphan
           x == IF mine THEN [s EXCEPT !.responded = TRUE] ELSE s
<1>1. /\ conn[c].pc = "turn" /\ Live(c)
      /\ SaveSession(w, x)
      /\ answered' = IF answer THEN answered \cup {conn[c].id} ELSE answered
      /\ UNCHANGED <<received, ended, overlapped>>
  BY DEF TurnEnds, Live
<1>2. /\ conn'[c].pc = "open" /\ conn'[c].worker = w
      /\ \A d \in Conns : d # c => conn'[d] = conn[d]
  BY DEF TurnEnds, TInv, TypeOK
<1>3. w \in Workers /\ s \in Sessions /\ Fits(s)
  BY <1>1, LiveFits
<1>4. /\ x \in Sessions /\ x.rev = s.rev /\ x.counter = s.counter /\ x.turns = s.turns
      /\ x.started = s.started
      /\ x.responded => mine \/ s.responded
  <2> HIDE DEF s, mine
  <2>1. s \in Sessions
    BY <1>3
  <2> QED BY <2>1 DEF Sessions
<1> HIDE DEF x
<1>5. PICK t \in Sessions :
        /\ session' = [session EXCEPT ![w] = t] /\ session'[w] = t /\ Base' = t
        /\ t.counter = x.counter /\ t.turns = x.turns
        /\ t.started = x.started /\ t.responded = x.responded
        /\ OneWorker' /\ CopiesAgree'
  <2>1. \A d \in Conns : conn'[d].worker = conn[d].worker /\ (Live(d)' => Live(d))
    BY <1>1, <1>2 DEF Live
  <2> QED BY <1>1, <1>4, <2>1, LogSaves
<1>6. Fits(t)'
  <2>1. t.started /\ t.responded => overlapped' \/ t.counter \in answered'
    <3>1. CASE s.responded
      BY <1>1, <1>3, <1>4, <1>5, <3>1 DEF Fits
    <3>2. CASE mine
      BY <1>1, <1>4, <1>5, <3>2 DEF OInv, TurnsFit
    <3> QED BY <1>4, <1>5, <3>1, <3>2
  <2> QED BY <1>1, <1>3, <1>4, <1>5, <2>1 DEF Fits
<1>7. CurrentFits'
  <2>1. \A v \in Workers : InTurn(v)' => session'[v] = t
    BY <1>1, <1>2, <1>5 DEF OInv, OneWorker, InTurn, Live
  <2>2. ASSUME NEW v \in Workers, InTurn(v)'
        PROVE  Fits(session[v])'
    BY <1>6, <2>1, <2>2 DEF Fits
  <2>3. Fits(Base)'
    BY <1>5, <1>6 DEF Fits
  <2> QED BY <2>2, <2>3 DEF CurrentFits
<1>8. TurnsFit'
  <2> SUFFICES ASSUME NEW d \in Conns, conn'[d].pc = "turn"
               PROVE  ~conn'[d].orphan /\ overlapped'
    BY DEF TurnsFit
  <2>1. d # c /\ conn[d] = conn'[d]
    BY <1>2
  <2> QED BY <1>1, <2>1 DEF OInv, TurnsFit
<1>9. ASSUME NEW i \in Ids
      PROVE  LogTrue(i)'
  <2>1. \A e : EndsRight(i, e) => EndsRight(i, e)'
    BY <1>1 DEF EndsRight
  <2> QED BY <1>1, <2>1 DEF OInv, LogTrue
<1> QED BY <1>5, <1>7, <1>8, <1>9 DEF OInv

LEMMA LogOtherMessage ==
  ASSUME TInv, OInv, NEW c \in Conns, OtherMessage(c), orderly'
  PROVE  OInv'
<1> DEFINE w == conn[c].worker
           s == session[w]
<1>1. /\ Live(c) /\ SaveSession(w, s)
      /\ UNCHANGED <<conn, received, ended, answered, overlapped>>
  BY DEF OtherMessage, Live, history
<1>2. w \in Workers /\ s \in Sessions /\ Fits(s)
  BY <1>1, LiveFits
<1>3. PICK t \in Sessions :
        /\ session' = [session EXCEPT ![w] = t] /\ session'[w] = t /\ Base' = t
        /\ t.counter = s.counter /\ t.turns = s.turns
        /\ t.started = s.started /\ t.responded = s.responded
        /\ OneWorker' /\ CopiesAgree'
  <2>1. \A d \in Conns : conn'[d].worker = conn[d].worker /\ (Live(d)' => Live(d))
    BY <1>1 DEF Live
  <2> QED BY <1>1, <1>2, <2>1, LogSaves
<1>4. Fits(t)'
  BY <1>1, <1>2, <1>3 DEF Fits
<1>5. CurrentFits'
  <2>1. \A v \in Workers : InTurn(v)' => session'[v] = t
    BY <1>1, <1>3 DEF OInv, OneWorker, InTurn, Live
  <2>2. ASSUME NEW v \in Workers, InTurn(v)'
        PROVE  Fits(session[v])'
    BY <1>4, <2>1, <2>2 DEF Fits
  <2>3. Fits(Base)'
    BY <1>3, <1>4 DEF Fits
  <2> QED BY <2>2, <2>3 DEF CurrentFits
<1>6. TurnsFit'
  <2>1. \A d \in Conns : conn[d].pc = "turn" =>
          session'[conn[d].worker].counter = session[conn[d].worker].counter
    BY <1>1, <1>3 DEF OInv, OneWorker, Live
  <2> QED BY <1>1, <2>1 DEF OInv, TurnsFit
<1>7. \A i \in Ids : LogTrue(i)'
  BY <1>1 DEF OInv, LogTrue, EndsRight
<1> QED BY <1>3, <1>5, <1>6, <1>7 DEF OInv

(* A clean-up of a connection that is not the registered one.              *)
LEMMA LogLateCleanup ==
  ASSUME TInv, OInv, NEW c \in Conns, NEW error \in BOOLEAN, Cleanup(c, error), ~Owns(c)
  PROVE  OInv'
<1>1. /\ conn[c].pc = "open" /\ conn'[c].pc = "over" /\ conn'[c].worker = conn[c].worker
      /\ \A d \in Conns : d # c => conn'[d] = conn[d]
      /\ UNCHANGED <<session, saved, received, ended, answered, overlapped>>
  BY DEF Cleanup, TInv, TypeOK
<1>2. /\ \A d \in Conns : Live(d)' => Live(d) /\ conn'[d].worker = conn[d].worker
      /\ \A v \in Workers : InTurn(v)' <=> InTurn(v)
  BY <1>1 DEF Live, InTurn
<1>3. OneWorker' /\ CopiesAgree'
  BY <1>1, <1>2 DEF OInv, OneWorker, CopiesAgree, Base
<1>4. CurrentFits'
  BY <1>1, <1>2 DEF OInv, CurrentFits, Base, Fits
<1>5. TurnsFit'
  BY <1>1 DEF OInv, TurnsFit
<1>6. \A i \in Ids : LogTrue(i)'
  BY <1>1 DEF OInv, LogTrue, EndsRight
<1> QED BY <1>3, <1>4, <1>5, <1>6 DEF OInv

LEMMA LogCleanup ==
  ASSUME TInv, OInv, NEW c \in Conns, NEW error \in BOOLEAN, Cleanup(c, error), Owns(c), orderly'
  PROVE  OInv'
<1>0. PICK w \in Workers, s \in Sessions : w = conn[c].worker /\ s = session[w] /\ Fits(s)
  BY LiveFits DEF Cleanup, Live
<1> DEFINE x == IF s.turns > 0 THEN Reset(s) ELSE s
           e == [turns |-> s.turns, state |-> TerminalState(s, error)]
<1>1. /\ conn[c].pc = "open" /\ Live(c)
      /\ SaveSession(w, x)
      /\ ended' = IF s.turns > 0 THEN [ended EXCEPT ![s.counter] = Append(@, e)] ELSE ended
      /\ overlapped' = (overlapped \/ OthersTurn(c))
      /\ UNCHANGED <<received, answered>>
  BY <1>0 DEF Cleanup, Live, Emit
<1>2. /\ conn'[c].pc = "over" /\ conn'[c].worker = w
      /\ \A d \in Conns : d # c => conn'[d] = conn[d]
  BY <1>0 DEF Cleanup, TInv, TypeOK
<1>3. /\ x \in Sessions /\ x.rev = s.rev /\ x.counter = s.counter
      /\ s.turns = 0 => x = s
      /\ s.turns > 0 => x.turns = 0 /\ ~x.started
      /\ s.turns \in 0..MaxMessages /\ s.counter \in 0..MaxMessages
  <2>1. ASSUME NEW n \in 0..MaxMessages
        PROVE  LET r == [s EXCEPT !.turns = n, !.responded = FALSE, !.started = FALSE]
               IN  /\ r \in Sessions /\ r.counter = s.counter /\ r.rev = s.rev
                   /\ r.turns = n /\ ~r.started
    BY DEF Sessions
  <2>2. 0 \in 0..MaxMessages
    BY ConversationAssumption
  <2>3. /\ Reset(s) \in Sessions /\ Reset(s).counter = s.counter /\ Reset(s).rev = s.rev
        /\ Reset(s).turns = 0 /\ ~Reset(s).started
    BY <2>1, <2>2 DEF Reset
  <2>4. s.turns \in 0..MaxMessages /\ s.counter \in 0..MaxMessages
    BY DEF Sessions
  <2> QED BY <2>3, <2>4
<1> HIDE DEF x
<1>4. PICK t \in Sessions :
        /\ session' = [session EXCEPT ![w] = t] /\ session'[w] = t /\ Base' = t
        /\ t.counter = x.counter /\ t.turns = x.turns
        /\ t.started = x.started /\ t.responded = x.responded
        /\ OneWorker' /\ CopiesAgree'
  <2>1. \A d \in Conns : conn'[d].worker = conn[d].worker /\ (Live(d)' => Live(d))
    BY <1>0, <1>1, <1>2 DEF Live
  <2> QED BY <1>0, <1>1, <1>3, <2>1, LogSaves
<1>5. /\ s.turns > 0 => /\ s.started /\ s.counter \in Ids /\ ended[s.counter] = <<>>
                        /\ s.turns = Len(received[s.counter])
      /\ ended \in [Ids -> Seq([turns : 0..MaxMessages, state : TerminalStates])]
  <2>1. Counts(s, messages)
    BY <1>0, NoneIsNoSession DEF TInv, Counted
  <2>2. s.turns > 0 => s.started
    BY <1>0, <1>3, ConversationAssumption DEF Fits
  <2>3. s.started => s.counter \in Ids
    BY <1>3, <2>1, ConversationAssumption DEF Counts, Ids
  <2>4. ended \in [Ids -> Seq([turns : 0..MaxMessages, state : TerminalStates])]
    BY DEF TInv, TypeOK
  <2> QED BY <1>0, <2>2, <2>3, <2>4 DEF Fits
<1>6. /\ \A i \in Ids : i # s.counter => ended'[i] = ended[i]
      /\ s.turns > 0 => ended'[s.counter] = <<e>>
      /\ s.turns = 0 => ended' = ended
  <2> HIDE DEF e
  <2>1. s.turns = 0 => ended' = ended
    BY <1>1
  <2>2. ASSUME s.turns > 0
        PROVE  ended' = [ended EXCEPT ![s.counter] = Append(<<>>, e)]
    BY <1>1, <1>5, <2>2
  <2>3. ASSUME s.turns > 0
        PROVE  ended'[s.counter] = Append(<<>>, e)
    BY <1>5, <2>2, <2>3
  <2>4. Append(<<>>, e) = <<e>>
    OBVIOUS
  <2>5. ASSUME NEW i \in Ids, i # s.counter
        PROVE  ended'[i] = ended[i]
    BY <1>1, <1>5, <2>5
  <2> QED BY <2>1, <2>3, <2>4, <2>5
<1>7. Fits(t)'
  <2>1. \A i \in Ids : i > t.counter => received'[i] = <<>> /\ ended'[i] = <<>>
    BY <1>0, <1>1, <1>3, <1>4, <1>6, ConversationAssumption DEF Fits, Ids
  <2>2. CASE s.turns > 0
    BY <1>3, <1>4, <2>1, <2>2 DEF Fits
  <2>3. CASE s.turns = 0
    BY <1>0, <1>1, <1>3, <1>4, <1>6, <2>1, <2>3 DEF Fits
  <2> QED BY <1>3, <2>2, <2>3, ConversationAssumption
<1>8. CurrentFits'
  <2>1. \A v \in Workers : InTurn(v)' => session'[v] = t
    BY <1>0, <1>1, <1>2, <1>4 DEF OInv, OneWorker, InTurn, Live
  <2>2. ASSUME NEW v \in Workers, InTurn(v)'
        PROVE  Fits(session[v])'
    BY <1>7, <2>1, <2>2 DEF Fits
  <2>3. Fits(Base)'
    BY <1>4, <1>7 DEF Fits
  <2> QED BY <2>2, <2>3 DEF CurrentFits
<1>9. TurnsFit'
  <2> SUFFICES ASSUME NEW d \in Conns, conn'[d].pc = "turn"
               PROVE  ~conn'[d].orphan /\ overlapped'
    BY DEF TurnsFit
  <2>1. d # c /\ conn[d] = conn'[d] /\ Live(d)
    BY <1>2 DEF Live
  <2>2. OthersTurn(c)
    BY <1>1, <2>1 DEF OInv, OneWorker, OthersTurn
  <2> QED BY <1>1, <2>1, <2>2 DEF OInv, TurnsFit
<1>10. ASSUME NEW i \in Ids
       PROVE  LogTrue(i)'
  <2>1. LogTrue(i) /\ \A f : EndsRight(i, f) => EndsRight(i, f)'
    BY <1>1 DEF OInv, EndsRight
  <2>2. CASE i = s.counter /\ s.turns > 0
    <3>1. e \in [turns : 0..MaxMessages, state : TerminalStates]
      BY <1>3 DEF TerminalState, TerminalStates
    <3>2. EndsRight(i, e)'
      <4>1. e.state = "inactive_end" => s.responded
        BY DEF TerminalState
      <4>2. s.responded => i \in answered \/ overlapped
        BY <1>0, <1>5, <2>2 DEF Fits
      <4> QED BY <1>1, <1>5, <2>2, <4>1, <4>2 DEF EndsRight
    <3>3. ended'[i] = <<e>>
      BY <1>6, <2>2
    <3> QED BY <1>1, <2>1, <3>1, <3>2, <3>3 DEF LogTrue
  <2>3. CASE ~(i = s.counter /\ s.turns > 0)
    <3>1. ended'[i] = ended[i]
      BY <1>3, <1>6, <2>3, ConversationAssumption
    <3> QED BY <1>1, <2>1, <3>1 DEF LogTrue
  <2> QED BY <2>2, <2>3
<1> QED BY <1>4, <1>8, <1>9, <1>10 DEF OInv

LEMMA LogCrash ==
  ASSUME TInv, OInv, NEW w \in Workers, Crash(w), orderly'
  PROVE  OInv'
<1>1. /\ session' = [session EXCEPT ![w] = None]
      /\ \A c \in Conns : conn[c].worker # w => conn'[c] = conn[c]
      /\ \A c \in Conns : conn[c].worker = w => /\ conn'[c].pc = "over" /\ conn[c].pc # "turn"
                                                /\ conn'[c].worker = w
      /\ UNCHANGED <<saved, received, ended, answered, overlapped>>
  BY DEF Crash, history, TInv, TypeOK
<1>2. /\ \A c \in Conns : Live(c)' => Live(c) /\ conn[c].worker # w
      /\ \A v \in Workers : InTurn(v)' <=> InTurn(v)
      /\ ~InTurn(w)
  BY <1>1 DEF Live, InTurn
<1>3. session'[w] = None /\ \A v \in Workers : v # w => session'[v] = session[v]
  BY <1>1 DEF TInv, TypeOK
<1>4. OneWorker'
  BY <1>1, <1>2 DEF OInv, OneWorker
<1>5. CopiesAgree'
  <2>1. \A c \in Conns : Live(c)' => session'[conn'[c].worker] = session[conn[c].worker]
    BY <1>1, <1>2, <1>3 DEF TInv, Placed
  <2> QED BY <1>1, <1>2, <1>3, <2>1 DEF OInv, CopiesAgree, Base
<1>6. CurrentFits'
  <2>1. Fits(Base)' <=> Fits(Base)
    BY <1>1 DEF Fits, Base
  <2>2. ASSUME NEW v \in Workers, InTurn(v)'
        PROVE  Fits(session[v])'
    <3>1. session'[v] = session[v] /\ Fits(session[v])
      BY <1>2, <1>3, <2>2 DEF OInv, CurrentFits
    <3> QED BY <1>1, <3>1 DEF Fits
  <2> QED BY <1>2, <2>1, <2>2 DEF OInv, CurrentFits
<1>7. TurnsFit'
  <2>1. ASSUME NEW d \in Conns, conn'[d].pc = "turn"
        PROVE  conn[d] = conn'[d] /\ session'[conn[d].worker] = session[conn[d].worker]
    BY <1>1, <1>3, <2>1 DEF TInv, Placed
  <2>2. \A d \in Conns : conn[d].pc # "turn" => conn'[d].pc # "turn"
    BY <1>1
  <2> QED BY <1>1, <2>1, <2>2 DEF OInv, TurnsFit
<1>8. \A i \in Ids : LogTrue(i)'
  BY <1>1 DEF OInv, LogTrue, EndsRight
<1> QED BY <1>4, <1>5, <1>6, <1>7, <1>8 DEF OInv

LEMMA LInvStep ==
  ASSUME LInv, [Next]_vars
  PROVE  LInv'
<1> SUFFICES ASSUME orderly'
             PROVE  OInv'
  BY TInvStep DEF LInv
<1>1. TInv
  BY DEF LInv
<1>2. orderly
  <2>1. ASSUME NEW w, NEW s, SaveSession(w, s)
        PROVE  orderly
    BY <2>1 DEF SaveSession
  <2>2. ASSUME NEW c \in Conns, NEW error \in BOOLEAN, Cleanup(c, error)
        PROVE  orderly
    BY <2>1, <2>2 DEF Cleanup
  <2>3. ASSUME NEW c \in Conns, NEW answer \in BOOLEAN, TurnEnds(c, answer)
        PROVE  orderly
    BY <2>1, <2>3 DEF TurnEnds
  <2>4. ASSUME NEW c \in Conns, OtherMessage(c)
        PROVE  orderly
    BY <2>1, <2>4 DEF OtherMessage
  <2>5. ASSUME NEW c \in Conns, NEW page \in Pages, NEW idle \in BOOLEAN, Receive(c, page, idle)
        PROVE  orderly
    BY <2>5 DEF Receive
  <2>6. ASSUME NEW c \in Conns, NEW w \in Workers, Connect(c, w)
        PROVE  orderly
    BY <2>6 DEF Connect
  <2>7. ASSUME NEW w \in Workers, Crash(w)
        PROVE  orderly
    BY <2>7 DEF Crash
  <2> QED BY <2>2, <2>3, <2>4, <2>5, <2>6, <2>7 DEF Next, vars, ClientLeaves, Expire
<1>3. OInv
  BY <1>2 DEF LInv
<1>4. ASSUME NEW c \in Conns, NEW error \in BOOLEAN, Cleanup(c, error)
      PROVE  OInv'
  BY <1>1, <1>3, <1>4, LogCleanup, LogLateCleanup
<1>5. ASSUME UNCHANGED <<session, saved, conn, received, ended, answered, overlapped>>
      PROVE  OInv'
  BY <1>3, <1>5 DEF OInv, OneWorker, CopiesAgree, CurrentFits, TurnsFit, LogTrue, EndsRight, Fits,
                    Base, InTurn, Live
<1>6. ~Expire
  BY DEF Expire
<1> QED BY <1>1, <1>3, <1>4, <1>5, <1>6, LogConnect, LogReceive, LogTurnEnds, LogOtherMessage, LogCrash
        DEF Next, ClientLeaves, vars, history

(* What is right of each conversation's entries is right of the log.       *)
LEMMA LogIsTrue == OInv => EndedAtMostOnce /\ EndedCountsEveryMessage
                            /\ MessagesNumberedInOrder /\ NaturalEndWasAnswered
<1> SUFFICES ASSUME OInv
             PROVE  \A i \in Ids :
                      /\ Len(ended[i]) <= 1
                      /\ \A n \in 1..Len(ended[i]) :
                           /\ ended[i][n].turns = Len(received[i])
                           /\ ended[i][n].state = "inactive_end" => i \in answered \/ overlapped
                      /\ \A n \in 1..Len(received[i]) : received[i][n] = n
  BY DEF EndedAtMostOnce, EndedCountsEveryMessage, MessagesNumberedInOrder, NaturalEndWasAnswered
<1> TAKE i \in Ids
<1>1. LogTrue(i)
  BY DEF OInv
<1>2. CASE ended[i] = <<>>
  BY <1>1, <1>2 DEF LogTrue
<1>3. CASE ended[i] # <<>>
  <2>1. PICK e \in [turns : 0..MaxMessages, state : TerminalStates] :
          ended[i] = <<e>> /\ EndsRight(i, e)
    BY <1>1, <1>3 DEF LogTrue
  <2>2. Len(<<e>>) = 1 /\ <<e>>[1] = e /\ \A n \in 1..1 : n = 1
    OBVIOUS
  <2> QED BY <1>1, <2>1, <2>2 DEF LogTrue, EndsRight
<1> QED BY <1>2, <1>3

(* The log of an orderly visit, over any number of workers, reconnects and *)
(* messages, late clean-ups and turns that outlive their connection: each  *)
(* conversation ends at most once, counts and numbers its messages, and is *)
(* called natural only if it was answered (or two turns met).              *)
THEOREM OrderlyLogTheorem == Spec => []OrderlyLog
<1>1. LInv => OrderlyLog
  BY LogIsTrue DEF LInv, OrderlyLog
<1> QED BY <1>1, LInvInit, LInvStep, PTL DEF Spec
=============================================================================
