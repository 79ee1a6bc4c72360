-------------------------- MODULE ChatWidgetProofs --------------------------
(***************************************************************************)
(* Proofs about ChatWidget, for any numbers of sockets, of messages, of    *)
(* what the agent does and of attempts to reconnect.                       *)
(***************************************************************************)
EXTENDS ChatWidget, TLAPS

-----------------------------------------------------------------------------
(* Type correctness                                                        *)

\* The timer of a reconnect runs only while there is an attempt left.
MayRetry == link = "waiting" => attempts < MaxAttempts

\* The widget's socket is one the server has, unless its network is gone, and
\* the registered one; the server writes to no other.
SocketInv ==
  /\ broken \subseteq 1..conns
  /\ link = "open" => conns # 0
  /\ Open <=> registered # 0 /\ registered \notin broken
  /\ Open => registered = conns

TInv == TypeOK /\ MayRetry /\ SocketInv

LEMMA SendType ==
  ASSUME TypeOK, NEW frames \in Seq(ServerFrames)
  PROVE  Send(frames) \in [Conns -> Seq(ServerFrames)]
<1>1. \A c \in Conns : down[c] \in Seq(ServerFrames)
  BY DEF TypeOK
<1>2. \A c \in Conns : down[c] \o frames \in Seq(ServerFrames)
  BY <1>1
<1>3. down \in [Conns -> Seq(ServerFrames)]
  BY DEF TypeOK
<1>4. [down EXCEPT ![registered] = @ \o frames] \in [Conns -> Seq(ServerFrames)]
  BY <1>2, <1>3
<1> QED BY <1>3, <1>4 DEF Send

LEMMA FrameTypes ==
  /\ \A frame \in ServerFrames : <<frame>> \in Seq(ServerFrames) /\ Len(<<frame>>) = 1
  /\ <<"agent_joined", "agent_message">> \in Seq(ServerFrames)
BY DEF ServerFrames

LEMMA PageType ==
  ASSUME TypeOK, NEW frame \in ServerFrames
  PROVE  /\ After(widget, frame) \in [streaming : BOOLEAN, handoff : BOOLEAN,
                                      input : BOOLEAN, suggested : BOOLEAN]
         /\ After(widget, frame).handoff =
              CASE frame = "agent_joined" -> TRUE
                [] frame = "agent_left" -> FALSE
                [] OTHER -> widget.handoff
         /\ After(widget, frame).streaming =
              CASE frame = "stream_start" -> TRUE
                [] frame \in {"stream_end", "ask_human", "agent_left", "error"} -> FALSE
                [] OTHER -> widget.streaming
BY DEF After, TypeOK, ServerFrames

LEMMA TypeInit == Init => TInv
<1>1. Init => TypeOK
  <2>1. /\ 0 \in 0..MaxConns /\ 0 \in 0..MaxMessages /\ 0 \in 0..MaxAgentActs /\ 0 \in 0..MaxAttempts
    BY ChatWidgetAssumption
  <2>2. /\ [c \in Conns |-> <<>>] \in [Conns -> Seq(ClientFrames)]
        /\ [c \in Conns |-> <<>>] \in [Conns -> Seq(ServerFrames)]
    OBVIOUS
  <2>3. /\ NewPage \in [streaming : BOOLEAN, handoff : BOOLEAN, input : BOOLEAN, suggested : BOOLEAN]
        /\ [handoff |-> FALSE, joined |-> FALSE] \in [handoff : BOOLEAN, joined : BOOLEAN]
        /\ [c \in Conns |-> "none"] \in [Conns -> {"none", "idle", "turn", "over"}]
    BY DEF NewPage
  <2> SUFFICES ASSUME Init PROVE TypeOK
    OBVIOUS
  <2>4. /\ widget \in [streaming : BOOLEAN, handoff : BOOLEAN, input : BOOLEAN, suggested : BOOLEAN]
        /\ handler \in [Conns -> {"none", "idle", "turn", "over"}]
        /\ session \in [handoff : BOOLEAN, joined : BOOLEAN]
    BY <2>3 DEF Init
  <2>5. up \in [Conns -> Seq(ClientFrames)] /\ down \in [Conns -> Seq(ServerFrames)]
    BY <2>2 DEF Init
  <2> QED BY <2>1, <2>4, <2>5 DEF Init, TypeOK
<1>2. Init => MayRetry /\ SocketInv
  BY DEF Init, MayRetry, SocketInv, Open
<1> QED BY <1>1, <1>2 DEF TInv

LEMMA TypeStep ==
  ASSUME TInv, [Next]_vars
  PROVE  TypeOK' /\ MayRetry'
<1>a. TypeOK /\ MayRetry /\ SocketInv
  BY DEF TInv
<1>b. /\ conns \in 0..MaxConns /\ MaxConns \in Nat \ {0} /\ attempts \in 0..MaxAttempts
      /\ MaxAttempts \in Nat /\ sent \in 0..MaxMessages /\ MaxMessages \in Nat
      /\ agentActs \in 0..MaxAgentActs /\ MaxAgentActs \in Nat
  BY <1>a, ChatWidgetAssumption DEF TypeOK
<1>1. CASE Accept
  <2>1. conns + 1 \in Conns /\ conns' \in 0..MaxConns /\ registered' \in 0..MaxConns
    BY <1>1, <1>b DEF Accept, Conns
  <2>2. down' \in [Conns -> Seq(ServerFrames)]
    BY <1>1, <1>a, <2>1 DEF Accept, TypeOK, ServerFrames
  <2>3. handler' \in [Conns -> {"none", "idle", "turn", "over"}]
    BY <1>1, <1>a, <2>1 DEF Accept, TypeOK
  <2>4. attempts' \in 0..MaxAttempts
    BY <1>1, <1>b DEF Accept
  <2> QED BY <1>1, <1>a, <2>1, <2>2, <2>3, <2>4 DEF Accept, TypeOK, MayRetry, history
<1>2. CASE ConnectFails
  BY <1>2, <1>a DEF ConnectFails, Closed, TypeOK, MayRetry, server, history
<1>3. CASE Retry
  <2>1. attempts' \in 0..MaxAttempts
    BY <1>3, <1>a, <1>b DEF Retry, MayRetry
  <2> QED BY <1>3, <2>1, <1>a DEF Retry, TypeOK, MayRetry, server, history
<1>4. CASE Break
  <2>1. conns \in Conns
    BY <1>4, <1>a, <1>b DEF Break, Open, SocketInv, Conns
  <2>2. down' \in [Conns -> Seq(ServerFrames)]
    <3>1. down' = [down EXCEPT ![conns] = <<>>] /\ <<>> \in Seq(ServerFrames)
      BY <1>4 DEF Break
    <3> QED BY <3>1, <1>a DEF TypeOK
  <2>3. up' \in [Conns -> Seq(ClientFrames)]
    <3>1. up[conns] \in Seq(ClientFrames)
      BY <1>a, <2>1 DEF TypeOK
    <3>2. \A n \in 0..Len(up[conns]) : SubSeq(up[conns], 1, n) \in Seq(ClientFrames)
      BY <3>1
    <3> QED BY <1>4, <1>a, <3>2 DEF Break, TypeOK
  <2>4. broken' \subseteq Conns /\ cut' \in BOOLEAN /\ missed' \in BOOLEAN
    BY <1>4, <1>a, <2>1 DEF Break, TypeOK
  <2> QED BY <1>4, <1>a, <2>2, <2>3, <2>4 DEF Break, TypeOK, MayRetry, visitor, server
<1>5. CASE WidgetNotices
  BY <1>5, <1>a DEF WidgetNotices, Closed, TypeOK, MayRetry, server, history
<1>6. CASE Reload
  <2>1. /\ widget' \in [streaming : BOOLEAN, handoff : BOOLEAN, input : BOOLEAN, suggested : BOOLEAN]
        /\ attempts' \in 0..MaxAttempts
        /\ down' \in [Conns -> Seq(ServerFrames)]
        /\ broken' \subseteq Conns /\ reloaded' \in BOOLEAN
    BY <1>6, <1>a, <1>b DEF Reload, NewPage, TypeOK
  <2> QED BY <1>6, <1>a, <2>1 DEF Reload, TypeOK, MayRetry, server
<1>7. ASSUME NEW c \in Conns, ServerNotices(c)
      PROVE  TypeOK' /\ MayRetry'
  <2>1. registered' \in 0..MaxConns
    BY <1>7, <1>a, <1>b DEF ServerNotices, TypeOK
  <2> QED BY <1>7, <1>a, <2>1 DEF ServerNotices, TypeOK, MayRetry, visitor, history
<1>d. ASSUME NEW frame \in ClientFrames, Sends(frame)
      PROVE  up' \in [Conns -> Seq(ClientFrames)]
  <2>1. \A c \in Conns : Append(up[c], frame) \in Seq(ClientFrames)
    BY <1>a DEF TypeOK
  <2> QED BY <1>d, <1>a, <2>1 DEF Sends, TypeOK
<1>8. CASE UserSends
  <2>1. sent' \in 0..MaxMessages
    BY <1>8, <1>b DEF UserSends
  <2>2. up' \in [Conns -> Seq(ClientFrames)]
    BY <1>8, <1>d DEF UserSends, ClientFrames
  <2>3. /\ widget' \in [streaming : BOOLEAN, handoff : BOOLEAN, input : BOOLEAN, suggested : BOOLEAN]
        /\ cut' \in BOOLEAN
    BY <1>8, <1>a DEF UserSends, TypeOK
  <2> QED BY <1>8, <1>a, <2>1, <2>2, <2>3 DEF UserSends, TypeOK, MayRetry, server
<1>9. CASE UserConfirms
  <2>1. up' \in [Conns -> Seq(ClientFrames)]
    BY <1>9, <1>d DEF UserConfirms, ClientFrames
  <2>2. widget' \in [streaming : BOOLEAN, handoff : BOOLEAN, input : BOOLEAN, suggested : BOOLEAN]
    BY <1>9, <1>a DEF UserConfirms, TypeOK
  <2> QED BY <1>9, <1>a, <2>1, <2>2 DEF UserConfirms, TypeOK, MayRetry, server, history
<1>10. CASE WidgetReceives
  <2>1. conns \in Conns
    BY <1>10, <1>a, <1>b DEF WidgetReceives, Open, SocketInv, Conns
  <2>2. Head(down[conns]) \in ServerFrames /\ Tail(down[conns]) \in Seq(ServerFrames)
    BY <1>10, <2>1, <1>a DEF WidgetReceives, TypeOK
  <2>3. down' \in [Conns -> Seq(ServerFrames)]
    BY <1>10, <2>2, <1>a DEF WidgetReceives, TypeOK
  <2>4. widget' \in [streaming : BOOLEAN, handoff : BOOLEAN, input : BOOLEAN, suggested : BOOLEAN]
    BY <1>10, <2>2, <1>a, PageType DEF WidgetReceives
  <2> QED BY <1>10, <1>a, <2>3, <2>4 DEF WidgetReceives, TypeOK, MayRetry, server, history
\* The receive loop takes a frame off the socket.
<1>c. ASSUME NEW c \in Conns, NEW frame, NextFrame(c, frame)
      PROVE  up' \in [Conns -> Seq(ClientFrames)]
  <2>1. Tail(up[c]) \in Seq(ClientFrames)
    BY <1>c, <1>a DEF NextFrame, TypeOK
  <2> QED BY <1>c, <2>1, <1>a DEF NextFrame, TypeOK
<1>11. ASSUME NEW c \in Conns, Relay(c)
       PROVE  TypeOK' /\ MayRetry'
  <2>1. up' \in [Conns -> Seq(ClientFrames)]
    BY <1>11, <1>c DEF Relay
  <2>2. unawares' \in BOOLEAN
    BY <1>11, <1>a DEF Relay, TypeOK
  <2> QED BY <1>11, <1>a, <2>1, <2>2 DEF Relay, TypeOK, MayRetry, visitor, server
<1>12. ASSUME NEW c \in Conns, TurnStarts(c)
       PROVE  TypeOK' /\ MayRetry'
  <2>1. up' \in [Conns -> Seq(ClientFrames)]
    BY <1>12, <1>c DEF TurnStarts
  <2>2. down' \in [Conns -> Seq(ServerFrames)]
    BY <1>12, <1>a, FrameTypes, SendType DEF TurnStarts, ServerFrames
  <2> QED BY <1>12, <1>a, <2>1, <2>2 DEF TurnStarts, TypeOK, MayRetry, visitor, history
<1>13. ASSUME NEW c \in Conns, TurnEnds(c)
       PROVE  TypeOK' /\ MayRetry'
  <2>1. down' \in [Conns -> Seq(ServerFrames)]
    <3>1. PICK frame \in ServerFrames : down' = Send(<<frame>>)
      BY <1>13 DEF TurnEnds, ServerFrames
    <3> QED BY <3>1, <1>a, FrameTypes, SendType
  <2>2. /\ handler' = [handler EXCEPT ![c] = "idle"]
        /\ UNCHANGED <<visitor, broken, up, registered, session, agentActs, history>>
    BY <1>13 DEF TurnEnds
  <2> QED BY <1>a, <2>1, <2>2 DEF TypeOK, MayRetry, visitor, history
<1>14. ASSUME NEW c \in Conns, TurnCutOff(c)
       PROVE  TypeOK' /\ MayRetry'
  BY <1>14, <1>a DEF TurnCutOff, TypeOK, MayRetry, visitor
<1>15. ASSUME NEW c \in Conns, ConfirmHandoff(c)
       PROVE  TypeOK' /\ MayRetry'
  <2>1. up' \in [Conns -> Seq(ClientFrames)]
    BY <1>15, <1>c DEF ConfirmHandoff
  <2>2. session' \in [handoff : BOOLEAN, joined : BOOLEAN]
    BY <1>15, <1>a DEF ConfirmHandoff, TypeOK
  <2> QED BY <1>15, <1>a, <2>1, <2>2 DEF ConfirmHandoff, TypeOK, MayRetry, visitor, history
<1>16. CASE AgentSpeaks
  <2>1. agentActs' \in 0..MaxAgentActs
    BY <1>16, <1>b DEF AgentSpeaks
  <2>2. session' \in [handoff : BOOLEAN, joined : BOOLEAN]
    BY <1>16, <1>a DEF AgentSpeaks, TypeOK
  <2>3. down' \in [Conns -> Seq(ServerFrames)]
    BY <1>16, <1>a, FrameTypes, SendType DEF AgentSpeaks, ServerFrames
  <2> QED BY <1>16, <1>a, <2>1, <2>2, <2>3 DEF AgentSpeaks, TypeOK, MayRetry, visitor, history
<1>17. CASE AgentLeaves
  <2>1. agentActs' \in 0..MaxAgentActs
    BY <1>17, <1>b DEF AgentLeaves
  <2>2. session' \in [handoff : BOOLEAN, joined : BOOLEAN] /\ missed' \in BOOLEAN
    BY <1>17, <1>a DEF AgentLeaves, TypeOK
  <2>3. down' \in [Conns -> Seq(ServerFrames)]
    BY <1>17, <1>a, FrameTypes, SendType DEF AgentLeaves, ServerFrames
  <2> QED BY <1>17, <1>a, <2>1, <2>2, <2>3 DEF AgentLeaves, TypeOK, MayRetry, visitor
<1>18. CASE UNCHANGED vars
  BY <1>18, <1>a DEF vars, TypeOK, MayRetry
<1> QED BY <1>1, <1>2, <1>3, <1>4, <1>5, <1>6, <1>7, <1>8, <1>9, <1>10, <1>11, <1>12, <1>13,
           <1>14, <1>15, <1>16, <1>17, <1>18 DEF Next

(* Sockets: only connect(), the network, a new page and the end of a       *)
(* receive loop touch them.                                                *)
LEMMA SocketStep ==
  ASSUME TInv, [Next]_vars
  PROVE  SocketInv'
<1>a. TypeOK /\ SocketInv
  BY DEF TInv
<1>b. conns \in Nat /\ registered \in Nat /\ MaxConns \in Nat /\ broken \subseteq 1..conns
  BY <1>a, ChatWidgetAssumption DEF TypeOK, SocketInv
<1>c. CASE UNCHANGED <<link, conns, broken, registered>>
  BY <1>a, <1>c DEF SocketInv, Open
<1>1. CASE Accept
  <2>1. /\ conns' = conns + 1 /\ link' = "open" /\ registered' = conns + 1
        /\ broken' = broken
    BY <1>1 DEF Accept
  <2>2. conns + 1 \notin broken /\ broken \subseteq 1..conns + 1
    BY <1>b
  <2> QED BY <2>1, <2>2, <1>b DEF SocketInv, Open
<1>2. CASE ConnectFails \/ Retry
  <2>1. link # "open" /\ link' # "open" /\ UNCHANGED <<conns, broken, registered>>
    BY <1>2 DEF ConnectFails, Closed, Retry, server
  <2> QED BY <2>1, <1>a DEF SocketInv, Open
<1>3. CASE Break
  <2>1. /\ Open /\ broken' = broken \cup {conns} /\ UNCHANGED <<link, conns, registered>>
    BY <1>3 DEF Break, visitor, server
  <2>2. conns # 0 /\ registered = conns /\ broken' \subseteq 1..conns
    BY <2>1, <1>a, <1>b DEF SocketInv, Open
  <2> QED BY <2>1, <2>2, <1>a DEF SocketInv, Open
<1>4. CASE WidgetNotices
  <2>1. ~Open /\ link' # "open" /\ UNCHANGED <<conns, broken, registered>>
    BY <1>4 DEF WidgetNotices, Closed, Open, server
  <2> QED BY <2>1, <1>a DEF SocketInv, Open
<1>5. CASE Reload
  <2>1. /\ link' = "connecting" /\ UNCHANGED <<conns, registered>>
        /\ broken' = broken \cup ({conns} \cap Conns)
    BY <1>5 DEF Reload, server
  <2>2. broken' \subseteq 1..conns
    BY <2>1, <1>b DEF Conns
  <2>3. registered # 0 /\ registered \notin broken => registered = conns /\ registered \in Conns
    BY <1>a, <1>b DEF SocketInv, TypeOK, Conns
  <2> QED BY <2>1, <2>2, <2>3 DEF SocketInv, Open
<1>6. ASSUME NEW c \in Conns, ServerNotices(c)
      PROVE  SocketInv'
  <2>1. /\ c \in broken /\ registered' = IF registered = c THEN 0 ELSE registered
        /\ UNCHANGED <<link, conns, broken>>
    BY <1>6 DEF ServerNotices, visitor
  <2> QED BY <2>1, <1>a DEF SocketInv, Open
<1>7. CASE UserSends \/ UserConfirms \/ WidgetReceives \/ AgentSpeaks \/ AgentLeaves
  BY <1>7, <1>c DEF UserSends, UserConfirms, WidgetReceives, AgentSpeaks, AgentLeaves,
                    visitor, server
<1>8. ASSUME NEW c \in Conns,
             \/ Relay(c) \/ TurnStarts(c) \/ TurnEnds(c) \/ TurnCutOff(c) \/ ConfirmHandoff(c)
      PROVE  SocketInv'
  BY <1>8, <1>c DEF Relay, TurnStarts, TurnEnds, TurnCutOff, ConfirmHandoff, visitor, server
<1>9. CASE UNCHANGED vars
  BY <1>9, <1>c DEF vars
<1> QED BY <1>1, <1>2, <1>3, <1>4, <1>5, <1>6, <1>7, <1>8, <1>9 DEF Next

LEMMA TypeInvariant == Spec => []TInv
<1>1. TInv /\ [Next]_vars => TInv'
  BY TypeStep, SocketStep DEF TInv
<1> QED BY <1>1, TypeInit, PTL DEF Spec

(* Every variable of the widget and of the server's end keeps its type.    *)
THEOREM TypeCorrect == Spec => []TypeOK
BY TypeInvariant, PTL DEF TInv

-----------------------------------------------------------------------------
(* The frames of the widget's socket                                       *)

(* What the concatenation of two sequences holds, and where.               *)
LEMMA Concatenation ==
  ASSUME NEW S, NEW s \in Seq(S), NEW t \in Seq(S)
  PROVE  /\ Len(s) \in Nat /\ Len(t) \in Nat
         /\ Len(s \o t) = Len(s) + Len(t)
         /\ \A i \in 1..Len(s) : i \in 1..Len(s \o t) /\ (s \o t)[i] = s[i]
         /\ \A k \in 1..Len(t) :
              Len(s) + k \in 1..Len(s \o t) /\ (s \o t)[Len(s) + k] = t[k]
         /\ \A i \in 1..Len(s \o t) :
              i \in 1..Len(s) \/ \E k \in 1..Len(t) : i = Len(s) + k
<1>1. Len(s) \in Nat /\ Len(t) \in Nat /\ Len(s \o t) = Len(s) + Len(t)
  OBVIOUS
<1>2. ASSUME NEW i \in 1..Len(s)
      PROVE  i \in 1..Len(s \o t) /\ (s \o t)[i] = s[i]
  <2>1. i \in 1..Len(s) + Len(t)
    BY <1>1
  <2> QED BY <1>1, <2>1
<1>3. ASSUME NEW k \in 1..Len(t)
      PROVE  Len(s) + k \in 1..Len(s \o t) /\ (s \o t)[Len(s) + k] = t[k]
  <2>1. /\ Len(s) + k \in 1..Len(s) + Len(t) /\ ~(Len(s) + k <= Len(s))
        /\ Len(s) + k - Len(s) = k
    BY <1>1
  <2> QED BY <1>1, <2>1
<1>4. ASSUME NEW i \in 1..Len(s \o t)
      PROVE  i \in 1..Len(s) \/ \E k \in 1..Len(t) : i = Len(s) + k
  <2>1. i \in 1..Len(s) \/ (i - Len(s) \in 1..Len(t) /\ i = Len(s) + (i - Len(s)))
    BY <1>1
  <2> QED BY <2>1
<1> QED BY <1>1, <1>2, <1>3, <1>4

(* What is sent while the widget's socket lives joins its frames, last.    *)
LEMMA SendAppends ==
  ASSUME TypeOK, SocketInv, Open, NEW frames \in Seq(ServerFrames), down' = Send(frames)
  PROVE  /\ conns \in Conns
         /\ Len(down[conns]) \in Nat
         /\ Len(down'[conns]) = Len(down[conns]) + Len(frames)
         /\ \A i \in 1..Len(down[conns]) :
              i \in 1..Len(down'[conns]) /\ down'[conns][i] = down[conns][i]
         /\ \A k \in 1..Len(frames) :
              /\ Len(down[conns]) + k \in 1..Len(down'[conns])
              /\ down'[conns][Len(down[conns]) + k] = frames[k]
         /\ \A i \in 1..Len(down'[conns]) :
              i \in 1..Len(down[conns]) \/ \E k \in 1..Len(frames) : i = Len(down[conns]) + k
<1>1. conns \in Conns /\ registered = conns /\ registered # 0 /\ registered \notin broken
  BY ChatWidgetAssumption DEF TypeOK, SocketInv, Open, Conns
<1>2. down[conns] \in Seq(ServerFrames) /\ down'[conns] = down[conns] \o frames
  BY <1>1 DEF Send, TypeOK
<1> HIDE DEF TypeOK
<1> QED BY <1>1, <1>2, Concatenation

(* What the widget receives was the first of its frames.                   *)
LEMMA ReceivesFirst ==
  ASSUME TypeOK, SocketInv, WidgetReceives
  PROVE  /\ Open /\ conns \in Conns
         /\ Len(down[conns]) \in Nat \ {0} /\ down[conns][1] \in ServerFrames
         /\ widget' = After(widget, down[conns][1])
         /\ \A i \in 1..Len(down'[conns]) :
              i + 1 \in 1..Len(down[conns]) /\ down'[conns][i] = down[conns][i + 1]
         /\ \A i \in 1..Len(down[conns]) :
              i = 1 \/ (i - 1 \in 1..Len(down'[conns]) /\ down'[conns][i - 1] = down[conns][i])
         /\ UNCHANGED <<link, attempts, conns, sent, broken, up, server, agentActs, history>>
<1>1. conns \in Conns /\ Open /\ down[conns] # <<>>
  BY ChatWidgetAssumption DEF WidgetReceives, TypeOK, SocketInv, Open, Conns
<1>2. down[conns] \in Seq(ServerFrames) /\ down'[conns] = Tail(down[conns])
  BY <1>1 DEF WidgetReceives, TypeOK
<1>3. Len(down[conns]) \in Nat \ {0} /\ Head(down[conns]) = down[conns][1]
  BY <1>1, <1>2
<1>4. /\ widget' = After(widget, down[conns][1])
      /\ UNCHANGED <<link, attempts, conns, sent, broken, up, server, agentActs, history>>
  BY <1>3 DEF WidgetReceives
<1>5. /\ down[conns][1] \in ServerFrames
      /\ \A i \in 1..Len(down'[conns]) :
           i + 1 \in 1..Len(down[conns]) /\ down'[conns][i] = down[conns][i + 1]
  BY <1>2, <1>3
<1>6. \A i \in 1..Len(down[conns]) :
        i = 1 \/ (i - 1 \in 1..Len(down'[conns]) /\ down'[conns][i - 1] = down[conns][i])
  BY <1>2, <1>3
<1> QED BY <1>1, <1>3, <1>4, <1>5, <1>6

-----------------------------------------------------------------------------
(* What the widget takes the handoff for                                   *)

\* A widget that is behind, and not for good, has the agent_left coming.
HandoffKnown ==
  widget.handoff /\ ~session.handoff /\ ~missed =>
    Open /\ \E j \in 1..Len(down[conns]) : down[conns][j] = "agent_left"

\* No agent_joined of a handoff that is over is the last word.
JoinedIsFollowed ==
  Open /\ ~session.handoff => \A i \in 1..Len(down[conns]) : down[conns][i] = "agent_joined" =>
    \E j \in 1..Len(down[conns]) : i < j /\ down[conns][j] = "agent_left"

HandoffInv == HandoffKnown /\ JoinedIsFollowed

LEMMA HandoffInit == Init => HandoffInv
BY DEF Init, HandoffInv, HandoffKnown, JoinedIsFollowed, NewPage, Open

LEMMA HandoffStep ==
  ASSUME TInv, HandoffInv, [Next]_vars
  PROVE  HandoffInv'
<1>a. TypeOK /\ SocketInv /\ HandoffKnown /\ JoinedIsFollowed
  BY DEF TInv, HandoffInv
\* What neither ends a handoff nor tells the widget of one.
<1>d. ASSUME UNCHANGED <<conns, down>>, Open' <=> Open, widget'.handoff => widget.handoff,
             session.handoff => session'.handoff, missed => missed'
      PROVE  HandoffInv'
  BY <1>d, <1>a DEF HandoffInv, HandoffKnown, JoinedIsFollowed
\* What the server sends but agent_joined.
<1>e. ASSUME NEW frames \in Seq(ServerFrames), down' = Send(frames),
             \A k \in 1..Len(frames) : frames[k] # "agent_joined",
             UNCHANGED <<link, conns, broken, widget, session, missed>>
      PROVE  HandoffInv'
  <2>1. Open' <=> Open
    BY <1>e DEF Open
  <2>2. CASE ~Open
    BY <2>1, <2>2, <1>e, <1>a DEF HandoffInv, HandoffKnown, JoinedIsFollowed
  <2>3. CASE Open
    <3> DEFINE n == Len(down[conns])
    <3>1. /\ \A i \in 1..n : i \in 1..Len(down'[conns]) /\ down'[conns][i] = down[conns][i]
          /\ \A k \in 1..Len(frames) : down'[conns][n + k] = frames[k]
          /\ \A i \in 1..Len(down'[conns]) :
               i \in 1..n \/ \E k \in 1..Len(frames) : i = n + k
      BY <2>3, <1>e, <1>a, SendAppends
    <3>2. \A i \in 1..Len(down'[conns]) : i \in 1..n \/ down'[conns][i] # "agent_joined"
      <4> HIDE DEF n
      <4> QED BY <3>1, <1>e
    <3>3. HandoffKnown'
      <4>1. (\E j \in 1..n : down[conns][j] = "agent_left")
              => \E j \in 1..Len(down'[conns]) : down'[conns][j] = "agent_left"
        BY <3>1
      <4> QED BY <2>1, <4>1, <1>e, <1>a DEF HandoffKnown
    <3>4. JoinedIsFollowed'
      <4> SUFFICES ASSUME ~session.handoff, NEW i \in 1..Len(down'[conns]),
                          down'[conns][i] = "agent_joined"
                   PROVE  \E j \in 1..Len(down'[conns]) : i < j /\ down'[conns][j] = "agent_left"
        BY <1>e DEF JoinedIsFollowed
      <4>1. i \in 1..n /\ down[conns][i] = "agent_joined"
        BY <3>1, <3>2
      <4>2. PICK j \in 1..n : i < j /\ down[conns][j] = "agent_left"
        BY <2>3, <4>1, <1>a DEF JoinedIsFollowed
      <4> QED BY <3>1, <4>2
    <3> QED BY <3>3, <3>4 DEF HandoffInv
  <2> QED BY <2>2, <2>3
<1>1. CASE Accept
  <2>1. /\ ~Open /\ conns' = conns + 1 /\ UNCHANGED <<widget, session, missed>>
        /\ down' = [down EXCEPT ![conns + 1] = <<"session_info">>]
    BY <1>1 DEF Accept, Open, history
  <2>2. conns + 1 \in Conns
    BY <1>1, <1>a, ChatWidgetAssumption DEF Accept, TypeOK, Conns
  <2>3. Len(down'[conns']) = 1 /\ down'[conns'][1] = "session_info"
    BY <2>1, <2>2, <1>a DEF TypeOK
  <2> QED BY <2>1, <2>3, <1>a DEF HandoffInv, HandoffKnown, JoinedIsFollowed
<1>2. CASE ConnectFails \/ Retry \/ WidgetNotices
  <2>1. /\ ~Open /\ ~Open'
        /\ UNCHANGED <<conns, down, widget, session, missed>>
    BY <1>2 DEF ConnectFails, Retry, WidgetNotices, Closed, Open, server, history
  <2> QED BY <2>1, <1>d
<1>3. CASE Break
  <2>1. /\ Open /\ ~Open' /\ UNCHANGED <<conns, widget, session>>
        /\ missed' = (missed \/ \E i \in DOMAIN down[conns] : down[conns][i] = "agent_left")
    BY <1>3 DEF Break, Open, visitor, server
  <2>2. conns \in Conns /\ DOMAIN down[conns] = 1..Len(down[conns])
    <3>1. conns \in Conns
      BY <2>1, <1>a, ChatWidgetAssumption DEF TypeOK, SocketInv, Open, Conns
    <3>2. down[conns] \in Seq(ServerFrames)
      BY <3>1, <1>a DEF TypeOK
    <3> QED BY <3>1, <3>2
  <2> QED BY <2>1, <2>2, <1>a DEF HandoffInv, HandoffKnown, JoinedIsFollowed
<1>4. CASE Reload
  BY <1>4 DEF Reload, NewPage, HandoffInv, HandoffKnown, JoinedIsFollowed, Open
<1>5. ASSUME NEW c \in Conns, ServerNotices(c) \/ Relay(c) \/ TurnCutOff(c)
      PROVE  HandoffInv'
  BY <1>5, <1>d DEF ServerNotices, Relay, TurnCutOff, visitor, server, history, Open
<1>6. ASSUME NEW c \in Conns, ConfirmHandoff(c)
      PROVE  HandoffInv'
  <2>1. UNCHANGED <<conns, down, link, broken, widget, missed>>
    BY <1>6 DEF ConfirmHandoff, visitor, history
  <2>2. session.handoff => session'.handoff
    BY <1>6, <1>a DEF ConfirmHandoff, TypeOK
  <2> QED BY <2>1, <2>2, <1>d DEF Open
<1>7. CASE UserSends \/ UserConfirms
  <2>1. widget'.handoff = widget.handoff
    BY <1>7, <1>a DEF UserSends, UserConfirms, TypeOK
  <2> QED BY <1>7, <2>1, <1>d DEF UserSends, UserConfirms, server, history, Open
<1>8. CASE WidgetReceives
  <2> DEFINE frame == down[conns][1]
  <2>1. /\ Open /\ frame \in ServerFrames /\ widget' = After(widget, frame)
        /\ Len(down[conns]) \in Nat \ {0}
        /\ UNCHANGED <<link, conns, broken, session, missed>>
    BY <1>8, <1>a, ReceivesFirst DEF server, history
  <2>2. /\ \A i \in 1..Len(down'[conns]) :
             i + 1 \in 1..Len(down[conns]) /\ down'[conns][i] = down[conns][i + 1]
        /\ \A i \in 1..Len(down[conns]) :
             i = 1 \/ (i - 1 \in 1..Len(down'[conns]) /\ down'[conns][i - 1] = down[conns][i])
    BY <1>8, <1>a, ReceivesFirst
  <2>3. widget'.handoff = CASE frame = "agent_joined" -> TRUE
                            [] frame = "agent_left" -> FALSE
                            [] OTHER -> widget.handoff
    BY <2>1, <1>a, PageType
  <2>4. Open'
    BY <2>1 DEF Open
  <2>5. JoinedIsFollowed'
    <3> SUFFICES ASSUME ~session.handoff, NEW i \in 1..Len(down'[conns]),
                        down'[conns][i] = "agent_joined"
                 PROVE  \E j \in 1..Len(down'[conns]) : i < j /\ down'[conns][j] = "agent_left"
      BY <2>1 DEF JoinedIsFollowed
    <3>1. i + 1 \in 1..Len(down[conns]) /\ down[conns][i + 1] = "agent_joined"
      BY <2>2
    <3>2. PICK j \in 1..Len(down[conns]) : i + 1 < j /\ down[conns][j] = "agent_left"
      BY <2>1, <3>1, <1>a DEF JoinedIsFollowed
    <3>3. j - 1 \in 1..Len(down'[conns]) /\ down'[conns][j - 1] = "agent_left" /\ i < j - 1
      BY <2>2, <3>2
    <3> QED BY <3>3
  <2>6. HandoffKnown'
    <3> SUFFICES ASSUME widget'.handoff, ~session.handoff, ~missed
                 PROVE  \E j \in 1..Len(down'[conns]) : down'[conns][j] = "agent_left"
      BY <2>1, <2>4 DEF HandoffKnown
    <3>1. PICK j \in 1..Len(down[conns]) : j # 1 /\ down[conns][j] = "agent_left"
      <4>1. CASE frame = "agent_joined"
        <5>1. 1 \in 1..Len(down[conns])
          BY <2>1
        <5>2. PICK j \in 1..Len(down[conns]) : 1 < j /\ down[conns][j] = "agent_left"
          BY <2>1, <4>1, <5>1, <1>a DEF JoinedIsFollowed
        <5>3. j # 1
          BY <5>2
        <5> QED BY <5>2, <5>3
      <4>2. CASE frame # "agent_joined"
        <5>1. frame # "agent_left" /\ widget.handoff
          BY <2>3, <4>2
        <5> QED BY <5>1, <1>a DEF HandoffKnown
      <4> QED BY <4>1, <4>2
    <3> QED BY <2>2, <3>1
  <2> QED BY <2>5, <2>6 DEF HandoffInv
<1>9. ASSUME NEW c \in Conns, TurnStarts(c) \/ TurnEnds(c)
      PROVE  HandoffInv'
  <2>1. PICK frame \in ServerFrames : frame # "agent_joined" /\ down' = Send(<<frame>>)
    BY <1>9 DEF TurnStarts, TurnEnds, ServerFrames
  <2>2. UNCHANGED <<link, conns, broken, widget, session, missed>>
    BY <1>9 DEF TurnStarts, TurnEnds, visitor, history
  <2>3. <<frame>> \in Seq(ServerFrames) /\ \A k \in 1..Len(<<frame>>) : <<frame>>[k] # "agent_joined"
    BY <2>1
  <2> QED BY <2>1, <2>2, <2>3, <1>e
<1>10. CASE AgentSpeaks
  <2>1. session'.handoff
    BY <1>10, <1>a DEF AgentSpeaks, TypeOK
  <2> QED BY <2>1 DEF HandoffInv, HandoffKnown, JoinedIsFollowed
<1>11. CASE AgentLeaves
  <2>1. /\ registered # 0 /\ missed' = (missed \/ registered \in broken)
        /\ down' = Send(<<"agent_left">>)
        /\ UNCHANGED <<link, conns, broken>>
    BY <1>11 DEF AgentLeaves, visitor
  <2>2. CASE ~Open
    <3>1. missed' /\ ~Open'
      BY <2>1, <2>2, <1>a DEF SocketInv, Open
    <3> QED BY <3>1 DEF HandoffInv, HandoffKnown, JoinedIsFollowed
  <2>3. CASE Open
    <3> DEFINE n == Len(down[conns]) + 1
    <3>1. <<"agent_left">> \in Seq(ServerFrames) /\ Len(<<"agent_left">>) = 1
          /\ <<"agent_left">>[1] = "agent_left"
      BY DEF ServerFrames
    <3>2. /\ Len(down[conns]) \in Nat /\ Len(down'[conns]) = Len(down[conns]) + 1
          /\ n \in 1..Len(down'[conns]) /\ down'[conns][n] = "agent_left"
      <4>1. 1 \in 1..Len(<<"agent_left">>)
        BY <3>1
      <4>2. /\ Len(down[conns]) \in Nat
            /\ Len(down'[conns]) = Len(down[conns]) + Len(<<"agent_left">>)
            /\ \A k \in 1..Len(<<"agent_left">>) :
                 /\ Len(down[conns]) + k \in 1..Len(down'[conns])
                 /\ down'[conns][Len(down[conns]) + k] = <<"agent_left">>[k]
        BY <2>1, <2>3, <3>1, <1>a, SendAppends
      <4> QED BY <3>1, <4>1, <4>2
    <3>3. \A i \in 1..Len(down'[conns]) : down'[conns][i] = "agent_joined" => i < n
      BY <3>2
    <3>4. Open'
      BY <2>1, <2>3 DEF Open
    <3> QED BY <2>1, <3>2, <3>3, <3>4 DEF HandoffInv, HandoffKnown, JoinedIsFollowed
  <2> QED BY <2>2, <2>3
<1>12. CASE UNCHANGED vars
  BY <1>12, <1>d DEF vars, Open
<1> QED BY <1>1, <1>2, <1>3, <1>4, <1>5, <1>6, <1>7, <1>8, <1>9, <1>10, <1>11, <1>12 DEF Next

(* handleServerMessage and _deliver_handoff_resolved: a widget that takes  *)
(* the visitor for connected to an agent is right as soon as it has        *)
(* received what it was sent, on any number of sockets and over any        *)
(* reloads, unless an agent_left was lost with a socket.                   *)
THEOREM HandoffTheorem == Spec => []HandoffIsReal
<1>1. TInv /\ HandoffInv => HandoffIsReal
  <2> SUFFICES ASSUME HandoffInv, Open, widget.handoff, down[conns] = <<>>,
                      ~session.handoff, ~missed
               PROVE  FALSE
    BY DEF HandoffIsReal
  <2>1. 1..Len(down[conns]) = {}
    OBVIOUS
  <2> QED BY <2>1 DEF HandoffInv, HandoffKnown
<1> QED BY <1>1, TypeInvariant, HandoffInit, HandoffStep, PTL DEF Spec

-----------------------------------------------------------------------------
(* The answers the widget awaits                                           *)

\* What the theorem excepts; none of it is ever undone.
Disturbed == cut \/ reloaded \/ unawares \/ mute

\* The frames that end the wait for an answer.
Ends(frame) == frame \in {"stream_end", "ask_human", "agent_left", "error"}

\* Only on the widget's socket is an answer made, or asked for.
ServedHere ==
  \A c \in Conns : handler[c] = "turn" \/ up[c] # <<>> => Open /\ c = conns

\* The answer the widget waits for is asked for, being made, or on its way.
AnswerIsComing ==
  widget.streaming =>
    /\ Open
    /\ \/ handler[conns] = "turn"
       \/ \E i \in 1..Len(up[conns]) : up[conns][i] = "user_message"
       \/ \E j \in 1..Len(down[conns]) : Ends(down[conns][j])

\* A start on its way is followed by an end, or by one that is being made.
StartIsFollowed ==
  Open => \A i \in 1..Len(down[conns]) : down[conns][i] = "stream_start" =>
    handler[conns] = "turn" \/ \E j \in 1..Len(down[conns]) : i < j /\ Ends(down[conns][j])

AwaitInv == Disturbed \/ (ServedHere /\ AnswerIsComing /\ StartIsFollowed)

LEMMA AwaitInit == Init => AwaitInv
BY DEF Init, AwaitInv, ServedHere, AnswerIsComing, StartIsFollowed, NewPage, Open

(* A frame more, or the first one less, in what a socket carries up.       *)
LEMMA FramesUp ==
  ASSUME NEW s \in Seq(ClientFrames), NEW frame \in ClientFrames
  PROVE  /\ \A i \in 1..Len(s) :
              i \in 1..Len(Append(s, frame)) /\ Append(s, frame)[i] = s[i]
         /\ Len(s) + 1 \in 1..Len(Append(s, frame)) /\ Append(s, frame)[Len(s) + 1] = frame
         /\ s # <<>> => \A i \in 1..Len(s) :
              i # 1 => i - 1 \in 1..Len(Tail(s)) /\ Tail(s)[i - 1] = s[i]
<1>1. Len(s) \in Nat /\ Len(Append(s, frame)) = Len(s) + 1
  OBVIOUS
<1>2. \A i \in 1..Len(s) : i \in 1..Len(Append(s, frame)) /\ Append(s, frame)[i] = s[i]
  BY <1>1
<1>3. Len(s) + 1 \in 1..Len(Append(s, frame)) /\ Append(s, frame)[Len(s) + 1] = frame
  BY <1>1
<1>4. s # <<>> => \A i \in 1..Len(s) :
        i # 1 => i - 1 \in 1..Len(Tail(s)) /\ Tail(s)[i - 1] = s[i]
  OBVIOUS
<1> QED BY <1>2, <1>3, <1>4

LEMMA DisturbedStays == ASSUME TInv, [Next]_vars, Disturbed PROVE Disturbed'
<1>1. CASE UNCHANGED <<cut, reloaded, unawares, mute>>
  BY <1>1 DEF Disturbed
<1>2. CASE Accept \/ ConnectFails \/ Retry \/ WidgetNotices \/ UserConfirms \/ WidgetReceives
             \/ AgentSpeaks \/ AgentLeaves
  BY <1>2, <1>1 DEF Accept, ConnectFails, Retry, WidgetNotices, UserConfirms, WidgetReceives,
                    AgentSpeaks, AgentLeaves, history
<1>3. CASE Break \/ Reload \/ UserSends
  BY <1>3 DEF Break, Reload, UserSends, Disturbed
<1>4. ASSUME NEW c \in Conns, ServerNotices(c) \/ TurnStarts(c) \/ TurnEnds(c) \/ ConfirmHandoff(c)
      PROVE  Disturbed'
  BY <1>4, <1>1 DEF ServerNotices, TurnStarts, TurnEnds, ConfirmHandoff, history
<1>5. ASSUME NEW c \in Conns, Relay(c) \/ TurnCutOff(c)
      PROVE  Disturbed'
  BY <1>5 DEF Relay, TurnCutOff, Disturbed
<1>6. CASE UNCHANGED vars
  BY <1>6, <1>1 DEF vars
<1> QED BY <1>2, <1>3, <1>4, <1>5, <1>6 DEF Next

LEMMA AwaitStep ==
  ASSUME TInv, AwaitInv, [Next]_vars
  PROVE  AwaitInv'
<1> SUFFICES ASSUME ~Disturbed'
             PROVE  ServedHere' /\ AnswerIsComing' /\ StartIsFollowed'
  BY DEF AwaitInv
<1>a. TypeOK /\ SocketInv /\ ServedHere /\ AnswerIsComing /\ StartIsFollowed
  BY DisturbedStays DEF TInv, AwaitInv
<1>b. /\ conns \in Nat /\ MaxConns \in Nat
      /\ handler \in [Conns -> {"none", "idle", "turn", "over"}]
      /\ \A c \in Conns : up[c] \in Seq(ClientFrames) /\ down[c] \in Seq(ServerFrames)
  BY <1>a, ChatWidgetAssumption DEF TypeOK
<1>c. Open => conns \in Conns
  BY <1>a, <1>b DEF SocketInv, Open, TypeOK, Conns
<1>h. /\ ~cut' /\ ~reloaded' /\ ~unawares' /\ ~mute'
  BY DEF Disturbed
\* What concerns neither answers nor the requests for them.
<1>d. ASSUME UNCHANGED <<conns, up, down>>, Open' <=> Open,
             \A c \in Conns : handler'[c] = "turn" <=> handler[c] = "turn",
             widget'.streaming => widget.streaming
      PROVE  ServedHere' /\ AnswerIsComing' /\ StartIsFollowed'
  <2>1. ServedHere'
    BY <1>a, <1>d DEF ServedHere
  <2>2. AnswerIsComing'
    BY <1>a, <1>c, <1>d DEF AnswerIsComing
  <2>3. StartIsFollowed'
    BY <1>a, <1>c, <1>d DEF StartIsFollowed
  <2> QED BY <2>1, <2>2, <2>3
\* What the server sends but the start of an answer.
<1>e. ASSUME NEW frames \in Seq(ServerFrames), down' = Send(frames),
             \A k \in 1..Len(frames) : frames[k] # "stream_start",
             UNCHANGED <<link, conns, broken, widget, up, handler>>
      PROVE  ServedHere' /\ AnswerIsComing' /\ StartIsFollowed'
  <2>1. Open' <=> Open
    BY <1>e DEF Open
  <2>2. ServedHere'
    BY <2>1, <1>e, <1>a DEF ServedHere
  <2>3. CASE ~Open
    BY <2>1, <2>2, <2>3, <1>e, <1>a DEF AnswerIsComing, StartIsFollowed
  <2>4. CASE Open
    <3> DEFINE n == Len(down[conns])
    <3>1. /\ \A i \in 1..n : i \in 1..Len(down'[conns]) /\ down'[conns][i] = down[conns][i]
          /\ \A k \in 1..Len(frames) : down'[conns][n + k] = frames[k]
          /\ \A i \in 1..Len(down'[conns]) :
               i \in 1..n \/ \E k \in 1..Len(frames) : i = n + k
      BY <2>4, <1>e, <1>a, SendAppends
    <3>2. \A i \in 1..Len(down'[conns]) : i \in 1..n \/ down'[conns][i] # "stream_start"
      <4> HIDE DEF n
      <4> QED BY <3>1, <1>e
    <3>3. AnswerIsComing'
      <4>1. (\E j \in 1..n : Ends(down[conns][j]))
              => \E j \in 1..Len(down'[conns]) : Ends(down'[conns][j])
        BY <3>1
      <4> QED BY <2>1, <4>1, <1>e, <1>a DEF AnswerIsComing
    <3>4. StartIsFollowed'
      <4> SUFFICES ASSUME NEW i \in 1..Len(down'[conns]), down'[conns][i] = "stream_start",
                          handler[conns] # "turn"
                   PROVE  \E j \in 1..Len(down'[conns]) : i < j /\ Ends(down'[conns][j])
        BY <1>e DEF StartIsFollowed
      <4>1. i \in 1..n /\ down[conns][i] = "stream_start"
        BY <3>1, <3>2
      <4>2. PICK j \in 1..n : i < j /\ Ends(down[conns][j])
        BY <2>4, <4>1, <1>a DEF StartIsFollowed
      <4> QED BY <3>1, <4>2
    <3> QED BY <2>2, <3>3, <3>4
  <2> QED BY <2>3, <2>4
<1>1. CASE Accept
  <2>1. /\ ~Open /\ Open' /\ conns' = conns + 1 /\ conns + 1 \in Conns /\ UNCHANGED <<widget, up>>
        /\ down' = [down EXCEPT ![conns + 1] = <<"session_info">>]
        /\ handler' = [handler EXCEPT ![conns + 1] = "idle"]
    <3>1. /\ ~Open /\ conns' = conns + 1 /\ link' = "open" /\ UNCHANGED <<widget, up, broken>>
          /\ down' = [down EXCEPT ![conns + 1] = <<"session_info">>]
          /\ handler' = [handler EXCEPT ![conns + 1] = "idle"]
          /\ conns < MaxConns
      BY <1>1 DEF Accept, Open, history
    <3>2. conns + 1 \in Conns /\ conns + 1 \notin broken
      BY <3>1, <1>a, <1>b DEF SocketInv, Conns
    <3> QED BY <3>1, <3>2 DEF Open
  <2>2. \A c \in Conns : handler'[c] # "turn" /\ up'[c] = <<>>
    BY <2>1, <1>a, <1>b DEF ServedHere
  <2>3. ~widget'.streaming
    BY <2>1, <1>a DEF AnswerIsComing
  <2>4. Len(down'[conns']) = 1 /\ down'[conns'][1] = "session_info"
    BY <2>1, <1>a DEF TypeOK
  <2> QED BY <2>2, <2>3, <2>4 DEF ServedHere, AnswerIsComing, StartIsFollowed
<1>2. CASE ConnectFails \/ Retry \/ WidgetNotices
  <2>1. ~Open /\ ~Open' /\ UNCHANGED <<conns, down, up, widget, handler>>
    BY <1>2 DEF ConnectFails, Retry, WidgetNotices, Closed, Open, server, history
  <2> QED BY <2>1, <1>d
<1>3. CASE Break \/ Reload
  <2>1. ~Awaiting
    BY <1>3, <1>h DEF Break, Reload
  <2>2. ~Open' /\ handler' = handler /\ ~widget'.streaming
    BY <1>3, <2>1 DEF Break, Reload, Open, visitor, server, NewPage, Awaiting
  <2>3. up' = up
    <3>1. CASE Reload
      BY <3>1 DEF Reload
    <3>2. CASE Break
      <4>1. up[conns] = <<>>
        BY <2>1, <3>2, <1>c DEF Awaiting, Break
      <4>2. PICK n \in 0..Len(up[conns]) : up' = [up EXCEPT ![conns] = SubSeq(up[conns], 1, n)]
        BY <3>2 DEF Break
      <4>3. SubSeq(up[conns], 1, n) = <<>>
        BY <4>1, <4>2
      <4> QED BY <4>1, <4>2, <4>3, <1>a DEF TypeOK
    <3> QED BY <1>3, <3>1, <3>2
  <2>4. \A c \in Conns : handler'[c] # "turn" /\ up'[c] = <<>>
    BY <2>1, <2>2, <2>3 DEF Awaiting
  <2> QED BY <2>2, <2>4 DEF ServedHere, AnswerIsComing, StartIsFollowed
<1>4. ASSUME NEW c \in Conns, ServerNotices(c)
      PROVE  ServedHere' /\ AnswerIsComing' /\ StartIsFollowed'
  <2>1. /\ handler[c] = "idle" /\ handler' = [handler EXCEPT ![c] = "over"]
        /\ UNCHANGED <<conns, down, up, widget, link, broken>>
    BY <1>4 DEF ServerNotices, visitor
  <2>2. \A d \in Conns : handler'[d] = "turn" <=> handler[d] = "turn"
    BY <2>1, <1>b
  <2> QED BY <2>1, <2>2, <1>d DEF Open
\* A frame of the visitor joins the others.
<1>f. ASSUME Open, NEW frame \in ClientFrames, up' = [up EXCEPT ![conns] = Append(@, frame)],
             UNCHANGED <<link, conns, broken, down, handler>>,
             widget'.streaming => widget.streaming \/ frame = "user_message"
      PROVE  ServedHere' /\ AnswerIsComing' /\ StartIsFollowed'
  <2>1. Open' /\ conns \in Conns
    BY <1>c, <1>f DEF Open
  <2>2. up'[conns] = Append(up[conns], frame) /\ \A c \in Conns : c # conns => up'[c] = up[c]
    BY <2>1, <1>f, <1>a DEF TypeOK
  <2>3. /\ \A i \in 1..Len(up[conns]) :
             i \in 1..Len(up'[conns]) /\ up'[conns][i] = up[conns][i]
        /\ Len(up[conns]) + 1 \in 1..Len(up'[conns])
        /\ up'[conns][Len(up[conns]) + 1] = frame
    BY <2>1, <2>2, <1>b, FramesUp
  <2>4. ServedHere'
    BY <2>1, <2>2, <1>f, <1>a DEF ServedHere
  <2>5. AnswerIsComing'
    BY <2>1, <2>3, <1>f, <1>a DEF AnswerIsComing
  <2>6. StartIsFollowed'
    BY <2>1, <1>f, <1>a DEF StartIsFollowed
  <2> QED BY <2>4, <2>5, <2>6
<1>5. CASE UserSends
  <2>1. /\ Open /\ up' = [up EXCEPT ![conns] = Append(@, "user_message")]
        /\ UNCHANGED <<link, conns, broken, down, handler>>
    BY <1>5, <1>h DEF UserSends, Sends, Open, server
  <2> QED BY <2>1, <1>f DEF ClientFrames
<1>6. CASE UserConfirms
  <2>1. widget'.streaming = widget.streaming /\ UNCHANGED <<link, conns, broken, down, handler>>
    BY <1>6, <1>a DEF UserConfirms, TypeOK, server
  <2>2. CASE Open
    <3>1. up' = [up EXCEPT ![conns] = Append(@, "confirm_handoff")]
      BY <1>6, <2>2 DEF UserConfirms, Sends
    <3> QED BY <2>1, <2>2, <3>1, <1>f DEF ClientFrames
  <2>3. CASE ~Open
    <3>1. up' = up
      BY <1>6, <2>3 DEF UserConfirms, Sends
    <3> QED BY <2>1, <3>1, <1>d DEF Open
  <2> QED BY <2>2, <2>3
<1>7. CASE WidgetReceives
  <2> DEFINE frame == down[conns][1]
  <2>1. /\ Open /\ conns \in Conns /\ frame \in ServerFrames /\ widget' = After(widget, frame)
        /\ Len(down[conns]) \in Nat \ {0}
        /\ UNCHANGED <<link, conns, broken, up, handler>>
    BY <1>7, <1>a, ReceivesFirst DEF server
  <2>2. /\ \A i \in 1..Len(down'[conns]) :
             i + 1 \in 1..Len(down[conns]) /\ down'[conns][i] = down[conns][i + 1]
        /\ \A i \in 1..Len(down[conns]) :
             i = 1 \/ (i - 1 \in 1..Len(down'[conns]) /\ down'[conns][i - 1] = down[conns][i])
    BY <1>7, <1>a, ReceivesFirst
  <2>3. widget'.streaming =
          CASE frame = "stream_start" -> TRUE
            [] frame \in {"stream_end", "ask_human", "agent_left", "error"} -> FALSE
            [] OTHER -> widget.streaming
    BY <2>1, <1>a, PageType
  <2>4. Open'
    BY <2>1 DEF Open
  <2>5. ServedHere'
    BY <2>1, <2>4, <1>a DEF ServedHere
  <2>6. StartIsFollowed'
    <3> SUFFICES ASSUME NEW i \in 1..Len(down'[conns]), down'[conns][i] = "stream_start",
                        handler[conns] # "turn"
                 PROVE  \E j \in 1..Len(down'[conns]) : i < j /\ Ends(down'[conns][j])
      BY <2>1 DEF StartIsFollowed
    <3>1. i + 1 \in 1..Len(down[conns]) /\ down[conns][i + 1] = "stream_start"
      BY <2>2
    <3>2. PICK j \in 1..Len(down[conns]) : i + 1 < j /\ Ends(down[conns][j])
      BY <2>1, <3>1, <1>a DEF StartIsFollowed
    <3>3. j - 1 \in 1..Len(down'[conns]) /\ down'[conns][j - 1] = down[conns][j] /\ i < j - 1
      BY <2>2, <3>2
    <3> QED BY <3>2, <3>3
  <2>7. AnswerIsComing'
    <3> SUFFICES ASSUME widget'.streaming, handler[conns] # "turn",
                        ~\E i \in 1..Len(up[conns]) : up[conns][i] = "user_message"
                 PROVE  \E j \in 1..Len(down'[conns]) : Ends(down'[conns][j])
      BY <2>1, <2>4 DEF AnswerIsComing
    <3>1. PICK j \in 1..Len(down[conns]) : j # 1 /\ Ends(down[conns][j])
      <4>1. CASE frame = "stream_start"
        <5>1. 1 \in 1..Len(down[conns])
          BY <2>1
        <5>2. PICK j \in 1..Len(down[conns]) : 1 < j /\ Ends(down[conns][j])
          BY <2>1, <4>1, <5>1, <1>a DEF StartIsFollowed
        <5>3. j # 1
          BY <5>2
        <5> QED BY <5>2, <5>3
      <4>2. CASE frame # "stream_start"
        <5>1. ~Ends(frame) /\ widget.streaming
          BY <2>3, <4>2 DEF Ends
        <5> QED BY <5>1, <1>a DEF AnswerIsComing
      <4> QED BY <4>1, <4>2
    <3> QED BY <2>2, <3>1
  <2> QED BY <2>5, <2>6, <2>7
<1>8. CASE AgentSpeaks
  <2>1. /\ down' = Send(IF session.joined THEN <<"agent_message">>
                        ELSE <<"agent_joined", "agent_message">>)
        /\ UNCHANGED <<link, conns, broken, widget, up, handler>>
    BY <1>8 DEF AgentSpeaks, visitor
  <2>2. /\ <<"agent_message">> \in Seq(ServerFrames)
        /\ <<"agent_joined", "agent_message">> \in Seq(ServerFrames)
        /\ \A k \in 1..Len(<<"agent_message">>) : <<"agent_message">>[k] # "stream_start"
        /\ \A k \in 1..Len(<<"agent_joined", "agent_message">>) :
             <<"agent_joined", "agent_message">>[k] # "stream_start"
    BY DEF ServerFrames
  <2> QED BY <2>1, <2>2, <1>e
<1>9. CASE AgentLeaves
  <2>1. /\ down' = Send(<<"agent_left">>) /\ UNCHANGED <<link, conns, broken, widget, up, handler>>
    BY <1>9 DEF AgentLeaves, visitor
  <2>2. /\ <<"agent_left">> \in Seq(ServerFrames)
        /\ \A k \in 1..Len(<<"agent_left">>) : <<"agent_left">>[k] # "stream_start"
    BY DEF ServerFrames
  <2> QED BY <2>1, <2>2, <1>e
\* The receive loop of the widget's socket takes the next frame.
<1>g. ASSUME NEW c \in Conns, NEW frame \in ClientFrames, NextFrame(c, frame)
      PROVE  /\ Open /\ c = conns
             /\ \A d \in Conns : d # conns => up'[d] = up[d]
             /\ \A i \in 1..Len(up[conns]) :
                  up[conns][i] # frame => i - 1 \in 1..Len(up'[conns])
                                          /\ up'[conns][i - 1] = up[conns][i]
  <2>1. /\ up[c] # <<>> /\ up[c][1] = frame /\ up' = [up EXCEPT ![c] = Tail(@)]
    BY <1>g, <1>b DEF NextFrame
  <2>2. Open /\ c = conns
    BY <2>1, <1>a DEF ServedHere
  <2>3. up'[conns] = Tail(up[conns]) /\ \A d \in Conns : d # conns => up'[d] = up[d]
    BY <2>1, <2>2, <1>a DEF TypeOK
  <2>4. \A i \in 1..Len(up[conns]) : up[conns][i] # frame => i # 1
    BY <2>1, <2>2
  <2>5. \A i \in 1..Len(up[conns]) :
          i # 1 => i - 1 \in 1..Len(Tail(up[conns])) /\ Tail(up[conns])[i - 1] = up[conns][i]
    <3>1. up[conns] \in Seq(ClientFrames) /\ up[conns] # <<>>
      BY <2>1, <2>2, <1>b
    <3> QED BY <3>1, FramesUp
  <2> QED BY <2>2, <2>3, <2>4, <2>5
<1>10. ASSUME NEW c \in Conns, Relay(c)
       PROVE  ServedHere' /\ AnswerIsComing' /\ StartIsFollowed'
  <2>1. /\ NextFrame(c, "user_message") /\ ~widget.streaming
        /\ UNCHANGED <<widget, link, conns, broken, down, handler>>
    BY <1>10, <1>h DEF Relay, visitor, server
  <2>2. Open /\ Open' /\ \A d \in Conns : d # conns => up'[d] = up[d]
    BY <2>1, <1>g DEF ClientFrames, Open
  <2> QED BY <2>1, <2>2, <1>a DEF ServedHere, AnswerIsComing, StartIsFollowed
<1>11. ASSUME NEW c \in Conns, TurnStarts(c)
       PROVE  ServedHere' /\ AnswerIsComing' /\ StartIsFollowed'
  <2>1. /\ NextFrame(c, "user_message") /\ handler' = [handler EXCEPT ![c] = "turn"]
        /\ UNCHANGED <<widget, link, conns, broken>>
    BY <1>11 DEF TurnStarts, visitor
  <2>2. Open /\ c = conns /\ Open' /\ \A d \in Conns : d # conns => up'[d] = up[d]
    BY <2>1, <1>g DEF ClientFrames, Open
  <2>3. handler'[conns] = "turn" /\ \A d \in Conns : d # conns => handler'[d] = handler[d]
    BY <2>1, <2>2, <1>b
  <2> QED BY <2>1, <2>2, <2>3, <1>a DEF ServedHere, AnswerIsComing, StartIsFollowed
<1>12. ASSUME NEW c \in Conns, TurnEnds(c)
       PROVE  ServedHere' /\ AnswerIsComing' /\ StartIsFollowed'
  <2>1. PICK frame \in ServerFrames : Ends(frame) /\ down' = Send(<<frame>>)
    BY <1>12 DEF TurnEnds, ServerFrames, Ends
  <2>2. /\ handler[c] = "turn" /\ handler' = [handler EXCEPT ![c] = "idle"]
        /\ UNCHANGED <<widget, link, conns, broken, up>>
    BY <1>12 DEF TurnEnds, visitor
  <2>3. Open /\ c = conns /\ Open'
    BY <2>2, <1>a DEF ServedHere, Open
  <2>4. handler'[conns] = "idle" /\ \A d \in Conns : d # conns => handler'[d] = handler[d]
    BY <2>2, <2>3, <1>b
  <2> DEFINE n == Len(down[conns]) + 1
  <2>5. /\ Len(down[conns]) \in Nat /\ Len(down'[conns]) = n
        /\ n \in 1..Len(down'[conns]) /\ down'[conns][n] = frame
    <3>1. <<frame>> \in Seq(ServerFrames) /\ Len(<<frame>>) = 1 /\ <<frame>>[1] = frame
      OBVIOUS
    <3>2. 1 \in 1..Len(<<frame>>)
      BY <3>1
    <3>3. /\ Len(down[conns]) \in Nat
          /\ Len(down'[conns]) = Len(down[conns]) + Len(<<frame>>)
          /\ \A k \in 1..Len(<<frame>>) :
               /\ Len(down[conns]) + k \in 1..Len(down'[conns])
               /\ down'[conns][Len(down[conns]) + k] = <<frame>>[k]
      BY <2>1, <2>3, <3>1, <1>a, SendAppends
    <3> QED BY <3>1, <3>2, <3>3
  <2>6. \A i \in 1..Len(down'[conns]) : down'[conns][i] = "stream_start" => i < n
    BY <2>1, <2>5 DEF Ends
  <2>7. ServedHere'
    BY <2>2, <2>3, <2>4, <1>a DEF ServedHere
  <2>8. AnswerIsComing' /\ StartIsFollowed'
    <3> HIDE DEF n
    <3> QED BY <2>1, <2>2, <2>3, <2>5, <2>6 DEF AnswerIsComing, StartIsFollowed
  <2> QED BY <2>7, <2>8
<1>13. ASSUME NEW c \in Conns, TurnCutOff(c)
       PROVE  ServedHere' /\ AnswerIsComing' /\ StartIsFollowed'
  BY <1>13, <1>h DEF TurnCutOff
<1>14. ASSUME NEW c \in Conns, ConfirmHandoff(c)
       PROVE  ServedHere' /\ AnswerIsComing' /\ StartIsFollowed'
  <2>1. NextFrame(c, "confirm_handoff") /\ UNCHANGED <<widget, link, conns, broken, down, handler>>
    BY <1>14 DEF ConfirmHandoff, visitor
  <2>2. /\ Open /\ Open' /\ \A d \in Conns : d # conns => up'[d] = up[d]
        /\ \A i \in 1..Len(up[conns]) :
             up[conns][i] # "confirm_handoff" => i - 1 \in 1..Len(up'[conns])
                                                 /\ up'[conns][i - 1] = up[conns][i]
    BY <2>1, <1>g DEF ClientFrames, Open
  <2>3. (\E i \in 1..Len(up[conns]) : up[conns][i] = "user_message")
          => \E i \in 1..Len(up'[conns]) : up'[conns][i] = "user_message"
    BY <2>2
  <2> QED BY <2>1, <2>2, <2>3, <1>a DEF ServedHere, AnswerIsComing, StartIsFollowed
<1>15. CASE UNCHANGED vars
  BY <1>15, <1>d DEF vars, Open
<1> QED BY <1>1, <1>2, <1>3, <1>4, <1>5, <1>6, <1>7, <1>8, <1>9, <1>10, <1>11, <1>12, <1>13,
           <1>14, <1>15 DEF Next

(* sendMessage, handleServerMessage and the turns of the server's tasks: a *)
(* widget that waits on a live socket for an answer nobody is making has   *)
(* lost one to a broken socket, to a reload, to an agent it was not told   *)
(* of or to a stream that was cut off, and to nothing else.                *)
THEOREM AnswerTheorem == Spec => []StuckOnlyIfCutOrUnawares
<1>1. TInv /\ AwaitInv => StuckOnlyIfCutOrUnawares
  <2> SUFFICES ASSUME TInv, AwaitInv, Stuck, ~Disturbed
               PROVE  FALSE
    BY DEF StuckOnlyIfCutOrUnawares, Disturbed
  <2>1. /\ Open /\ widget.streaming /\ up[conns] = <<>> /\ down[conns] = <<>>
        /\ \A c \in Conns : handler[c] # "turn"
    BY DEF Stuck
  <2>2. 1..Len(up[conns]) = {} /\ 1..Len(down[conns]) = {}
    BY <2>1
  <2>3. handler[conns] = "turn"
    BY <2>1, <2>2 DEF AwaitInv, AnswerIsComing
  <2>4. conns \in Conns
    BY <2>1, ChatWidgetAssumption DEF TInv, TypeOK, SocketInv, Open, Conns
  <2> QED BY <2>1, <2>3, <2>4
<1> QED BY <1>1, TypeInvariant, AwaitInit, AwaitStep, PTL DEF Spec
=============================================================================
