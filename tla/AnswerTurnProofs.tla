-------------------------- MODULE AnswerTurnProofs --------------------------
(***************************************************************************)
(* For any messages, lookups and failures, whatever their order: what      *)
(* AnswerTurn's safety run checks on two messages.                         *)
(*                                                                         *)
(* What makes the invariants inductive is where a turn is: the stage says  *)
(* whether its end was told, whether anything was recorded, and that it    *)
(* has asked the model (`Stage`),                                          *)
(* and the agent's text is the channel's (`text` and `sent` are two        *)
(* variables of two coroutines in the code).                               *)
(***************************************************************************)
EXTENDS AnswerTurn, SequenceTheorems, TLAPS

\* Stages before, and after, the last frame.
Open(t)  == at[t] \in {"idle", "asked", "retrieving", "awaiting", "releasing",
                       "streaming", "replaying"}
Ended(t) == at[t] \in {"completed", "kept"}

Stage ==
  \A t \in Turns :
    /\ Open(t) => ending[t] = "none"
    /\ Ended(t) => ending[t] = "stream_end"
    /\ at[t] # "over" => logged[t] = None
    /\ at[t] = "streaming" => attempt[t] \in Attempts

TextIsSent == \A t \in Turns : text[t] = sent[t]

AInv ==
  /\ TypeOK
  /\ NoLookupOutlivesTurn
  /\ Stage
  /\ TextIsSent
  /\ RecordsAgree
  /\ SavedWasShownWhole

\* A text that grows by pieces stays a text.
LEMMA TextGrows ==
  ASSUME NEW s \in Texts, NEW p \in Texts
  PROVE  s \o p \in Texts
  BY ConcatProperties DEF Texts

LEMMA OnePiece ==
  ASSUME NEW a \in Attempts
  PROVE  <<a>> \in Texts
  BY DEF Texts

\* The empty text, of a turn that has none yet.
LEMMA EmptyText == <<>> \in Texts
  BY EmptySeq DEF Texts

LEMMA InitAInv == Init => AInv
  BY EmptyText
  DEF Init, AInv, TypeOK, NoLookupOutlivesTurn, Running, Stage, Open, Ended,
      TextIsSent, RecordsAgree, SavedWasShownWhole, Stages
\* What a step of one turn does to the invariant.
LEMMA TurnStep ==
  ASSUME AInv, NEW t \in Turns, Proceeds(t) \/ Ask(t) \/ Leave(t) \/ RetrievalFails(t)
           \/ FallsBack(t) \/ ModelFails(t) \/ CutOff(t)
  PROVE  AInv'
<1> USE DEF asked, kept, history
<1>1. CASE Ask(t)
  <2>1. TypeOK'
    BY <1>1 DEF AInv, TypeOK, Stages, Ask, Goes
  <2>2. NoLookupOutlivesTurn'
    BY <1>1 DEF AInv, NoLookupOutlivesTurn, Running, TypeOK, Ask, Goes
  <2>3. (Stage /\ TextIsSent)'
    BY <1>1 DEF AInv, Stage, Open, Ended, TextIsSent, TypeOK, Ask, Goes
  <2>4. RecordsAgree'
    BY <1>1 DEF AInv, RecordsAgree, Stage, Open, Ended, TextIsSent, TypeOK, Ask, Goes
  <2>5. SavedWasShownWhole'
    BY <1>1 DEF AInv, SavedWasShownWhole, Stage, Open, Ended, TextIsSent, TypeOK, Ask, Goes
  <2> QED BY <2>1, <2>2, <2>3, <2>4, <2>5 DEF AInv
<1>2. CASE Replay(t)
  <2>1. TypeOK'
    BY <1>2, TextGrows, OnePiece DEF AInv, TypeOK, Stages, Replay, Goes, Shows
  <2>2. NoLookupOutlivesTurn'
    BY <1>2 DEF AInv, NoLookupOutlivesTurn, Running, TypeOK, Replay, Goes, Shows
  <2>3. (Stage /\ TextIsSent)'
    BY <1>2 DEF AInv, Stage, Open, Ended, TextIsSent, TypeOK, Replay, Goes, Shows
  <2>4. RecordsAgree'
    BY <1>2 DEF AInv, RecordsAgree, Stage, Open, Ended, TextIsSent, TypeOK, Replay, Goes, Shows
  <2>5. SavedWasShownWhole'
    BY <1>2 DEF AInv, SavedWasShownWhole, Stage, Open, Ended, TextIsSent, TypeOK, Replay, Goes, Shows
  <2> QED BY <2>1, <2>2, <2>3, <2>4, <2>5 DEF AInv
<1>3. CASE Replayed(t)
  <2>1. TypeOK'
    BY <1>3 DEF AInv, TypeOK, Stages, Replayed, Goes, Closes
  <2>2. NoLookupOutlivesTurn'
    BY <1>3 DEF AInv, NoLookupOutlivesTurn, Running, TypeOK, Replayed, Goes, Closes
  <2>3. (Stage /\ TextIsSent)'
    BY <1>3 DEF AInv, Stage, Open, Ended, TextIsSent, TypeOK, Replayed, Goes, Closes
  <2>4. RecordsAgree'
    BY <1>3 DEF AInv, RecordsAgree, Stage, Open, Ended, TextIsSent, TypeOK, Replayed, Goes, Closes
  <2>5. SavedWasShownWhole'
    BY <1>3 DEF AInv, SavedWasShownWhole, Stage, Open, Ended, TextIsSent, TypeOK, Replayed, Goes, Closes
  <2> QED BY <2>1, <2>2, <2>3, <2>4, <2>5 DEF AInv
<1>4. CASE Gather(t)
  <2>1. TypeOK'
    BY <1>4 DEF AInv, TypeOK, Stages, Gather, Goes
  <2>2. NoLookupOutlivesTurn'
    BY <1>4 DEF AInv, NoLookupOutlivesTurn, Running, TypeOK, Gather, Goes
  <2>3. (Stage /\ TextIsSent)'
    BY <1>4 DEF AInv, Stage, Open, Ended, TextIsSent, TypeOK, Gather, Goes
  <2>4. RecordsAgree'
    BY <1>4 DEF AInv, RecordsAgree, Stage, Open, Ended, TextIsSent, TypeOK, Gather, Goes
  <2>5. SavedWasShownWhole'
    BY <1>4 DEF AInv, SavedWasShownWhole, Stage, Open, Ended, TextIsSent, TypeOK, Gather, Goes
  <2> QED BY <2>1, <2>2, <2>3, <2>4, <2>5 DEF AInv
<1>5. ASSUME NEW l \in Lookups, LookupEnds(t, l) PROVE AInv'
  <2>1. TypeOK'
    BY <1>5 DEF AInv, TypeOK, Stages, LookupEnds
  <2>2. NoLookupOutlivesTurn'
    BY <1>5 DEF AInv, NoLookupOutlivesTurn, Running, TypeOK, LookupEnds
  <2>3. (Stage /\ TextIsSent)'
    BY <1>5 DEF AInv, Stage, Open, Ended, TextIsSent, TypeOK, LookupEnds
  <2>4. RecordsAgree'
    BY <1>5 DEF AInv, RecordsAgree, Stage, Open, Ended, TextIsSent, TypeOK, LookupEnds
  <2>5. SavedWasShownWhole'
    BY <1>5 DEF AInv, SavedWasShownWhole, Stage, Open, Ended, TextIsSent, TypeOK, LookupEnds
  <2> QED BY <2>1, <2>2, <2>3, <2>4, <2>5 DEF AInv
<1>6. CASE Retrieved(t)
  <2>1. TypeOK'
    <3>1. lookup' \in [Turns -> [Lookups -> {"off", "running", "ended", "cancelled"}]]
      <4>1. CASE UNCHANGED lookup
        BY <4>1 DEF AInv, TypeOK
      <4>2. CASE lookup' = [lookup EXCEPT ![t][BillInfo] = "running"]
        BY <4>2, AnswerTurnAssumption DEF AInv, TypeOK
      <4> QED BY <1>6, <4>1, <4>2 DEF Retrieved
    <3> QED BY <1>6, <3>1 DEF AInv, TypeOK, Stages, Retrieved, Goes
  <2>2. NoLookupOutlivesTurn'
    BY <1>6 DEF AInv, NoLookupOutlivesTurn, Running, TypeOK, Retrieved, Goes
  <2>3. (Stage /\ TextIsSent)'
    BY <1>6 DEF AInv, Stage, Open, Ended, TextIsSent, TypeOK, Retrieved, Goes
  <2>4. RecordsAgree'
    BY <1>6 DEF AInv, RecordsAgree, Stage, Open, Ended, TextIsSent, TypeOK, Retrieved, Goes
  <2>5. SavedWasShownWhole'
    BY <1>6 DEF AInv, SavedWasShownWhole, Stage, Open, Ended, TextIsSent, TypeOK, Retrieved, Goes
  <2> QED BY <2>1, <2>2, <2>3, <2>4, <2>5 DEF AInv
<1>7. CASE RetrievalFails(t)
  <2>1. TypeOK'
    BY <1>7 DEF AInv, TypeOK, Stages, RetrievalFails, Goes
  <2>2. NoLookupOutlivesTurn'
    BY <1>7 DEF AInv, NoLookupOutlivesTurn, Running, TypeOK, RetrievalFails, Goes
  <2>3. (Stage /\ TextIsSent)'
    BY <1>7 DEF AInv, Stage, Open, Ended, TextIsSent, TypeOK, RetrievalFails, Goes
  <2>4. RecordsAgree'
    BY <1>7 DEF AInv, RecordsAgree, Stage, Open, Ended, TextIsSent, TypeOK, RetrievalFails, Goes
  <2>5. SavedWasShownWhole'
    BY <1>7 DEF AInv, SavedWasShownWhole, Stage, Open, Ended, TextIsSent, TypeOK, RetrievalFails, Goes
  <2> QED BY <2>1, <2>2, <2>3, <2>4, <2>5 DEF AInv
<1>8. ASSUME NEW l \in Lookups, LookupCancelled(t, l) PROVE AInv'
  <2>1. TypeOK'
    BY <1>8 DEF AInv, TypeOK, Stages, LookupCancelled
  <2>2. NoLookupOutlivesTurn'
    BY <1>8 DEF AInv, NoLookupOutlivesTurn, Running, TypeOK, LookupCancelled
  <2>3. (Stage /\ TextIsSent)'
    BY <1>8 DEF AInv, Stage, Open, Ended, TextIsSent, TypeOK, LookupCancelled
  <2>4. RecordsAgree'
    BY <1>8 DEF AInv, RecordsAgree, Stage, Open, Ended, TextIsSent, TypeOK, LookupCancelled
  <2>5. SavedWasShownWhole'
    BY <1>8 DEF AInv, SavedWasShownWhole, Stage, Open, Ended, TextIsSent, TypeOK, LookupCancelled
  <2> QED BY <2>1, <2>2, <2>3, <2>4, <2>5 DEF AInv
<1>9. CASE Released(t)
  <2>1. TypeOK'
    BY <1>9 DEF AInv, TypeOK, Stages, Released, Goes, Running, Closes
  <2>2. NoLookupOutlivesTurn'
    BY <1>9 DEF AInv, NoLookupOutlivesTurn, Running, TypeOK, Released, Goes, Closes
  <2>3. (Stage /\ TextIsSent)'
    BY <1>9 DEF AInv, Stage, Open, Ended, TextIsSent, TypeOK, Released, Goes, Running, Closes
  <2>4. RecordsAgree'
    BY <1>9 DEF AInv, RecordsAgree, Stage, Open, Ended, TextIsSent, TypeOK, Released, Goes, Running, Closes
  <2>5. SavedWasShownWhole'
    BY <1>9 DEF AInv, SavedWasShownWhole, Stage, Open, Ended, TextIsSent, TypeOK, Released, Goes, Running, Closes
  <2> QED BY <2>1, <2>2, <2>3, <2>4, <2>5 DEF AInv
<1>10. CASE AskModel(t)
  <2>1. TypeOK'
    BY <1>10 DEF AInv, TypeOK, Stages, AskModel, Goes, Attempts
  <2>2. NoLookupOutlivesTurn'
    BY <1>10 DEF AInv, NoLookupOutlivesTurn, Running, TypeOK, AskModel, Goes
  <2>3. (Stage /\ TextIsSent)'
    BY <1>10 DEF AInv, Stage, Open, Ended, TextIsSent, TypeOK, AskModel, Goes, Attempts
  <2>4. RecordsAgree'
    BY <1>10 DEF AInv, RecordsAgree, Stage, Open, Ended, TextIsSent, TypeOK, AskModel, Goes, Running
  <2>5. SavedWasShownWhole'
    BY <1>10 DEF AInv, SavedWasShownWhole, Stage, Open, Ended, TextIsSent, TypeOK, AskModel, Goes, Running
  <2> QED BY <2>1, <2>2, <2>3, <2>4, <2>5 DEF AInv
<1>11. CASE Delta(t)
  <2>1. TypeOK'
    <3>1. <<attempt[t]>> \in Texts
      BY <1>11, OnePiece DEF AInv, Stage, Delta
    <3>2. text[t] \o <<attempt[t]>> \in Texts /\ sent[t] \o <<attempt[t]>> \in Texts
      BY <3>1, TextGrows DEF AInv, TypeOK
    <3> QED BY <1>11, <3>2 DEF AInv, TypeOK, Stages, Delta, Shows
  <2>2. NoLookupOutlivesTurn'
    BY <1>11 DEF AInv, NoLookupOutlivesTurn, Running, TypeOK, Delta, Shows
  <2>3. (Stage /\ TextIsSent)'
    BY <1>11 DEF AInv, Stage, Open, Ended, TextIsSent, TypeOK, Delta, Shows
  <2>4. RecordsAgree'
    BY <1>11 DEF AInv, RecordsAgree, Stage, Open, Ended, TextIsSent, TypeOK, Delta, Shows
  <2>5. SavedWasShownWhole'
    BY <1>11 DEF AInv, SavedWasShownWhole, Stage, Open, Ended, TextIsSent, TypeOK, Delta, Shows
  <2> QED BY <2>1, <2>2, <2>3, <2>4, <2>5 DEF AInv
<1>12. CASE Completed(t)
  <2>1. TypeOK'
    BY <1>12 DEF AInv, TypeOK, Stages, Completed, Goes, Closes
  <2>2. NoLookupOutlivesTurn'
    BY <1>12 DEF AInv, NoLookupOutlivesTurn, Running, TypeOK, Completed, Goes, Closes
  <2>3. (Stage /\ TextIsSent)'
    BY <1>12 DEF AInv, Stage, Open, Ended, TextIsSent, TypeOK, Completed, Goes, Closes
  <2>4. RecordsAgree'
    BY <1>12 DEF AInv, RecordsAgree, Stage, Open, Ended, TextIsSent, TypeOK, Completed, Goes, Closes
  <2>5. SavedWasShownWhole'
    BY <1>12 DEF AInv, SavedWasShownWhole, Stage, Open, Ended, TextIsSent, TypeOK, Completed, Goes, Closes
  <2> QED BY <2>1, <2>2, <2>3, <2>4, <2>5 DEF AInv
<1>13. CASE FallsBack(t)
  <2>1. TypeOK'
    BY <1>13 DEF AInv, TypeOK, Stages, FallsBack, Attempts
  <2>2. NoLookupOutlivesTurn'
    BY <1>13 DEF AInv, NoLookupOutlivesTurn, Running, TypeOK, FallsBack
  <2>3. (Stage /\ TextIsSent)'
    BY <1>13 DEF AInv, Stage, Open, Ended, TextIsSent, TypeOK, FallsBack, Attempts
  <2>4. RecordsAgree'
    BY <1>13 DEF AInv, RecordsAgree, Stage, Open, Ended, TextIsSent, TypeOK, FallsBack
  <2>5. SavedWasShownWhole'
    BY <1>13 DEF AInv, SavedWasShownWhole, Stage, Open, Ended, TextIsSent, TypeOK, FallsBack
  <2> QED BY <2>1, <2>2, <2>3, <2>4, <2>5 DEF AInv
<1>14. CASE ModelFails(t)
  <2>1. TypeOK'
    BY <1>14 DEF AInv, TypeOK, Stages, ModelFails, Goes, Closes
  <2>2. NoLookupOutlivesTurn'
    BY <1>14 DEF AInv, NoLookupOutlivesTurn, Running, TypeOK, ModelFails, Goes, Closes
  <2>3. (Stage /\ TextIsSent)'
    BY <1>14 DEF AInv, Stage, Open, Ended, TextIsSent, TypeOK, ModelFails, Goes, Closes
  <2>4. RecordsAgree'
    BY <1>14 DEF AInv, RecordsAgree, Stage, Open, Ended, TextIsSent, TypeOK, ModelFails, Goes, Closes
  <2>5. SavedWasShownWhole'
    BY <1>14 DEF AInv, SavedWasShownWhole, Stage, Open, Ended, TextIsSent, TypeOK, ModelFails, Goes, Closes
  <2> QED BY <2>1, <2>2, <2>3, <2>4, <2>5 DEF AInv
<1>15. CASE CutOff(t)
  <2>1. TypeOK'
    BY <1>15 DEF AInv, TypeOK, Stages, CutOff, Goes
  <2>2. NoLookupOutlivesTurn'
    BY <1>15 DEF AInv, NoLookupOutlivesTurn, Running, TypeOK, CutOff, Goes
  <2>3. (Stage /\ TextIsSent)'
    BY <1>15 DEF AInv, Stage, Open, Ended, TextIsSent, TypeOK, CutOff, Goes
  <2>4. RecordsAgree'
    BY <1>15 DEF AInv, RecordsAgree, Stage, Open, Ended, TextIsSent, TypeOK, CutOff, Goes
  <2>5. SavedWasShownWhole'
    BY <1>15 DEF AInv, SavedWasShownWhole, Stage, Open, Ended, TextIsSent, TypeOK, CutOff, Goes
  <2> QED BY <2>1, <2>2, <2>3, <2>4, <2>5 DEF AInv
<1>16. CASE Save(t)
  <2>1. TypeOK'
    BY <1>16 DEF AInv, TypeOK, Stages, Save, Goes
  <2>2. NoLookupOutlivesTurn'
    BY <1>16 DEF AInv, NoLookupOutlivesTurn, Running, TypeOK, Save, Goes
  <2>3. (Stage /\ TextIsSent)'
    BY <1>16 DEF AInv, Stage, Open, Ended, TextIsSent, TypeOK, Save, Goes
  <2>4. RecordsAgree'
    BY <1>16 DEF AInv, RecordsAgree, Stage, Open, Ended, TextIsSent, TypeOK, Save, Goes
  <2>5. SavedWasShownWhole'
    BY <1>16 DEF AInv, SavedWasShownWhole, Stage, Open, Ended, TextIsSent, TypeOK, Save, Goes
  <2> QED BY <2>1, <2>2, <2>3, <2>4, <2>5 DEF AInv
<1>17. CASE Finish(t)
  <2>1. TypeOK'
    BY <1>17 DEF AInv, TypeOK, Stages, Finish
  <2>2. NoLookupOutlivesTurn'
    BY <1>17 DEF AInv, NoLookupOutlivesTurn, Running, TypeOK, Finish
  <2>3. (Stage /\ TextIsSent)'
    BY <1>17 DEF AInv, Stage, Open, Ended, TextIsSent, TypeOK, Finish
  <2>4. RecordsAgree'
    BY <1>17 DEF AInv, RecordsAgree, Stage, Open, Ended, TextIsSent, TypeOK, Finish
  <2>5. SavedWasShownWhole'
    BY <1>17 DEF AInv, SavedWasShownWhole, Stage, Open, Ended, TextIsSent, TypeOK, Finish
  <2> QED BY <2>1, <2>2, <2>3, <2>4, <2>5 DEF AInv
<1>18. CASE Leave(t)
  <2>1. TypeOK'
    BY <1>18 DEF AInv, TypeOK, Stages, Leave
  <2>2. NoLookupOutlivesTurn'
    BY <1>18 DEF AInv, NoLookupOutlivesTurn, Running, TypeOK, Leave
  <2>3. (Stage /\ TextIsSent)'
    BY <1>18 DEF AInv, Stage, Open, Ended, TextIsSent, TypeOK, Leave
  <2>4. RecordsAgree'
    BY <1>18 DEF AInv, RecordsAgree, Stage, Open, Ended, TextIsSent, TypeOK, Leave
  <2>5. SavedWasShownWhole'
    BY <1>18 DEF AInv, SavedWasShownWhole, Stage, Open, Ended, TextIsSent, TypeOK, Leave
  <2> QED BY <2>1, <2>2, <2>3, <2>4, <2>5 DEF AInv
<1> QED
  BY <1>1, <1>2, <1>3, <1>4, <1>5, <1>6, <1>7, <1>8, <1>9, <1>10, <1>11, <1>12, <1>13, <1>14, <1>15, <1>16, <1>17, <1>18 DEF Proceeds

\* The entry's end concerns nothing but the saved answer.
LEMMA ExpireStep == AInv /\ Expire => AInv'
  BY DEF AInv, Expire, TypeOK, NoLookupOutlivesTurn, Running, Stage, Open, Ended,
         TextIsSent, RecordsAgree, SavedWasShownWhole, asked, history

LEMMA StutterStep == AInv /\ UNCHANGED vars => AInv'
  BY DEF AInv, vars, TypeOK, NoLookupOutlivesTurn, Running, Stage, Open, Ended,
         TextIsSent, RecordsAgree, SavedWasShownWhole

\* Every step preserves the invariant.
LEMMA StepAInv == AInv /\ [Next]_vars => AInv'
  BY TurnStep, ExpireStep, StutterStep DEF Next

\* So it holds in every state a turn can reach.
THEOREM AInvAlways == Spec => []AInv
  BY InitAInv, StepAInv, PTL DEF Spec

(* Type correctness of the turns, for any bounds.                          *)
THEOREM TurnTypeCorrect == Spec => []TypeOK
  BY AInvAlways, PTL DEF AInv

(* No lookup outlives its turn (cancel_and_wait, which ends                *)
(* _gather_premodel_context), however many messages and lookups there are. *)
THEOREM LookupsEndWithTheirTurn == Spec => []NoLookupOutlivesTurn
  BY AInvAlways, PTL DEF AInv

(* The button cache never replays a text that was not somebody's whole     *)
(* answer (_populate_button_cache runs after the last frame).              *)
THEOREM SavedAnswersWereWhole == Spec => []SavedWasShownWhole
  BY AInvAlways, PTL DEF AInv

(* The screen, the session and the log have one text of an ended answer.   *)
THEOREM OneAnswerEverywhere == Spec => []RecordsAgree
  BY AInvAlways, PTL DEF AInv

\* A step that sends anything is of a turn whose end was not told yet.
LEMMA TurnKeepsEnding ==
  ASSUME AInv, NEW t \in Turns, Proceeds(t) \/ Ask(t) \/ Leave(t) \/ RetrievalFails(t)
           \/ FallsBack(t) \/ ModelFails(t) \/ CutOff(t),
         NEW u \in Turns, ending[u] # "none"
  PROVE  ending'[u] = ending[u] /\ sent'[u] = sent[u]
<1>1. CASE u # t
  BY <1>1
  DEF AInv, TypeOK, Proceeds, Ask, Replay, Replayed, Gather, LookupEnds, Retrieved,
      RetrievalFails, LookupCancelled, Released, AskModel, Delta, Completed,
      FallsBack, ModelFails, CutOff, Save, Finish, Leave, Shows, Closes
<1>2. CASE u = t
  <2>1. ~Open(t)
    BY <1>2 DEF AInv, Stage
  <2> QED
    BY <1>2, <2>1
    DEF Open, Goes, Proceeds, Ask, Replay, Replayed, Gather, LookupEnds, Retrieved,
        RetrievalFails, LookupCancelled, Released, AskModel, Delta, Completed,
        FallsBack, ModelFails, CutOff, Save, Finish, Leave
<1> QED BY <1>1, <1>2

(* The visitor is told one end, and nothing after it, of any turn.         *)
THEOREM OneEndingOnly == Spec => OneEnding
<1>1. AInv /\ [Next]_vars =>
        [\A t \in Turns : ending[t] # "none" =>
           ending'[t] = ending[t] /\ sent'[t] = sent[t]]_vars
  BY TurnKeepsEnding DEF Next, Expire
<1> QED BY <1>1, AInvAlways, PTL DEF Spec, OneEnding
=============================================================================
