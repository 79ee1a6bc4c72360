------------------------------- MODULE Questions -------------------------------
(***************************************************************************)
(* What one message sets going, each as a part of its own: the saved answer*)
(* of its button, the bill and the person it is about, the requests for the*)
(* bill, a legislator's vote, the passages, the answer over /chat.  The    *)
(* parts share no state: a behaviour is one of `part`, whose state is in   *)
(* v1, v2, ..., and a part with fewer variables leaves the rest alone.     *)
(***************************************************************************)
EXTENDS Naturals, Sequences

CONSTANTS
  Parts,          \* the parts of this instance
  None,
  Workers, Tasks, MaxBacklog, ButtonKinds, Faults,  \* of the button cache
  MaxVersion,     \* versions of a bill
  BillQuestions,  \* messages, with what was said before and their page
  Years, Pending, NotFound, GaveUp,           \* of a bill's requests
  People, Records,                            \* legislators, votes of bills
  MaxRounds, MaxAttempts,                     \* of the model
  PageQuestions, Indexes, MaxChunks, LookupK, Subject  \* of retrieval

VARIABLES part, v1, v2, v3, v4, v5, v6, v7, v8, v9, v10, v11, v12, v13
vars == <<part, v1, v2, v3, v4, v5, v6, v7, v8, v9, v10, v11, v12, v13>>

Button == INSTANCE ButtonCache WITH
  Indexes <- ButtonKinds,
  index <- v1, current <- v2, lastChecked <- v3, entry <- v4, legacyEntry <- v5,
  phase <- v6, listening <- v7, backlog <- v8, unpublished <- v9, believed <- v10,
  task <- v11, lost <- v12, hit <- v13

Bill == INSTANCE BillQuestion WITH
  Questions <- BillQuestions, q <- v1, at <- v2, target <- v3, shown <- v4

Request == INSTANCE BillRequest WITH
  holds <- v1, phase <- v2, request <- v3, awaited <- v4, outcome <- v5

\* What NewestBill sees of it: nothing, where it is not the part.
Promise == INSTANCE NewestBill WITH
  holds <- IF part = "request" THEN v1 ELSE {},
  answer <- IF part = "request" THEN Request!answer ELSE Pending

Vote == INSTANCE VoteSearch WITH
  Bills <- Records, votes <- v1, asked <- v2, alone <- v3, found <- v4

Turn == INSTANCE PlainTurn WITH
  at <- v1, button <- v2, saved <- v3, wanted <- v4, tools <- v5, attempt <- v6,
  round <- v7, uses <- v8, reported <- v9, answer <- v10, told <- v11, logged <- v12

Context == INSTANCE Retrieval WITH
  Questions <- PageQuestions,
  q <- v1, index <- v2, newest <- v3, archived <- v4, cached <- v5, at <- v6,
  subject <- v7, scope <- v8, task <- v9, changes <- v10, result <- v11

ASSUME QuestionsAssumption ==
  /\ Button!Parameters /\ Bill!Parameters /\ Promise!Parameters /\ Vote!Parameters
  /\ Turn!Parameters /\ Context!Parameters

-----------------------------------------------------------------------------
AfterFour == <<v5, v6, v7, v8, v9, v10, v11, v12, v13>>
AfterFive == <<v6, v7, v8, v9, v10, v11, v12, v13>>
NoneAfterFive ==
  /\ v6 = None /\ v7 = None /\ v8 = None /\ v9 = None /\ v10 = None /\ v11 = None /\ v12 = None
  /\ v13 = None

Init ==
  /\ part \in Parts
  /\ \/ part = "button" /\ Button!Init
     \/ part = "bill" /\ Bill!Init /\ v5 = None /\ NoneAfterFive
     \/ part = "request" /\ Request!Init /\ NoneAfterFive
     \/ part = "vote" /\ Vote!Init /\ v5 = None /\ NoneAfterFive
     \/ part = "turn" /\ Turn!Init /\ v13 = None
     \/ part = "context" /\ Context!Init /\ v12 = None /\ v13 = None

ButtonStep == part = "button" /\ Button!Next /\ UNCHANGED part
BillStep == part = "bill" /\ Bill!Next /\ UNCHANGED <<part, AfterFour>>
RequestStep == part = "request" /\ Request!Next /\ UNCHANGED <<part, AfterFive>>
VoteStep == part = "vote" /\ Vote!Next /\ UNCHANGED <<part, AfterFour>>
TurnStep == part = "turn" /\ Turn!Next /\ UNCHANGED <<part, v13>>
ContextStep == part = "context" /\ Context!Next /\ UNCHANGED <<part, v12, v13>>

Next == ButtonStep \/ BillStep \/ RequestStep \/ VoteStep \/ TurnStep \/ ContextStep

Spec == Init /\ [][Next]_vars

-----------------------------------------------------------------------------
(* The type invariant of each part (TypeOK of its module).                 *)
TypesOK ==
  CASE part = "button" -> Button!TypeOK
    [] part = "bill" -> Bill!TypeOK
    [] part = "request" -> Request!TypeOK
    [] part = "vote" -> Vote!TypeOK
    [] part = "turn" -> Turn!TypeOK
    [] part = "context" -> Context!TypeOK

(* Once the invalidations have been handled, a saved answer is of the      *)
(* bill's current text (legacy index), and a hit is at least as new as what*)
(* would have been generated (canonical index), but for the cases that     *)
(* ButtonCache names.                                                      *)
SavedAnswersAreFresh ==
  part = "button" => Button!LegacyEntryIsCurrent /\ Button!CanonicalHitIsNotStaler

(* The lookups that run side by side for a message are about one bill and  *)
(* one person, which the visitor named and not the bot.                    *)
OneSubject == part = "bill" => Bill!OneSubjectPerMessage /\ Bill!BotNamesNothing

(* A bill's question is answered from one version of its text, of the bill *)
(* that is meant or of none, with every change that was found.             *)
ContextIsOfItsBill ==
  part = "context" =>
    /\ Context!OneVersionInContext
    /\ Context!NamedBillIsNotGuessed
    /\ Context!ChangesAreAccountedFor

(* No request outlives the lookup it was made for, however that ends.      *)
NothingOutlives ==
  /\ part = "request" => Request!NoRequestOutlivesLookup
  /\ part = "context" => Context!NoQueryOutlivesRetrieval

(* A vote is found for whoever has one, the one that weighs most.          *)
VoterIsFound == part = "vote" => Vote!VoterIsFound

(* What an answer says it was made with is what it was made with.          *)
ReportIsTrue == part = "turn" => Turn!ReportIsTrue

(* get_bill_info implements NewestBill, its abstract specification.        *)
NewestSessionWins == Promise!Spec
=============================================================================
