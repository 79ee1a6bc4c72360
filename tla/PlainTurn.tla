------------------------------- MODULE PlainTurn -------------------------------
(***************************************************************************)
(* A message asked over /chat: process_message of core/agent.py, which does*)
(* one thing after another and answers in one piece, and complete of       *)
(* services/llm.py, which asks the model in rounds while it calls the bill *)
(* tool, the whole of it tried three times.                                *)
(*                                                                         *)
(* An answer is what it was made from; `saved` is the quick-action button's*)
(* entry, and an answer with no text is one that ran out of rounds.        *)
(***************************************************************************)
EXTENDS Naturals, FiniteSets

CONSTANTS
  MaxRounds,    \* max_iterations
  MaxAttempts,  \* stop_after_attempt
  None          \* no answer

Sources == {"web", "bill", "tavily"}
Answers == [text : BOOLEAN, uses : SUBSET Sources]

Parameters ==
  /\ MaxRounds \in Nat \ {0} /\ MaxAttempts \in Nat \ {0}
  /\ None \notin Answers /\ None # "answer"

\* The lookups, in the order they are made; each answers or is left out.
Order == <<"vote", "positions", "cms", "broker", "scorecard", "legislator">>

VARIABLES
  at,        \* where the coroutine is
  button,    \* it was asked with the button
  saved,     \* the button's saved answer
  wanted,    \* the lookups the message calls for and that are still to make
  tools,     \* the tools the model is given
  attempt,   \* of complete
  round,     \* of the attempt
  uses,      \* what the rounds of this attempt have fetched
  reported,  \* what LLMResponse says was used
  answer,    \* the answer so far
  told,      \* what the visitor was told, or None
  logged     \* query_processed

vars == <<at, button, saved, wanted, tools, attempt, round, uses, reported,
          answer, told, logged>>
model == <<attempt, round, uses>>

Stages == {"asked", "retrieving", "lookups", "model", "searching", "rewriting",
           "answered", "over"}

TypeOK ==
  /\ at \in Stages
  /\ button \in BOOLEAN
  /\ saved \in Answers \cup {None}
  /\ wanted \subseteq {Order[i] : i \in DOMAIN Order}
  /\ tools \subseteq {"web", "bill"}
  /\ attempt \in 1 .. MaxAttempts /\ round \in 1 .. MaxRounds
  /\ uses \subseteq Sources /\ reported \subseteq Sources
  /\ answer \in Answers \cup {None}
  /\ told \in {"answer", "saved", "failure", "nothing", None}
  /\ logged \in BOOLEAN

Init ==
  /\ at = "asked"
  /\ button \in BOOLEAN
  /\ saved \in {None, [text |-> TRUE, uses |-> {}]}
  /\ wanted = {} /\ tools = {}
  /\ attempt = 1 /\ round = 1
  /\ uses = {} /\ reported = {}
  /\ answer = None
  /\ told = None
  /\ logged = FALSE

-----------------------------------------------------------------------------
Goes(from, to) == at = from /\ at' = to

\* A human agent has the conversation: the bot says nothing.
Suppressed ==
  /\ Goes("asked", "over")
  /\ told' = "nothing"
  /\ UNCHANGED <<button, saved, wanted, tools, model, reported, answer, logged>>

\* A hit in the button cache is the answer; no model is asked.
Replay ==
  /\ Goes("asked", "over")
  /\ button /\ saved # None
  /\ told' = "saved"
  /\ logged' = TRUE
  /\ UNCHANGED <<button, saved, wanted, tools, model, reported, answer>>

\* A miss; the saved answer may be of another version of the bill.
Miss ==
  /\ Goes("asked", "retrieving")
  /\ UNCHANGED <<button, saved, wanted, tools, model, reported, answer, told, logged>>

\* Retrieval has no fallback: its failure is the turn's.
RetrievalFails ==
  /\ Goes("retrieving", "over")
  /\ told' = "failure"
  /\ UNCHANGED <<button, saved, wanted, tools, model, reported, answer, logged>>

\* What a message may call for: a bill page has no legislator's scorecard.
Callings == {w \in SUBSET {Order[i] : i \in DOMAIN Order} : ~({"broker", "scorecard"} \subseteq w)}
\* Web search comes with the bill tool, as its fallback, unless it is turned off.
ToolSets == {{}, {"web"}, {"bill"}, {"web", "bill"}}

\* What the message calls for is known.
Retrieved ==
  /\ Goes("retrieving", "lookups")
  /\ wanted' \in Callings
  /\ tools' \in ToolSets
  /\ UNCHANGED <<button, saved, model, reported, answer, told, logged>>

\* One lookup after another; a slow or failing one costs its context only.
LookupEnds ==
  /\ at = "lookups"
  /\ \E i \in DOMAIN Order :
       /\ Order[i] \in wanted
       /\ \A j \in 1 .. i - 1 : Order[j] \notin wanted
       /\ wanted' = wanted \ {Order[i]}
  /\ UNCHANGED <<at, button, saved, tools, model, reported, answer, told, logged>>

StartsComplete == attempt' = 1 /\ round' = 1 /\ uses' = {}

AskModel ==
  /\ Goes("lookups", "model")
  /\ wanted = {}
  /\ StartsComplete
  /\ UNCHANGED <<button, saved, wanted, tools, reported, answer, told, logged>>

-----------------------------------------------------------------------------
\* The tools of the call under way: the second one has none.
Given == IF at = "model" THEN tools ELSE {}
Completing == at \in {"model", "rewriting"}

\* Slip: what the first answer used is still reported.
ReportedAll(seen, fetched) == reported \cup seen \cup (fetched \cap {"bill"})
\* The bill tool is reported of any round, web search of the last one only.
Reported(seen, fetched) == seen \cup (fetched \cap {"bill"})

\* complete returns.  An answer made after a Tavily search is of its results; an
\* answer with tools that cites nothing of the web is made up for by one.
Returns(text, fetched, seen, cited) ==
  LET extra(what) == IF at = "rewriting" THEN {what} ELSE {}
  IN /\ answer' = [text |-> text, uses |-> fetched \cup extra("tavily")]
     /\ reported' = Reported(seen, fetched) \cup extra("web")
     /\ at' = IF at = "model" /\ tools # {} /\ ~cited
                THEN "searching" ELSE "answered"

\* Slip: one round more than max_iterations.
OneMoreRound == round <= MaxRounds
MoreRounds   == round < MaxRounds

\* A round that calls the bill tool; its calls are answered, found or not, and
\* make one more round, if there is one.
CallsBillTool(seen, cited) ==
  /\ "bill" \in Given
  /\ uses' = uses \cup seen \cup {"bill"}
  /\ IF MoreRounds
       THEN round' = round + 1 /\ UNCHANGED <<at, reported, answer>>
       ELSE /\ \E text \in BOOLEAN : Returns(text, uses', seen, cited)
            /\ UNCHANGED round
  /\ UNCHANGED attempt

\* A round of the model, with a web search or without, ends in text or in calls.
Round ==
  /\ Completing
  /\ \E seen \in SUBSET (Given \cap {"web"}), cited \in BOOLEAN :
       /\ cited => seen # {}
       /\ \/ Returns(TRUE, uses \cup seen, seen, cited) /\ UNCHANGED model
          \/ CallsBillTool(seen, cited)
  /\ UNCHANGED <<button, saved, wanted, tools, told, logged>>

\* A call of the model fails: everything is tried again from the start, or the
\* turn fails, with an answer of the first call at hand as well.
RoundFails ==
  /\ Completing
  /\ IF attempt < MaxAttempts
       THEN attempt' = attempt + 1 /\ round' = 1 /\ uses' = {} /\ UNCHANGED <<at, told>>
       ELSE at' = "over" /\ told' = "failure" /\ UNCHANGED model
  /\ UNCHANGED <<button, saved, wanted, tools, reported, answer, logged>>

\* Web search was wanted and nothing is cited: Tavily is asked, and an answer made from
\* its results, without tools, replaces the one at hand.
Search ==
  /\ at = "searching"
  /\ \/ at' = "rewriting" /\ StartsComplete
     \/ at' = "answered" /\ UNCHANGED model
  /\ UNCHANGED <<button, saved, wanted, tools, reported, answer, told, logged>>

\* The button's entry (a scope that is not known, a Redis that fails, saves
\* nothing), the log, the response.
Answer ==
  /\ Goes("answered", "over")
  /\ saved' \in {saved} \cup (IF button THEN {answer} ELSE {})
  /\ told' = "answer"
  /\ logged' = TRUE
  /\ UNCHANGED <<button, wanted, tools, model, reported, answer>>

Next ==
  \/ Suppressed \/ Replay \/ Miss \/ Retrieved \/ RetrievalFails \/ LookupEnds
  \/ AskModel \/ Round \/ RoundFails \/ Search \/ Answer

Spec == Init /\ [][Next]_vars

-----------------------------------------------------------------------------
(* What an answer says it was made with, bill_votes_tool_used and          *)
(* web_search_used of the response, is true of it, over retries and a      *)
(* second answer that replaces the first: the bill tool is named if and    *)
(* only if the answer that is told comes after its results, a web search   *)
(* only of an answer that had one.                                         *)
ReportIsTrue ==
  told = "answer" =>
    /\ "bill" \in reported <=> "bill" \in answer.uses
    /\ "web" \in reported => answer.uses \cap {"web", "tavily"} # {}
=============================================================================
