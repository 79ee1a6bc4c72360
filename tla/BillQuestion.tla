----------------------------- MODULE BillQuestion -----------------------------
(***************************************************************************)
(* Which bill a message is about, and what OpenStates says of it: the two  *)
(* lookups of core/agent.py that run side by side for one message, the live*)
(* bill (_prefetch_bill_info) and the check of a disputed vote             *)
(* (_verify_legislator_vote).  How OpenStates is asked is BillRequest's.   *)
(*                                                                         *)
(* A bill, or a legislator, is named for the place that names it, so two   *)
(* places never mean the same one; an answer is who, what and from which of*)
(* the sessions tried (1 is the one asked for, 2 and 3 the years before, 0 *)
(* is none of them).                                                       *)
(***************************************************************************)
EXTENDS Naturals

CONSTANTS
  Questions,  \* the messages, with their history and page
  None        \* nothing, nobody

Lookups == {"info", "verify"}
Tries   == 0 .. 3
Places  == {"US", "FL"}
History == {"older", "newer"}  \* the messages before this one, of the last six
Sessions == {"number", "special"}
Addresses == {"none", "good", "bad"}  \* of a bill, on OpenStates
OrNone(S) == S \cup {None}

Says == [bill : {"no", "short", "long"},  \* "HB 5", or "House Bill 5"
         person : BOOLEAN, place : OrNone(Places)]
Earlier == [by : {"visitor", "bot"}, bill : {"no", "short", "long"}, person : BOOLEAN]
\* id: it names its bill, or its legislator (who is its title).
Page == [type : {"bill", "legislator", "general"}, id : BOOLEAN, slug : BOOLEAN,
         place : OrNone(Places), session : OrNone(Sessions)]

VARIABLES
  q,       \* the message
  at,      \* lookup -> where its coroutine is
  target,  \* lookup -> what it asks OpenStates for
  shown    \* lookup -> what the model is shown

vars == <<q, at, target, shown>>

Bills   == {"message", "older", "newer", "title", "title newer", "title older", "page"}
Persons == {"message", "older", "newer", "page"}
Targets == [bill : Bills, person : OrNone(Persons), place : Places,
            session : Sessions]

Parameters ==
  /\ Questions \subseteq
       [message : Says, asks : {"votes", "status", "else"}, disputes : BOOLEAN,
        said : [History -> Earlier], page : Page, legacy : BOOLEAN]
  /\ \A kind \in {Bills, Persons, Places, Sessions, Addresses} : None \notin kind
  /\ None \notin Targets /\ None # TRUE

TypeOK ==
  /\ q \in Questions
  /\ at \in [Lookups -> {"idle", "resolving", "asking", "over"}]
  /\ target \in [Lookups -> OrNone(Targets)]
  /\ shown \in [Lookups -> OrNone([bill : Bills, person : OrNone(Persons), try : Tries])]

Init ==
  /\ q \in Questions
  /\ at = [l \in Lookups |-> "idle"]
  /\ target = [l \in Lookups |-> None]
  /\ shown = [l \in Lookups |-> None]

-----------------------------------------------------------------------------
\* The first of some candidates that is something.
FirstOf(candidates) ==
  LET some == {i \in DOMAIN candidates : candidates[i] # None}
  IN IF some = {} THEN None
     ELSE candidates[CHOOSE i \in some : \A j \in some : i <= j]
Given(test, what) == IF test THEN what ELSE None

\* _extract_bill_from_text, on the newest of the earlier messages of `speakers`.
SaidBill(speakers) ==
  LET Said(h) == Given(q.said[h].by \in speakers /\ q.said[h].bill # "no", h)
  IN FirstOf(<<Said("newer"), Said("older")>>)
\* _extract_legislator_name, likewise.
SaidPerson(speakers) ==
  LET Said(h) == Given(q.said[h].by \in speakers /\ q.said[h].person, h)
  IN FirstOf(<<Said("newer"), Said("older")>>)

PageBill    == Given(q.page.type = "bill" /\ q.page.id, "page")
PagePerson  == Given(q.page.type = "legislator" /\ q.page.id, "page")
NamedPerson == Given(q.message.person, "message")

\* _should_use_bill_votes_tool.  A low confidence is one more reason for a
\* question about a bill that the message names, which is reason enough.
WantsBill(lowConfidence) ==
  \/ q.asks = "votes"
  \/ q.message.bill = "short"
  \/ q.page.type = "bill" /\ q.asks = "status"
  \/ SaidBill({"visitor"}) # None
  \/ lowConfidence /\ q.message.bill = "short"

\* _is_dispute_or_correction
WantsCheck == q.disputes

\* The lookups of the message start; none of them may be called for.
Gather ==
  /\ \A l \in Lookups : at[l] = "idle"
  /\ at' = [l \in Lookups |->
       IF (l = "info" /\ WantsBill(FALSE)) \/ (l = "verify" /\ WantsCheck)
         THEN "resolving" ELSE "over"]
  /\ UNCHANGED <<q, target, shown>>

Over(l) == at' = [at EXCEPT ![l] = "over"] /\ UNCHANGED target

AskFor(l, t) ==
  /\ target' = [target EXCEPT ![l] = t]
  /\ at' = [at EXCEPT ![l] = "asking"]

\* The CMS record of a bill page's slug, asked on the legacy index only.
CmsRecords ==
  IF q.page.type = "bill" /\ q.page.slug /\ q.legacy
    THEN OrNone([bill : BOOLEAN, place : OrNone(Places),
                 session : OrNone(Sessions), url : Addresses])
    ELSE {None}

\* Slip: whoever spoke in the history named the bill.
InfoSpeakersAll == {"visitor", "bot"}
\* The bot's own messages list bills nobody asked about.
InfoSpeakers == {"visitor"}

InfoPerson == FirstOf(<<PagePerson, NamedPerson, SaidPerson({"visitor"})>>)

\* _prefetch_bill_info, up to its request: message, title, history, page, CMS;
\* but the web address in the CMS record, if there is one, replaces them all.
ResolveInfo ==
  /\ at["info"] = "resolving"
  /\ \E title \in OrNone({"title"}), found \in OrNone(Places), cms \in CmsRecords :
       LET inCms(field) == IF cms = None THEN None ELSE cms[field]
           named == Given(q.message.bill = "short", "message")
           said  == SaidBill(InfoSpeakers)
           bill  == FirstOf(<<named, title, said, PageBill,
                              Given(inCms("bill") = TRUE, "page")>>)
           place == FirstOf(<<Given(bill \in {"title", said}, found), inCms("place"),
                              q.message.place, q.page.place, "US">>)
           session == FirstOf(<<q.page.session, inCms("session"), "number">>)
           person == InfoPerson
           url == inCms("url")
       IN \/ /\ url = "good"
             /\ \E p \in Places, s \in Sessions :
                  AskFor("info", [bill |-> "page", person |-> person,
                                    place |-> p, session |-> s])
          \/ url = "bad" /\ Over("info")
          \/ /\ url \notin {"good", "bad"}
             /\ IF bill = None THEN Over("info")
                ELSE AskFor("info", [bill |-> bill, person |-> person,
                                       place |-> place, session |-> session])
  /\ UNCHANGED <<q, shown>>

\* _verify_legislator_vote, up to its request: the page comes first, the whole
\* history counts, and titles are the last resort.
ResolveVerify ==
  /\ at["verify"] = "resolving"
  /\ \E title \in OrNone({"title", "title newer", "title older"}), found \in OrNone(Places) :
       LET person == FirstOf(<<NamedPerson, PagePerson, SaidPerson({"visitor"}),
                               SaidPerson({"bot"})>>)
           said  == SaidBill({"visitor", "bot"})
           bill  == FirstOf(<<PageBill, Given(q.message.bill # "no", "message"), said, title>>)
           place == FirstOf(<<q.page.place, Given(PageBill = None, q.message.place),
                              Given(bill = said \/ bill = title, found), "US">>)
       IN IF person = None \/ bill = None THEN Over("verify")
          ELSE AskFor("verify", [bill |-> bill, person |-> person, place |-> place,
                                   session |-> FirstOf(<<q.page.session, "number">>)])
  /\ UNCHANGED <<q, shown>>

-----------------------------------------------------------------------------
\* The years before are tried for a state's numbered session only.
OlderSessions(l) ==
  IF target[l].place # "US" /\ target[l].session = "number" THEN {2, 3} ELSE {}

\* get_bill_info answers (BillRequest): the bill as of one of the sessions, with
\* the vote of the person asked about when it has votes.  The check says of a
\* bill it did not find, or could not ask for, that the person is not in its
\* votes (try 0); the live bill is then left out.  Either may fail on the way.
Answered(l) ==
  /\ at[l] = "asking"
  /\ at' = [at EXCEPT ![l] = "over"]
  /\ \/ \E try \in {1} \cup OlderSessions(l),
           person \in {target[l].person} \cup (IF l = "info" THEN {None} ELSE {}) :
          shown' = [shown EXCEPT ![l] =
                      [bill |-> target[l].bill, person |-> person, try |-> try]]
     \/ /\ l = "verify"
        /\ shown' = [shown EXCEPT ![l] =
             [bill |-> target[l].bill, person |-> target[l].person, try |-> 0]]
     \/ UNCHANGED shown
  /\ UNCHANGED <<q, target>>

\* cancel_and_wait: retrieval failed, or the visitor left.
Release(l) ==
  /\ at[l] \in {"resolving", "asking"}
  /\ at' = [at EXCEPT ![l] = "over"]
  /\ UNCHANGED <<q, target, shown>>

Next ==
  \/ Gather \/ ResolveInfo \/ ResolveVerify
  \/ \E l \in Lookups : Answered(l) \/ Release(l)

Spec == Init /\ [][Next]_vars

-----------------------------------------------------------------------------
(* The two lookups of one message speak of one legislator, unless the      *)
(* message names another than its page; and of one bill, unless the page is*)
(* a bill's (the check takes the page's bill before the message's), the    *)
(* bill is named in words that only the check reads, a title was found, or *)
(* the bot named a bill of its own.                                        *)
OneSubjectPerMessage ==
  LET both == shown["info"] # None /\ shown["verify"] # None
      onePerson == /\ shown["info"].person # None
                   /\ ~(q.message.person /\ q.page.type = "legislator")
      oneBill == /\ q.page.type # "bill"
                 /\ q.message.bill # "long"
                 /\ \A h \in History : q.said[h].by = "bot" => q.said[h].bill = "no"
                 /\ shown["info"].bill # "title"
  IN both => /\ onePerson => shown["info"].person = shown["verify"].person
             /\ oneBill => shown["info"].bill = shown["verify"].bill

(* "Bot messages are excluded": the live bill, and the person whose vote on*)
(* it is shown, were named by the visitor or by his page, or a title search*)
(* found the bill; nothing is shown of what only the bot named.            *)
BotNamesNothing ==
  shown["info"] # None =>
    \A h \in History : h \in {shown["info"].bill, shown["info"].person} =>
      q.said[h].by = "visitor"
=============================================================================
