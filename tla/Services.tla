-------------------------------- MODULE Services --------------------------------
(***************************************************************************)
(* The services that keep something between questions, or read it page by  *)
(* page, each as a part of its own.  They share no state: a behaviour is   *)
(* one of `part`, whose state is in v1, v2, ..., and a part with fewer     *)
(* variables leaves the rest alone.                                        *)
(***************************************************************************)
EXTENDS Naturals, Sequences

CONSTANTS
  Parts,      \* the parts of this instance
  None,
  Callers, Texts, Requests, Kept,            \* of the query vectors
  Visitors, MaxChanges,                      \* of a party roster
  Polls, MaxDrops,                           \* of the health probe
  Connections,                               \* of a worker that starts
  Bills, Positions, Shown, MaxRows, MaxPages, RowsPerPage,  \* of the broker
  Lookups, Collections, Listings, Target, ItemsPerPage      \* of the CMS

VARIABLES part, v1, v2, v3, v4, v5, v6, v7, v8, v9, v10
vars == <<part, v1, v2, v3, v4, v5, v6, v7, v8, v9, v10>>

Embedding == INSTANCE EmbeddingCache WITH
  vectors <- v1, state <- v2, settled <- v3, awaits <- v4, peak <- v5, spoiled <- v6

Roster == INSTANCE PartyRoster WITH
  parties <- v1, roster <- v2, stale <- v3, refresh <- v4, since <- v5, visitor <- v6,
  began <- v7, overtaken <- v8

Probe == INSTANCE HealthProbe WITH
  lock <- v1, health <- v2, poll <- v3, calls <- v4, dropped <- v5

Start == INSTANCE StartUp WITH
  conn <- v1, registered <- v2, started <- v3, sockets <- v4, pubsub <- v5,
  subscribed <- v6, reading <- v7, task <- v8, deafened <- v9, collided <- v10

Broker == INSTANCE BrokerPaging WITH
  PageSize <- RowsPerPage,
  rows <- v1, page <- v2, got <- v3, details <- v4, at <- v5, late <- v6,
  answer <- v7, context <- v8, passed <- v9, unsure <- v10

Cms == INSTANCE CmsLookup WITH
  PageSize <- ItemsPerPage,
  ask <- v1, collection <- v2, listing <- v3, at <- v4, offset <- v5, cache <- v6,
  fetch <- v7, shown <- v8, disturbed <- v9

ASSUME ServicesAssumption ==
  /\ Embedding!Parameters /\ Roster!Parameters /\ Probe!Parameters
  /\ Start!Parameters /\ Broker!Parameters /\ Cms!Parameters

-----------------------------------------------------------------------------
AfterFive == <<v6, v7, v8, v9, v10>>
AfterSix == <<v7, v8, v9, v10>>
AfterEight == <<v9, v10>>

Init ==
  /\ part \in Parts
  /\ \/ part = "embedding" /\ Embedding!Init /\ v7 = None /\ v8 = None /\ v9 = None /\ v10 = None
     \/ part = "roster" /\ Roster!Init /\ v9 = None /\ v10 = None
     \/ part = "probe" /\ Probe!Init
          /\ v6 = None /\ v7 = None /\ v8 = None /\ v9 = None /\ v10 = None
     \/ part = "start" /\ Start!Init
     \/ part = "broker" /\ Broker!Init
     \/ part = "cms" /\ Cms!Init /\ v10 = None

EmbeddingStep == part = "embedding" /\ Embedding!Next /\ UNCHANGED <<part, AfterSix>>
RosterStep == part = "roster" /\ Roster!Next /\ UNCHANGED <<part, AfterEight>>
ProbeStep == part = "probe" /\ Probe!Next /\ UNCHANGED <<part, AfterFive>>
StartStep == part = "start" /\ Start!Next /\ UNCHANGED part
BrokerStep == part = "broker" /\ Broker!Next /\ UNCHANGED part
CmsStep == part = "cms" /\ Cms!Next /\ UNCHANGED <<part, v10>>

Next ==
  \/ EmbeddingStep \/ RosterStep \/ ProbeStep \/ StartStep \/ BrokerStep \/ CmsStep

\* PartyRoster's fairness, where it is the part.
Fairness ==
  /\ WF_vars(part = "roster" /\ Roster!RefreshEnds /\ UNCHANGED <<part, AfterEight>>)
  /\ WF_vars(part = "roster" /\ Roster!RefreshSettled /\ UNCHANGED <<part, AfterEight>>)
  /\ \A v \in Visitors :
       /\ WF_vars(part = "roster" /\ Roster!Woken(v) /\ UNCHANGED <<part, AfterEight>>)
       /\ WF_vars(part = "roster" /\ Roster!InlineEnds(v) /\ UNCHANGED <<part, AfterEight>>)

Spec == Init /\ [][Next]_vars /\ Fairness

-----------------------------------------------------------------------------
(* The type invariant of each service (TypeOK of its module).              *)
TypesOK ==
  CASE part = "embedding" -> Embedding!TypeOK
    [] part = "roster" -> Roster!TypeOK
    [] part = "probe" -> Probe!TypeOK
    [] part = "start" -> Start!TypeOK
    [] part = "broker" -> Broker!TypeOK
    [] part = "cms" -> Cms!TypeOK

(* Who asks for what is being asked for waits for that request: one per    *)
(* text (embed_query), one per window (health_check); and a failed one is  *)
(* handed to nobody who asks later.                                        *)
RequestsAreShared ==
  /\ part = "embedding" => Embedding!OneRequestPerText /\ Embedding!FailuresAreNotKept
  /\ part = "probe" => Probe!OneCallPerWindow

(* A worker that has served somebody hears its agents unless something     *)
(* failed or its first connects met on a subscription, and only sockets    *)
(* whose connect failed stay registered (connect, _ensure_slack_started).  *)
WorkerHears ==
  part = "start" => Start!HearsUnlessBroken /\ Start!OnlyFailedConnectsLeak

(* The list of positions the model is told of, paged under a deadline from *)
(* rows that come, change and go anywhere, is true of a moment but for     *)
(* what changed behind the reader (broker_lookup).                         *)
PositionsAreTrue == part = "broker" => Broker!ListIsTrue

(* What the CMS lists is found by walking its pages, and is shown as it is *)
(* listed (webflow_lookup).                                                *)
CmsIsShownAsListed == part = "cms" => Cms!WalkFindsWhatIsThere /\ Cms!ShownAsListed

(* PartyRoster: a roster is replaced by a whole one that is not older, but *)
(* by one whose download was under way when the present one came.          *)
RosterOnlyImproves == [][part = "roster" => Roster!Improves]_vars

(* PartyRoster: whoever waits for a roster gets an answer.                 *)
WaitersAreAnswered ==
  \A v \in Visitors :
    part = "roster" /\ v6[v] # "idle" ~> part = "roster" /\ v6[v] = "idle"
=============================================================================
