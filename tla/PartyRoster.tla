------------------------------ MODULE PartyRoster ------------------------------
(***************************************************************************)
(* The party roster of ONE jurisdiction in services/bill_votes.py: who has *)
(* which party, downloaded page by page from api-v3, kept by the process,  *)
(* served stale while one background refresh runs.  A roster is the number *)
(* of changes of party it knows of; a download may be partial (a page was  *)
(* refused), and sees the parties of some moment while it ran.             *)
(***************************************************************************)
EXTENDS Naturals

CONSTANTS
  Visitors,    \* lookups of bills that need the roster
  MaxChanges,  \* how often parties change (bounds the run)
  None         \* no roster yet

Parameters == MaxChanges \in Nat /\ "refresh" \notin Visitors

VARIABLES
  parties,   \* changes of party so far, outside of this process
  roster,    \* _legislator_cache: [knows, whole], or None
  stale,     \* ... older than PARTY_CACHE_SECONDS
  refresh,   \* _refreshing: the background task, by its state
  since,     \* parties when that download began
  visitor,   \* the state of each lookup
  began,     \* parties when its own download began
  overtaken  \* history: the downloads during which another roster came

vars == <<parties, roster, stale, refresh, since, visitor, began, overtaken>>

Rosters == [knows : 0 .. MaxChanges, whole : BOOLEAN]
Refresh == "refresh"   \* the background download, among `overtaken`
Downloading(v) == visitor[v] = "downloading"

TypeOK ==
  /\ parties \in 0 .. MaxChanges
  /\ roster \in Rosters \cup {None}
  /\ stale \in BOOLEAN
  /\ refresh \in {"none", "running", "ended"}
  /\ since \in 0 .. MaxChanges
  /\ visitor \in [Visitors -> {"idle", "joined", "woken", "downloading"}]
  /\ began \in [Visitors -> 0 .. MaxChanges]
  /\ overtaken \subseteq Visitors \cup {Refresh}

\* The lifespan warms the federal roster (warm_parties), and no other.
Init ==
  /\ parties = 0
  /\ roster = None
  /\ stale = FALSE
  /\ refresh \in {"none", "running"}
  /\ since = 0
  /\ visitor = [v \in Visitors |-> "idle"]
  /\ began = [v \in Visitors |-> 0]
  /\ overtaken = {}

-----------------------------------------------------------------------------
\* _download_parties, begun when `from` changes were known: what it returns.
Downloaded(from) == [knows : from .. parties, whole : BOOLEAN]

\* Cache and stamp a roster; the other downloads are overtaken by it.
Keep(new, by) ==
  /\ roster' = new
  /\ stale' = FALSE
  /\ overtaken' = ({v \in Visitors : Downloading(v)}
                     \cup {r \in {Refresh} : refresh = "running"}) \ {by}

StartDownload(v) ==
  /\ visitor' = [visitor EXCEPT ![v] = "downloading"]
  /\ began' = [began EXCEPT ![v] = parties]
  /\ overtaken' = overtaken \ {v}

\* _refresh_parties_in_background: one refresh per jurisdiction; its entry
\* goes with the callback of the task.
RefreshUnderWay == refresh # "none"

\* _get_legislator_parties, up to its first await.
Ask(v) ==
  /\ visitor[v] = "idle"
  /\ \/ /\ roster # None            \* answered at once, stale or not
        /\ stale /\ ~RefreshUnderWay
        /\ refresh' = "running"
        /\ since' = parties
        /\ overtaken' = overtaken \ {Refresh}
        /\ UNCHANGED <<visitor, began>>
     \/ /\ roster = None
        /\ refresh # "none"         \* wait for the download under way
        /\ visitor' = [visitor EXCEPT ![v] =
                         IF refresh = "ended" THEN "woken" ELSE "joined"]
        /\ UNCHANGED <<refresh, since, began, overtaken>>
     \/ /\ roster = None
        /\ refresh = "none"
        /\ StartDownload(v)
        /\ UNCHANGED <<refresh, since>>
  /\ UNCHANGED <<parties, roster, stale>>

\* Slip: a lookup that found nothing cached waits again.
WokenAgain(v) ==
  /\ visitor[v] = "woken"
  /\ visitor' = [visitor EXCEPT ![v] = IF roster # None THEN "idle" ELSE "joined"]
  /\ UNCHANGED <<parties, roster, stale, refresh, since, began, overtaken>>

\* ... after the shielded wait: answered, or nothing is cached after all.
Woken(v) ==
  /\ visitor[v] = "woken"
  /\ IF roster # None
       THEN /\ visitor' = [visitor EXCEPT ![v] = "idle"]
            /\ UNCHANGED <<began, overtaken>>
       ELSE StartDownload(v)
  /\ UNCHANGED <<parties, roster, stale, refresh, since>>

\* Slip: what came back is kept, whole or not.
InlineKeepsAny(new) == TRUE
InlineKeeps(new) == new.whole

\* ... after its own download.  A partial roster answers this lookup only,
\* and not even this one if a whole one arrived meanwhile.
InlineEnds(v) ==
  /\ Downloading(v)
  /\ \E new \in Downloaded(began[v]) :
       IF InlineKeeps(new) THEN Keep(new, v)
                           ELSE UNCHANGED <<roster, stale, overtaken>>
  /\ visitor' = [visitor EXCEPT ![v] = "idle"]
  /\ UNCHANGED <<parties, refresh, since, began>>

\* _refresh_parties: whole and not empty.
RefreshReplaces(new) == new.whole

\* _refresh_parties: replace, or keep the old one for PARTY_RETRY_SECONDS.
RefreshEnds ==
  /\ refresh = "running"
  /\ refresh' = "ended"
  /\ \E new \in Downloaded(since) :
       \/ RefreshReplaces(new) /\ Keep(new, Refresh)
       \/ ~RefreshReplaces(new) /\ stale' = FALSE /\ UNCHANGED <<roster, overtaken>>
  /\ visitor' = [v \in Visitors |->
                   IF visitor[v] = "joined" THEN "woken" ELSE visitor[v]]
  /\ UNCHANGED <<parties, since, began>>

\* The callback of the refresh: the entry of _refreshing is removed.
RefreshSettled ==
  /\ refresh = "ended"
  /\ refresh' = "none"
  /\ UNCHANGED <<parties, roster, stale, since, visitor, began, overtaken>>

\* The visitor leaves: his own download is cancelled, the shared one is not.
Leave(v) ==
  /\ visitor[v] # "idle"
  /\ visitor' = [visitor EXCEPT ![v] = "idle"]
  /\ UNCHANGED <<parties, roster, stale, refresh, since, began, overtaken>>

\* PARTY_CACHE_SECONDS, or PARTY_RETRY_SECONDS after a failed refresh.
Age ==
  /\ roster # None
  /\ ~stale
  /\ stale' = TRUE
  /\ UNCHANGED <<parties, roster, refresh, since, visitor, began, overtaken>>

PartyChanges ==
  /\ parties < MaxChanges
  /\ parties' = parties + 1
  /\ UNCHANGED <<roster, stale, refresh, since, visitor, began, overtaken>>

Next ==
  \/ \E v \in Visitors : Ask(v) \/ Woken(v) \/ InlineEnds(v) \/ Leave(v)
  \/ RefreshEnds \/ RefreshSettled \/ Age \/ PartyChanges

\* The clients have time limits, and the event loop runs what is ready.
Fairness ==
  /\ WF_vars(RefreshEnds)
  /\ WF_vars(RefreshSettled)
  /\ \A v \in Visitors : WF_vars(Woken(v)) /\ WF_vars(InlineEnds(v))

Spec == Init /\ [][Next]_vars /\ Fairness

-----------------------------------------------------------------------------
(* _get_legislator_parties and _refresh_parties: once there is a roster it *)
(* is whole, and it is replaced by an older one only by a download that    *)
(* was already under way when the present one came; one that fails or is   *)
(* partial takes nothing back.                                             *)
Improves ==
  \/ roster' = roster
  \/ /\ roster'.whole
     /\ \/ roster = None
        \/ roster'.knows >= roster.knows
        \/ Refresh \in overtaken /\ refresh' = "ended"
        \/ \E v \in overtaken \ {Refresh} :
             Downloading(v) /\ visitor'[v] = "idle"
RosterOnlyImproves == [][Improves]_vars

(* shield and the second look at the cache: whoever waits for the roster   *)
(* gets an answer, however the download he joined ends.                    *)
WaitersAreAnswered ==
  \A v \in Visitors : visitor[v] # "idle" ~> visitor[v] = "idle"
=============================================================================
