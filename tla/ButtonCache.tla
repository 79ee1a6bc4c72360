---------------------------- MODULE ButtonCache ----------------------------
(***************************************************************************)
(* The saved answer of ONE quick-action button on ONE bill, shared by all  *)
(* workers through Redis: services/button_cache.py, the requests of        *)
(* core/agent.py that serve and fill it, and the lookup of the bill's      *)
(* current version in services/bill_versions.py.                           *)
(*                                                                         *)
(* On the legacy index an entry stays until ddp-sync, having ingested a    *)
(* new text, publishes an invalidation that some worker handles; a worker  *)
(* that starts drops what was saved before the last ingestion.  Redis may  *)
(* fail to read, save or delete, which is logged and no more.  On the      *)
(* canonical index nothing is published: an entry carries the version it   *)
(* was saved for, and a hit must match the version this worker believes    *)
(* current, which it asks api-v3 for and remembers for two minutes.        *)
(*                                                                         *)
(* The text of an answer is the bill version it was generated from; the    *)
(* clock that `cached_at` and `last_checked` are compared on advances with *)
(* each ingestion.  `lost`, `hit`, and `born` and `straddled` of a text    *)
(* are history.                                                            *)
(***************************************************************************)
EXTENDS Naturals

CONSTANTS
  Workers,      \* uvicorn worker processes
  Tasks,        \* requests under way
  MaxVersion,   \* bound: the bill's last version
  MaxBacklog,   \* bound: invalidations published and not yet handled
  Indexes,      \* which kinds of index to consider
  Faults,       \* which failures this instance has, a subset of FaultKinds
  None          \* nothing saved, not known

FaultKinds == {"disconnect", "restart", "lookup", "redis"}

Parameters ==
  /\ MaxVersion \in Nat \ {0}
  /\ MaxBacklog \in Nat \ {0}
  /\ Indexes \subseteq {"legacy", "canonical"}
  /\ Faults \subseteq FaultKinds
  /\ None \notin Nat

Versions == 1..MaxVersion
NoVersion == 0    \* what a failed version lookup answers, and remembers

Entries ==
  [text      : Versions,              \* the version the answer was made from
   version   : Versions \cup {None},  \* document_id, canonical index only
   cachedAt  : Versions,              \* cached_at
   born      : Versions,              \* the bill's version when it was saved
   straddled : BOOLEAN]               \* the version changed while it was made

VARIABLES
  index,        \* settings.bill_filter_key: the kind of index
  current,      \* the version api-v3 and the index have
  lastChecked,  \* last_checked of the ddp:bill_version record
  entry,        \* the copy under the v2 key, or None
  legacyEntry,  \* the copy under the v1 key (a text), or None
  phase,        \* worker -> "starting" (reconcile to come) or "up"
  listening,    \* the workers subscribed to the invalidation channel
  backlog,      \* worker -> invalidations it was sent and has not handled
  unpublished,  \* an ingestion whose invalidation ddp-sync still has to send
  believed,     \* worker -> what BillVersionService remembers, or None
  task,         \* the requests
  lost,         \* the entry is one that an invalidation did not clear
  hit           \* the last answer served from the cache, or None

vars == <<index, current, lastChecked, entry, legacyEntry, phase, listening,
          backlog, unpublished, believed, task, lost, hit>>
source == <<index, current, lastChecked, unpublished>>
worker == <<phase, listening, backlog>>

Stages == {"idle", "serve", "retrieve", "store"}

TaskStates ==
  [at       : Stages,
   worker   : Workers \cup {None},
   reply    : Versions \cup {NoVersion, None},  \* api-v3's answer on its way
   text     : Versions \cup {None},   \* the answer that was generated
   version  : Versions \cup {NoVersion, None}] \* the version it was asked for

Idle == [at |-> "idle", worker |-> None, reply |-> None, text |-> None,
         version |-> None]

TypeOK ==
  /\ index \in Indexes
  /\ current \in Versions
  /\ lastChecked \in Versions
  /\ entry \in Entries \cup {None}
  /\ legacyEntry \in Versions \cup {None}
  /\ phase \in [Workers -> {"starting", "up"}]
  /\ listening \subseteq Workers
  /\ backlog \in [Workers -> 0..MaxBacklog]
  /\ unpublished \in BOOLEAN
  /\ believed \in [Workers -> Versions \cup {NoVersion, None}]
  /\ task \in [Tasks -> TaskStates]
  /\ lost \in BOOLEAN
  /\ hit \in [text : Versions, asOf : Versions, straddled : BOOLEAN] \cup {None}

\* Redis may have kept an answer in the former format (of the legacy index,
\* whose keys have the bill's slug).
Init ==
  /\ index \in Indexes
  /\ current = 1
  /\ lastChecked = 1
  /\ entry = None
  /\ legacyEntry \in IF index = "legacy" THEN {1, None} ELSE {None}
  /\ phase = [w \in Workers |-> "starting"]
  /\ listening = {}
  /\ backlog = [w \in Workers |-> 0]
  /\ unpublished = FALSE
  /\ believed = [w \in Workers |-> None]
  /\ task = [t \in Tasks |-> Idle]
  /\ lost = FALSE
  /\ hit = None

-----------------------------------------------------------------------------
\* ddp-sync ingests a new version of the bill ...
Ingest ==
  /\ current < MaxVersion
  /\ ~unpublished
  /\ current' = current + 1
  /\ lastChecked' = current + 1
  /\ unpublished' = (index = "legacy")
  /\ UNCHANGED <<index, entry, legacyEntry, worker, believed, task, lost, hit>>

\* No invalidation waits to be handled.
Quiet == \A w \in Workers : backlog[w] = 0

\* ... and publishes its invalidation to whoever listens.
PublishInvalidation ==
  /\ unpublished
  /\ \A w \in listening : backlog[w] < MaxBacklog
  /\ unpublished' = FALSE
  /\ backlog' = [w \in Workers |-> backlog[w] + (IF w \in listening THEN 1 ELSE 0)]
  /\ lost' = (lost \/ listening = {})
  /\ UNCHANGED <<index, current, lastChecked, entry, legacyEntry, phase,
                 listening, believed, task, hit>>

\* reconcile_on_startup: what was saved before the last check is dropped, unless
\* Redis fails at some step of it.
Outdated(e) == e # None /\ e.cachedAt < lastChecked

Reconcile(w) ==
  /\ phase[w] = "starting"
  /\ phase' = [phase EXCEPT ![w] = "up"]
  /\ \/ /\ entry' = IF Outdated(entry) THEN None ELSE entry
        /\ lost' = FALSE
     \/ "redis" \in Faults /\ UNCHANGED <<entry, lost>>
  /\ UNCHANGED <<source, legacyEntry, listening, backlog, believed, task, hit>>

\* The supervisor (re)connects: in the background, while requests are served,
\* and without another reconcile.
Subscribe(w) ==
  /\ phase[w] = "up"
  /\ w \notin listening
  /\ listening' = listening \cup {w}
  /\ UNCHANGED <<source, entry, legacyEntry, phase, backlog, believed, task,
                 lost, hit>>

\* The pub/sub connection breaks: what it had not delivered is gone.
Disconnect(w) ==
  /\ "disconnect" \in Faults
  /\ w \in listening
  /\ listening' = listening \ {w}
  /\ backlog' = [backlog EXCEPT ![w] = 0]
  /\ lost' = (lost \/ (backlog[w] > 0 /\ Quiet'))
  /\ UNCHANGED <<source, entry, legacyEntry, phase, believed, task, hit>>

\* The worker process is replaced (a deploy, a crash).
Restart(w) ==
  /\ "restart" \in Faults
  /\ phase[w] = "up"
  /\ phase' = [phase EXCEPT ![w] = "starting"]
  /\ listening' = listening \ {w}
  /\ backlog' = [backlog EXCEPT ![w] = 0]
  /\ believed' = [believed EXCEPT ![w] = None]
  /\ task' = [t \in Tasks |-> IF task[t].worker = w THEN Idle ELSE task[t]]
  /\ lost' = (lost \/ (backlog[w] > 0 /\ Quiet'))
  /\ UNCHANGED <<source, entry, legacyEntry, hit>>

\* Slip: invalidate_bill clears the key of the former format.
ClearedV1 == entry

\* invalidate_bill deletes the v2 key; the v1 key is left to its TTL.
Cleared == None

\* _process_messages: a worker handles an invalidation.  If the DEL fails, the
\* message counts as handled, and the entry stays.
HandleInvalidation(w) ==
  /\ backlog[w] > 0
  /\ backlog' = [backlog EXCEPT ![w] = @ - 1]
  /\ \/ entry' = Cleared /\ lost' = FALSE
     \/ "redis" \in Faults /\ lost' = (lost \/ Quiet') /\ UNCHANGED entry
  /\ UNCHANGED <<source, legacyEntry, phase, listening, believed, task, hit>>

\* DELETE /cache/button/{slug} (one that fails changes nothing).
AdminClear ==
  /\ entry # None
  /\ entry' = Cleared
  /\ lost' = FALSE
  /\ UNCHANGED <<source, legacyEntry, worker, believed, task, hit>>

\* SAFETY_TTL runs out on the v2 or on the v1 key.
Expire ==
  /\ \/ entry # None /\ entry' = None /\ lost' = FALSE /\ UNCHANGED legacyEntry
     \/ legacyEntry # None /\ legacyEntry' = None /\ UNCHANGED <<entry, lost>>
  /\ UNCHANGED <<source, worker, believed, task, hit>>

-----------------------------------------------------------------------------
\* A click on the button reaches worker w.
Begin(t, w) ==
  /\ task[t].at = "idle"
  /\ phase[w] = "up"
  /\ task' = [task EXCEPT ![t] = [Idle EXCEPT !.at = "serve", !.worker = w]]
  /\ UNCHANGED <<source, entry, legacyEntry, worker, believed, lost, hit>>

\* get_versions, nothing remembered: api-v3 is asked, and answers or fails.
AskVersions(t) ==
  LET w == task[t].worker
  IN /\ index = "canonical"
     /\ task[t].at # "idle"
     /\ task[t].reply = None
     /\ believed[w] = None
     /\ \E answer \in {current} \cup (IF "lookup" \in Faults THEN {NoVersion} ELSE {}) :
          task' = [task EXCEPT ![t].reply = answer]
     /\ UNCHANGED <<source, entry, legacyEntry, worker, believed, lost, hit>>

\* CACHE_TTL_SECONDS (or FAILURE_TTL_SECONDS) run out.
Forget(w) ==
  /\ believed[w] # None
  /\ believed' = [believed EXCEPT ![w] = None]
  /\ UNCHANGED <<source, entry, legacyEntry, worker, task, lost, hit>>

(* The current version as the request learns it: from api-v3's answer,     *)
(* which is remembered, or from what its worker remembers.  The legacy     *)
(* index does not ask.                                                     *)
Learns(t, v) ==
  LET w == task[t].worker
  IN IF index = "legacy" THEN v = None /\ UNCHANGED believed
     ELSE IF task[t].reply # None
       THEN v = task[t].reply /\ believed' = [believed EXCEPT ![w] = v]
       ELSE believed[w] # None /\ v = believed[w] /\ UNCHANGED believed

Known == Versions \cup {NoVersion, None}

\* ButtonCache.get, with the fallback to the v1 key.
Cached ==
  IF entry # None \/ legacyEntry = None THEN entry
  ELSE [text |-> legacyEntry, version |-> None, cachedAt |-> 1, born |-> 1,
        straddled |-> FALSE]

\* _maybe_serve_from_button_cache: the saved answer may be used.
Hit(v) == Cached # None /\ v # NoVersion /\ (v # None => Cached.version = v)

Serve(t) ==
  /\ task[t].at = "serve"
  /\ \E v \in Known :
       /\ Learns(t, v)
       /\ \/ /\ Hit(v)
             /\ hit' = [text |-> Cached.text, straddled |-> Cached.straddled,
                        asOf |-> IF v = None THEN current ELSE v]
             /\ task' = [task EXCEPT ![t] = Idle]
          \/ /\ Hit(v) => "redis" \in Faults   \* or the entry cannot be read
             /\ task' = [task EXCEPT ![t].at = "retrieve", ![t].reply = None]
             /\ UNCHANGED hit
  /\ UNCHANGED <<source, entry, legacyEntry, worker, lost>>

\* Retrieval filters on the current version; when it is not known, chunks of
\* any version may come back.
Retrieve(t) ==
  /\ task[t].at = "retrieve"
  /\ \E v \in Known :
       /\ Learns(t, v)
       /\ \E text \in IF v = None THEN {current}
                      ELSE IF v = NoVersion THEN 1..current ELSE {v} :
            task' = [task EXCEPT ![t].at = "store", ![t].reply = None,
                                 ![t].text = text, ![t].version = v]
  /\ UNCHANGED <<source, entry, legacyEntry, worker, lost, hit>>

\* What ButtonCache.set is given, and adds.
NewEntry(t, v) ==
  [text |-> task[t].text, version |-> v, cachedAt |-> lastChecked,
   born |-> current, straddled |-> v # task[t].version]

(* _populate_button_cache, after the answer was generated: the version is  *)
(* looked up again, and the answer saved under the one it is now.          *)
Store(t) ==
  /\ task[t].at = "store"
  /\ \E v \in Known :
       /\ Learns(t, v)
       /\ \/ /\ v # NoVersion
             /\ entry' = NewEntry(t, v)
             /\ lost' = FALSE
          \/ /\ v = NoVersion \/ "redis" \in Faults
             /\ UNCHANGED <<entry, lost>>
  /\ task' = [task EXCEPT ![t] = Idle]
  /\ UNCHANGED <<source, legacyEntry, worker, hit>>

\* Generation fails (a retrieval or model error): nothing is saved.
GenerationFails(t) ==
  /\ task[t].at = "store"
  /\ task' = [task EXCEPT ![t] = Idle]
  /\ UNCHANGED <<source, entry, legacyEntry, worker, believed, lost, hit>>

Next ==
  \/ Ingest \/ PublishInvalidation \/ AdminClear \/ Expire
  \/ \E w \in Workers : \/ Reconcile(w) \/ Subscribe(w) \/ Disconnect(w)
                        \/ Restart(w) \/ HandleInvalidation(w) \/ Forget(w)
                        \/ \E t \in Tasks : Begin(t, w)
  \/ \E t \in Tasks : AskVersions(t) \/ Serve(t) \/ Retrieve(t) \/ Store(t)
                      \/ GenerationFails(t)

Spec == Init /\ [][Next]_vars

-----------------------------------------------------------------------------
\* No invalidation is on its way.
Delivered == ~unpublished /\ Quiet

(* Legacy index.  Once the invalidations have been handled, the answer     *)
(* under the v2 key is of the bill's current text, unless it is one that   *)
(* an invalidation did not clear, since it reached no worker, its worker's *)
(* connection broke or its DEL failed, and no worker has reconciled since; *)
(* or the text changed while the answer was being generated.               *)
LegacyEntryIsCurrent ==
  index = "legacy" /\ Delivered /\ ~lost /\ entry # None
    => entry.text = current \/ entry.text < entry.born

(* reconcile_on_startup: "events emitted while VoteBot was down or         *)
(* restarting are lost. This catches that case at startup": with all       *)
(* workers reconciled and listening, no entry is left of an older text.    *)
CaughtAtStartup ==
  index = "legacy" /\ Delivered /\ listening = Workers /\ entry # None
    => entry.text = current \/ entry.text < entry.born

(* Canonical index.  A hit is at least as new as what the worker would     *)
(* have generated, unless the version changed (as the saving worker saw    *)
(* it) between retrieval and saving.                                       *)
CanonicalHitIsNotStaler ==
  index = "canonical" /\ hit # None
    => hit.text >= hit.asOf \/ hit.straddled

(* The docstring of _button_cache_scope: "a cached answer is never staler  *)
(* than an uncached one would be".                                         *)
NeverStalerThanUncached ==
  index = "canonical" /\ hit # None => hit.text >= hit.asOf
=============================================================================
