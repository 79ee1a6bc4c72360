---------------------------- MODULE SessionStore ----------------------------
(***************************************************************************)
(* The copies of ONE chat session: the dict each uvicorn worker keeps in   *)
(* its own memory (`sessions` of api/routes/websocket.py) and the JSON     *)
(* copy in Redis (services/redis_store.py).  A visitor who reconnects      *)
(* lands on whichever worker accepts the socket; ConnectionManager.connect *)
(* adopts the stored copy unless the local one is at least as new, and     *)
(* save_session writes the local one back after each thing that changed    *)
(* it: a read, a check of the revisions, a write, with an await between    *)
(* each, so any number of saves and connects interleave.                   *)
(*                                                                         *)
(* What a session holds is abstracted to the set of events it has seen (a  *)
(* visitor's message, an agent's message, a page change, a handoff).       *)
(* `calm`, `owner`, `log` and the tasks' `raced` and `failed` are history  *)
(* variables: no action's guard reads them.                                *)
(***************************************************************************)
EXTENDS Naturals, FiniteSets

CONSTANTS
  Workers,   \* uvicorn worker processes
  Tasks,     \* asyncio tasks that touch the session (handlers, connects)
  Objects,   \* identities of session dicts, in any worker's memory
  Events,    \* what can happen to a session, each at most once
  Faults,    \* which failures this instance has, a subset of FaultKinds
  None       \* no object, no worker, nothing stored

FaultKinds == {"read", "write", "expiry", "crash"}

ASSUME NoneAssumption ==
  /\ None \notin Workers
  /\ None \notin Objects
ASSUME FaultsAssumption == Faults \subseteq FaultKinds

Copies == [rev : Nat, seen : SUBSET Events]
\* Slip: a new session without its revision.
BlankUnrevised == [seen |-> {}]
Blank  == [rev |-> 0, seen |-> {}]

ASSUME NoneIsNoCopy == None \notin Copies

VARIABLES
  heap,    \* object -> the session dict of that identity
  local,   \* worker -> the object under sessions[session_id], or None
  stored,  \* the copy under votebot:session:<id> in Redis, or None
  task,    \* the state of each task
  log,     \* every event so far
  owner,   \* the worker the visitor connected to last
  calm     \* no event was at the mercy of a race or a fault so far

vars == <<heap, local, stored, task, log, owner, calm>>

Phases == {"idle", "connecting", "handling", "checking", "sending"}

TaskStates ==
  [pc     : Phases,
   worker : Workers \cup {None},
   object : Objects \cup {None},
   read   : Copies \cup {None},    \* what load_session returned
   snap   : Copies \cup {None},    \* the JSON on its way to Redis
   failed : BOOLEAN,               \* that load failed
   raced  : BOOLEAN]               \* another write landed since that load

Idle == [pc |-> "idle", worker |-> None, object |-> None, read |-> None,
         snap |-> None, failed |-> FALSE, raced |-> FALSE]

TypeOK ==
  /\ heap \in [Objects -> Copies]
  /\ local \in [Workers -> Objects \cup {None}]
  /\ stored \in Copies \cup {None}
  /\ task \in [Tasks -> TaskStates]
  /\ log \subseteq Events
  /\ owner \in Workers \cup {None}
  /\ calm \in BOOLEAN

-----------------------------------------------------------------------------
RevOf(c) == IF c = None THEN 0 ELSE c.rev

Busy(t)       == task[t].pc # "idle"
Connecting(t) == task[t].pc = "connecting"

\* No worker and no task refers to the object: Python would have freed it.
Free(o) ==
  /\ \A w \in Workers : local[w] # o
  /\ \A t \in Tasks : task[t].object # o

\* load_session: the stored copy, or None when the read fails or times out.
LoadSession(failed) == IF failed THEN None ELSE stored
MayFail(kind) == IF kind \in Faults THEN BOOLEAN ELSE {FALSE}

Init ==
  /\ heap = [o \in Objects |-> Blank]
  /\ local = [w \in Workers |-> None]
  /\ stored = None
  /\ task = [t \in Tasks |-> Idle]
  /\ log = {}
  /\ owner = None
  /\ calm = TRUE

-----------------------------------------------------------------------------
(* connect(): the await of load_session.  The dict it may install (parsed  *)
(* from Redis, or the initial one) is object o.                            *)
ConnectRead(t, w) ==
  /\ ~Busy(t)
  /\ \E o \in Objects, failed \in MayFail("read") :
       /\ Free(o)
       /\ task' = [task EXCEPT ![t] =
            [Idle EXCEPT !.pc = "connecting", !.worker = w, !.object = o,
                         !.read = LoadSession(failed), !.failed = failed]]
       /\ calm' = /\ calm
                  /\ ~failed
                  /\ \A u \in Tasks : Busy(u) => task[u].worker = w
                                                /\ ~Connecting(u)
  /\ owner' = w
  /\ UNCHANGED <<heap, local, stored, log>>

\* Slip: whatever this process remembers wins over Redis.
KeepsAnyLocal(w, saved) == local[w] # None

\* What this worker keeps when the load returned `saved`: the local copy
\* unless there is none or the saved one is strictly newer.
KeepsLocal(w, saved) ==
  /\ local[w] # None
  /\ saved = None \/ heap[local[w]].rev >= saved.rev

\* connect(): back from the await, adopt, keep or initialize.
ConnectAdopt(t) ==
  LET w     == task[t].worker
      saved == task[t].read
      fresh == task[t].object
  IN /\ Connecting(t)
     /\ IF KeepsLocal(w, saved)
          THEN UNCHANGED <<heap, local>>
          ELSE /\ heap'  = [heap EXCEPT ![fresh] =
                              IF saved = None THEN Blank ELSE saved]
               /\ local' = [local EXCEPT ![w] = fresh]
     /\ task' = [task EXCEPT ![t] = Idle]
     /\ UNCHANGED <<stored, log, owner, calm>>

(* A handler of worker w (client message, Slack event, disconnect) changes *)
(* sessions[session_id]; save_session is the last thing it does.           *)
Handle(t, w) ==
  /\ ~Busy(t)
  /\ local[w] # None
  /\ \E e \in Events \ log :
       /\ heap' = [heap EXCEPT ![local[w]].seen = @ \cup {e}]
       /\ log' = log \cup {e}
  /\ task' = [task EXCEPT ![t] = [Idle EXCEPT !.pc = "handling", !.worker = w]]
  /\ calm' = (calm /\ owner = w /\ \A u \in Tasks : ~Connecting(u))
  /\ UNCHANGED <<local, stored, owner>>

\* save_session: take the dict and read the stored copy.
SaveRead(t) ==
  /\ task[t].pc = "handling"
  /\ \E failed \in MayFail("read") :
       /\ task' = [task EXCEPT ![t] =
            [@ EXCEPT !.pc = "checking", !.object = local[task[t].worker],
                      !.read = LoadSession(failed), !.failed = failed]]
       /\ calm' = (calm /\ ~failed)
  /\ UNCHANGED <<heap, local, stored, log, owner>>

\* Slips: no check of the revisions; one that refuses the same revision.
RefusedNever(t) == FALSE
RefusedAtSame(t) ==
  task[t].read # None /\ task[t].read.rev >= heap[task[t].object].rev

\* The stored copy is newer than this one: save_session gives up.
Refused(t) == task[t].read # None /\ task[t].read.rev > heap[task[t].object].rev

SaveRefused(t) ==
  /\ task[t].pc = "checking"
  /\ Refused(t)
  /\ task' = [task EXCEPT ![t] = Idle]
  /\ UNCHANGED <<heap, local, stored, log, owner, calm>>

\* Otherwise the revision is raised and the dict serialized, then awaited.
SaveSend(t) ==
  LET o    == task[t].object
      copy == [heap[o] EXCEPT !.rev = @ + 1]
  IN /\ task[t].pc = "checking"
     /\ ~Refused(t)
     /\ heap' = [heap EXCEPT ![o] = copy]
     /\ task' = [task EXCEPT ![t] =
                   [@ EXCEPT !.pc = "sending", !.snap = copy]]
     /\ UNCHANGED <<local, stored, log, owner, calm>>

\* Redis executes the SET.  Each command has its own pooled connection, and
\* a timed-out SET may still be executed: writes land in any order.
Land(t) ==
  /\ task[t].pc = "sending"
  /\ stored' = task[t].snap
  /\ task' = [u \in Tasks |->
       IF u = t THEN Idle
       ELSE IF task[u].pc \in {"checking", "sending"}
            THEN [task[u] EXCEPT !.raced = TRUE]
            ELSE task[u]]
  /\ calm' = (calm /\ RevOf(stored) < task[t].snap.rev)
  /\ UNCHANGED <<heap, local, log, owner>>

\* The SET fails: logged and swallowed, the revision stays raised.
SendFails(t) ==
  /\ "write" \in Faults
  /\ task[t].pc = "sending"
  /\ task' = [task EXCEPT ![t] = Idle]
  /\ calm' = FALSE
  /\ UNCHANGED <<heap, local, stored, log, owner>>

\* SESSION_TTL runs out.
Expire ==
  /\ "expiry" \in Faults
  /\ stored # None
  /\ stored' = None
  /\ calm' = FALSE
  /\ UNCHANGED <<heap, local, task, log, owner>>

\* The process dies (a deploy, an OOM kill); a SET already sent still lands.
Crash(w) ==
  /\ "crash" \in Faults
  /\ local[w] # None \/ \E t \in Tasks : task[t].worker = w
  /\ local' = [local EXCEPT ![w] = None]
  /\ task' = [u \in Tasks |->
       IF task[u].worker = w /\ task[u].pc # "sending" THEN Idle ELSE task[u]]
  /\ calm' = (calm /\ \A u \in Tasks : ~(Busy(u) /\ task[u].worker = w))
  /\ owner' = IF owner = w THEN None ELSE owner
  /\ UNCHANGED <<heap, stored, log>>

Next ==
  \/ \E t \in Tasks, w \in Workers : ConnectRead(t, w) \/ Handle(t, w)
  \/ \E t \in Tasks : \/ ConnectAdopt(t)
                      \/ SaveRead(t) \/ SaveRefused(t) \/ SaveSend(t)
                      \/ Land(t) \/ SendFails(t)
  \/ Expire
  \/ \E w \in Workers : Crash(w)

Spec == Init /\ [][Next]_vars

-----------------------------------------------------------------------------
(* save_session: a write that takes the stored copy back to an earlier     *)
(* revision (or to another copy of the same one) either raced another      *)
(* write after its own read, or had no answer to that read.  Nothing else  *)
(* can erase what another worker stored.                                   *)
RegressesOnlyByRaceOrBlindness ==
  [][\A t \in Tasks :
       Land(t) /\ stored # None /\ stored.rev >= task[t].snap.rev
         => task[t].raced \/ task[t].failed]_vars

(* connect and save_session together: as long as visits follow one another *)
(* (no event on a worker the visitor has left, no reconnect to another     *)
(* worker while a save is under way, no write overtaken, no fault), the    *)
(* worker the visitor is connected to has every event of the session.      *)
CalmVisitSeesEverything ==
  calm /\ owner # None /\ (\A t \in Tasks : ~Connecting(t))
    => local[owner] # None /\ heap[local[owner]].seen = log

(* ... and between two things that happen Redis has everything as well:    *)
(* the worker may crash and the visitor go anywhere.                       *)
CalmQuiescenceIsDurable ==
  calm /\ (\A t \in Tasks : ~Busy(t))
    => log = (IF stored = None THEN {} ELSE stored.seen)

(* A save is refused only to a worker the visitor had left, or after a     *)
(* race or a fault: an orderly visit never silently stops being saved.     *)
CalmSaveIsNotRefused ==
  \A t \in Tasks : calm /\ task[t].pc = "checking" => ~Refused(t)
=============================================================================
