------------------------- MODULE SessionStoreProofs -------------------------
(* Proofs about SessionStore for any workers, tasks, objects and events.   *)
EXTENDS SessionStore, TLAPS

(* What each phase of a task relies on; the part of the type invariant that *)
(* makes the accesses to heap and local meaningful.                        *)
PhaseInv ==
  \A t \in Tasks :
    /\ task[t].pc \in {"connecting", "checking", "sending"}
         => task[t].object \in Objects
    /\ task[t].pc \in {"connecting", "handling", "checking", "sending"}
         => task[t].worker \in Workers
    /\ task[t].pc = "handling" => local[task[t].worker] \in Objects
    /\ task[t].pc = "sending" => task[t].snap \in Copies

TypeInv == TypeOK /\ PhaseInv

LEMMA BlankIsCopy == Blank \in Copies
  BY DEF Blank, Copies

LEMMA IdleIsTaskState == Idle \in TaskStates
  BY DEF Idle, TaskStates, Phases

LEMMA InitTypeInv == Init => TypeInv
  BY BlankIsCopy, IdleIsTaskState DEF Init, TypeInv, TypeOK, PhaseInv, Idle

LEMMA StepTypeInv == TypeInv /\ [Next]_vars => TypeInv'
<1> SUFFICES ASSUME TypeInv, [Next]_vars PROVE TypeInv'
  OBVIOUS
<1> USE NoneAssumption, NoneIsNoCopy DEF TypeInv
<1>1. ASSUME NEW t \in Tasks, NEW w \in Workers, ConnectRead(t, w)
      PROVE  TypeInv'
  <2>1. PICK o \in Objects, failed \in BOOLEAN :
          task' = [task EXCEPT ![t] =
            [Idle EXCEPT !.pc = "connecting", !.worker = w, !.object = o,
                         !.read = LoadSession(failed), !.failed = failed]]
    BY <1>1 DEF ConnectRead, MayFail
  <2>2. TypeOK'
    BY <1>1, <2>1 DEF ConnectRead, TypeOK, TaskStates, Phases, Idle, LoadSession
  <2>3. PhaseInv'
    BY <1>1, <2>1 DEF ConnectRead, TypeOK, TaskStates, Phases, Idle, PhaseInv
  <2>4. QED BY <2>2, <2>3
<1>2. ASSUME NEW t \in Tasks, NEW w \in Workers, Handle(t, w)
      PROVE  TypeInv'
  <2>1. PICK e \in Events \ log :
          /\ heap' = [heap EXCEPT ![local[w]].seen = @ \cup {e}]
          /\ log' = log \cup {e}
    BY <1>2 DEF Handle
  <2>2. heap' \in [Objects -> Copies] /\ log' \subseteq Events
    BY <2>1 DEF TypeOK, Copies
  <2>3. task' \in [Tasks -> TaskStates] /\ calm' \in BOOLEAN
    BY <1>2 DEF Handle, TypeOK, TaskStates, Phases, Idle
  <2>4. TypeOK'
    BY <1>2, <2>2, <2>3 DEF Handle, TypeOK
  <2>5. PhaseInv'
    BY <1>2 DEF Handle, TypeOK, TaskStates, Phases, Idle, PhaseInv
  <2>6. QED BY <2>4, <2>5
<1>3. ASSUME NEW t \in Tasks, ConnectAdopt(t)
      PROVE  TypeInv'
  <2>1. TypeOK'
    BY <1>3, BlankIsCopy, IdleIsTaskState
    DEF ConnectAdopt, TypeOK, TaskStates, PhaseInv, Connecting
  <2>2. PhaseInv'
    BY <1>3 DEF ConnectAdopt, TypeOK, TaskStates, Idle, PhaseInv, Connecting
  <2>3. QED BY <2>1, <2>2
<1>4. ASSUME NEW t \in Tasks, SaveRead(t)
      PROVE  TypeInv'
  <2>1. PICK failed \in BOOLEAN :
          task' = [task EXCEPT ![t] =
            [@ EXCEPT !.pc = "checking", !.object = local[task[t].worker],
                      !.read = LoadSession(failed), !.failed = failed]]
    BY <1>4 DEF SaveRead, MayFail
  <2> DEFINE next == [task[t] EXCEPT !.pc = "checking",
                        !.object = local[task[t].worker],
                        !.read = LoadSession(failed), !.failed = failed]
  <2>a. local[task[t].worker] \in Objects /\ LoadSession(failed) \in Copies \cup {None}
    BY <1>4 DEF SaveRead, TypeOK, PhaseInv, LoadSession
  <2>b. task[t] \in TaskStates
    BY DEF TypeOK
  <2>c. next \in TaskStates
    BY <2>a, <2>b DEF TaskStates, Phases
  <2>2. TypeOK'
    <3>1. task' = [task EXCEPT ![t] = next]
      BY <2>1
    <3> HIDE DEF next
    <3>2. calm' \in BOOLEAN
      BY <1>4 DEF SaveRead, TypeOK
    <3>3. QED BY <1>4, <2>c, <3>1, <3>2 DEF SaveRead, TypeOK
  <2>3. PhaseInv'
    BY <1>4, <2>1 DEF SaveRead, TypeOK, TaskStates, Phases, PhaseInv
  <2>4. QED BY <2>2, <2>3
<1>5. ASSUME NEW t \in Tasks, SaveRefused(t) \/ SendFails(t)
      PROVE  TypeInv'
  <2>1. TypeOK'
    BY <1>5, IdleIsTaskState DEF SaveRefused, SendFails, TypeOK
  <2>2. PhaseInv'
    BY <1>5 DEF SaveRefused, SendFails, TypeOK, TaskStates, Idle, PhaseInv
  <2>3. QED BY <2>1, <2>2
<1>6. ASSUME NEW t \in Tasks, SaveSend(t)
      PROVE  TypeInv'
  <2> DEFINE o    == task[t].object
             copy == [heap[o] EXCEPT !.rev = @ + 1]
             sent == [task[t] EXCEPT !.pc = "sending", !.snap = copy]
  <2>1. o \in Objects /\ copy \in Copies
    BY <1>6 DEF SaveSend, TypeOK, TaskStates, PhaseInv, Copies
  <2>2. /\ heap' = [heap EXCEPT ![o] = copy]
        /\ task' = [task EXCEPT ![t] = sent]
        /\ UNCHANGED <<local, stored, log, owner, calm>>
    BY <1>6 DEF SaveSend
  <2> HIDE DEF o, copy
  <2>a. task[t] \in TaskStates
    BY DEF TypeOK
  <2>b. /\ sent \in TaskStates
        /\ sent.pc = "sending" /\ sent.snap = copy
        /\ sent.object = task[t].object /\ sent.worker = task[t].worker
    BY <2>1, <2>a DEF TaskStates, Phases
  <2> HIDE DEF sent
  <2>3. TypeOK'
    BY <2>1, <2>2, <2>b DEF TypeOK
  <2>4. PhaseInv'
    <3>1. task[t].pc = "checking"
      BY <1>6 DEF SaveSend
    <3>2. QED BY <3>1, <2>1, <2>2, <2>b DEF TypeOK, PhaseInv
  <2>5. QED BY <2>3, <2>4
<1>7. ASSUME NEW t \in Tasks, Land(t)
      PROVE  TypeInv'
  <2>1. TypeOK'
    BY <1>7, IdleIsTaskState DEF Land, TypeOK, TaskStates, PhaseInv
  <2>2. PhaseInv'
    BY <1>7 DEF Land, TypeOK, TaskStates, Idle, PhaseInv
  <2>3. QED BY <2>1, <2>2
<1>8. ASSUME Expire
      PROVE  TypeInv'
  BY <1>8 DEF Expire, TypeOK, PhaseInv
<1>9. ASSUME NEW w \in Workers, Crash(w)
      PROVE  TypeInv'
  <2>1. TypeOK'
    BY <1>9, IdleIsTaskState DEF Crash, TypeOK
  <2>2. PhaseInv'
    BY <1>9 DEF Crash, TypeOK, TaskStates, Idle, PhaseInv
  <2>3. QED BY <2>1, <2>2
<1>10. CASE UNCHANGED vars
  BY <1>10 DEF vars, TypeOK, PhaseInv
<1>11. QED
  BY <1>1, <1>2, <1>3, <1>4, <1>5, <1>6, <1>7, <1>8, <1>9, <1>10 DEF Next

(* Every variable keeps its type, and every task that touches a dict holds *)
(* one: no interleaving of connects, saves and crashes makes save_session  *)
(* or a handler work on a session that is not there.                       *)
LEMMA TypeInvHolds == Spec => []TypeInv
<1>1. QED BY InitTypeInv, StepTypeInv, PTL DEF Spec

(* The types alone, as the runs check them.                                *)
THEOREM TypeCorrect == Spec => []TypeOK
<1>1. TypeInv => TypeOK
  BY DEF TypeInv
<1>2. QED BY <1>1, TypeInvHolds, PTL

-----------------------------------------------------------------------------
(* A save that knows what Redis held when it read, and whose read no write *)
(* has overtaken: Redis holds that copy still (or nothing: it expired), so *)
(* what it sends is newer.                                                 *)
SaveInv ==
  \A t \in Tasks :
    ~task[t].raced /\ ~task[t].failed =>
      /\ task[t].pc = "checking" => stored \in {None, task[t].read}
      /\ task[t].pc = "sending" => stored = None \/ stored.rev < task[t].snap.rev

LEMMA StepSaveInv == TypeInv /\ SaveInv /\ [Next]_vars => SaveInv'
<1> SUFFICES ASSUME TypeInv, SaveInv, [Next]_vars,
                    NEW u \in Tasks, ~task'[u].raced, ~task'[u].failed
             PROVE  /\ task'[u].pc = "checking" => stored' \in {None, task'[u].read}
                    /\ task'[u].pc = "sending" =>
                         stored' = None \/ stored'.rev < task'[u].snap.rev
  BY DEF SaveInv
<1> USE NoneAssumption, NoneIsNoCopy DEF TypeInv
<1>0. ASSUME task'[u] = task[u], stored' \in {stored, None}
      PROVE  /\ task'[u].pc = "checking" => stored' \in {None, task'[u].read}
             /\ task'[u].pc = "sending" =>
                  stored' = None \/ stored'.rev < task'[u].snap.rev
  BY <1>0 DEF SaveInv
<1>i. Idle.pc = "idle"
  BY DEF Idle
<1>1. ASSUME NEW t \in Tasks, NEW w \in Workers, ConnectRead(t, w)
      PROVE  u = t => task'[u].pc = "connecting"
  BY <1>1 DEF ConnectRead, TypeOK, Idle
<1>2. ASSUME NEW t \in Tasks, NEW w \in Workers, Handle(t, w)
      PROVE  u = t => task'[u].pc = "handling"
  BY <1>2 DEF Handle, TypeOK, Idle
<1>3. ASSUME NEW t \in Tasks, NEW w \in Workers, ConnectRead(t, w) \/ Handle(t, w)
      PROVE  stored' = stored /\ (u # t => task'[u] = task[u])
  BY <1>3 DEF ConnectRead, Handle, TypeOK
<1>4. ASSUME NEW t \in Tasks,
             ConnectAdopt(t) \/ SaveRefused(t) \/ SendFails(t)
      PROVE  /\ stored' = stored
             /\ u # t => task'[u] = task[u]
             /\ u = t => task'[u].pc = "idle"
  BY <1>4, <1>i DEF ConnectAdopt, SaveRefused, SendFails, TypeOK
<1>5. ASSUME NEW t \in Tasks, SaveRead(t)
      PROVE  /\ stored' = stored
             /\ u # t => task'[u] = task[u]
             /\ u = t => task'[u].pc = "checking" /\ stored = task'[u].read
  <2>1. PICK failed \in BOOLEAN :
          task' = [task EXCEPT ![t] =
            [@ EXCEPT !.pc = "checking", !.object = local[task[t].worker],
                      !.read = LoadSession(failed), !.failed = failed]]
    BY <1>5 DEF SaveRead, MayFail
  <2>2. u = t => task'[u].failed = failed /\ task'[u].read = LoadSession(failed)
                 /\ task'[u].pc = "checking"
    BY <2>1 DEF TypeOK, TaskStates
  <2>3. QED BY <1>5, <2>1, <2>2 DEF SaveRead, LoadSession, TypeOK
<1>6. ASSUME NEW t \in Tasks, SaveSend(t)
      PROVE  /\ stored' = stored
             /\ u # t => task'[u] = task[u]
             /\ u = t => /\ task'[u].pc = "sending"
                         /\ stored = None \/ stored.rev < task'[u].snap.rev
  <2> DEFINE o    == task[t].object
             copy == [heap[o] EXCEPT !.rev = @ + 1]
  <2>1. o \in Objects /\ heap[o] \in Copies /\ copy.rev = heap[o].rev + 1
    BY <1>6 DEF SaveSend, TypeOK, TaskStates, PhaseInv, Copies
  <2>2. /\ task' = [task EXCEPT ![t] =
                     [@ EXCEPT !.pc = "sending", !.snap = copy]]
        /\ stored' = stored
        /\ task[t].pc = "checking"
        /\ ~(task[t].read # None /\ task[t].read.rev > heap[o].rev)
    BY <1>6 DEF SaveSend, Refused
  <2>3. u = t => /\ task'[u].pc = "sending" /\ task'[u].snap = copy
                 /\ ~task[u].raced /\ ~task[u].failed
    <3> HIDE DEF copy
    <3>1. QED BY <2>2 DEF TypeOK, TaskStates
  <2>4. u = t => stored \in {None, task[t].read}
    BY <2>2, <2>3 DEF SaveInv
  <2>5. u = t => stored = None \/ stored.rev < copy.rev
    <3>1. stored \in Copies => stored.rev \in Nat
      BY DEF Copies
    <3>2. heap[o].rev \in Nat
      BY <2>1 DEF Copies
    <3> HIDE DEF o, copy
    <3>3. QED BY <2>1, <2>2, <2>4, <3>1, <3>2 DEF TypeOK
  <2>6. QED BY <2>2, <2>3, <2>5 DEF TypeOK
<1>7. ASSUME NEW t \in Tasks, Land(t)
      PROVE  task'[u].pc \notin {"checking", "sending"}
  <2>1. task' = [v \in Tasks |->
       IF v = t THEN Idle
       ELSE IF task[v].pc \in {"checking", "sending"}
            THEN [task[v] EXCEPT !.raced = TRUE]
            ELSE task[v]]
    BY <1>7 DEF Land
  <2>2. u # t
        => task[u].pc \notin {"checking", "sending"} /\ task'[u] = task[u]
    BY <2>1 DEF TypeOK, TaskStates
  <2>3. QED BY <1>i, <2>1, <2>2
<1>8. ASSUME Expire
      PROVE  task'[u] = task[u] /\ stored' = None
  BY <1>8 DEF Expire
<1>9. ASSUME NEW w \in Workers, Crash(w)
      PROVE  stored' = stored /\ (task'[u] = task[u] \/ task'[u].pc = "idle")
  BY <1>9, <1>i DEF Crash
<1>10. CASE UNCHANGED vars
  BY <1>10, <1>0 DEF vars
<1>11. QED
  BY <1>0, <1>1, <1>2, <1>3, <1>4, <1>5, <1>6, <1>7, <1>8, <1>9, <1>10 DEF Next

(* Whatever the interleaving, a stored copy is overwritten by an older one *)
(* only by a save that another save overtook between its read and its      *)
(* write, or whose read failed.                                            *)
THEOREM RegressionNeedsRaceOrBlindness == Spec => RegressesOnlyByRaceOrBlindness
<1>1. Init => SaveInv
  BY DEF Init, SaveInv, Idle
<1>2. TypeInv /\ SaveInv =>
        \A t \in Tasks :
          Land(t) /\ stored # None /\ stored.rev >= task[t].snap.rev
            => task[t].raced \/ task[t].failed
  <2> SUFFICES ASSUME TypeInv, SaveInv, NEW t \in Tasks, Land(t),
                      stored # None, stored.rev >= task[t].snap.rev,
                      ~task[t].raced, ~task[t].failed
               PROVE  FALSE
    OBVIOUS
  <2>1. stored.rev < task[t].snap.rev
    BY DEF SaveInv, Land
  <2>2. stored.rev \in Nat /\ task[t].snap.rev \in Nat
    BY DEF TypeInv, TypeOK, PhaseInv, Copies, Land
  <2>3. QED BY <2>1, <2>2
<1>3. QED
  BY <1>1, <1>2, StepSaveInv, TypeInvHolds, PTL
  DEF Spec, RegressesOnlyByRaceOrBlindness

-----------------------------------------------------------------------------
(* The argument behind the calm properties.  As long as visits follow one  *)
(* another, either the owner's copy is current (it has every event, and    *)
(* what Redis lacks of it is on its way), or the visitor is between two    *)
(* workers, Redis has everything and the pending connect has read it.      *)
(* What other workers remember is behind, and recognizably so: of a lower  *)
(* revision, or the very copy Redis has.                                   *)
StoredCopy == IF stored = None THEN Blank ELSE stored
Mine       == heap[local[owner]]

Saved(w)  == heap[local[w]] = StoredCopy
Behind(w) == local[w] # None => heap[local[w]].rev < StoredCopy.rev \/ Saved(w)

\* Some task will write the owner's copy as it is, or it is written.
Covered ==
  \/ Saved(owner)
  \/ \E t \in Tasks : task[t].pc \in {"handling", "checking"}
  \/ \E t \in Tasks : task[t].pc = "sending" /\ task[t].snap = Mine

SavesAreOwn ==
  \A t \in Tasks :
    /\ task[t].pc = "checking" => /\ task[t].object = local[owner]
                                  /\ RevOf(task[t].read) <= Mine.rev
    /\ task[t].pc = "sending" => task[t].snap.rev <= Mine.rev

Current ==
  /\ local[owner] \in Objects
  /\ Mine.seen = log
  /\ StoredCopy.rev <= Mine.rev
  /\ Covered
  /\ SavesAreOwn

Quiet == log = StoredCopy.seen /\ \A w \in Workers : Behind(w)

Alone(t) == \A u \in Tasks \ {t} : ~Busy(u)

Arriving(t) ==
  \/ Current /\ RevOf(task[t].read) <= Mine.rev
  \/ Quiet /\ task[t].read = stored /\ Alone(t)

CalmInv ==
  calm =>
    IF owner = None
      THEN Quiet /\ \A t \in Tasks : ~Busy(t)
      ELSE /\ \A t \in Tasks : Busy(t) => task[t].worker = owner
           /\ \A w \in Workers \ {owner} : Behind(w)
           /\ \A t, u \in Tasks : Connecting(t) /\ Connecting(u) => t = u
           /\ \A t \in Tasks : Connecting(t) => Arriving(t)
           /\ (\A t \in Tasks : ~Connecting(t)) => Current

\* No dict is shared by two workers, or by a worker and a connect's load.
OwnObjects ==
  /\ \A v, w \in Workers : v # w /\ local[v] # None => local[v] # local[w]
  /\ \A t \in Tasks : Connecting(t) =>
       /\ \A w \in Workers : local[w] # task[t].object
       /\ \A u \in Tasks \ {t} : task[u].object # task[t].object

LEMMA StepOwnObjects == TypeInv /\ OwnObjects /\ [Next]_vars => OwnObjects'
<1> SUFFICES ASSUME TypeInv, OwnObjects, [Next]_vars PROVE OwnObjects'
  OBVIOUS
<1> USE NoneAssumption DEF TypeInv, OwnObjects, Connecting
<1>i. Idle.pc = "idle" /\ Idle.object = None
  BY DEF Idle
<1>1. ASSUME NEW t \in Tasks, NEW w \in Workers, ConnectRead(t, w)
      PROVE  OwnObjects'
  <2>1. PICK o \in Objects :
          /\ Free(o)
          /\ local' = local
          /\ task'[t].object = o
          /\ \A u \in Tasks \ {t} : task'[u] = task[u]
    BY <1>1 DEF ConnectRead, TypeOK, Idle
  <2>2. QED BY <2>1 DEF Free, TypeOK
<1>2. ASSUME NEW t \in Tasks, NEW w \in Workers, Handle(t, w)
      PROVE  OwnObjects'
  <2>1. /\ local' = local
        /\ task'[t].object = None /\ task'[t].pc = "handling"
        /\ \A u \in Tasks \ {t} : task'[u] = task[u]
    BY <1>2 DEF Handle, TypeOK, Idle
  <2>2. QED BY <2>1 DEF PhaseInv
<1>3. ASSUME NEW t \in Tasks, ConnectAdopt(t)
      PROVE  OwnObjects'
  <2>1. /\ local' \in {local, [local EXCEPT ![task[t].worker] = task[t].object]}
        /\ task' = [task EXCEPT ![t] = Idle]
        /\ task[t].pc = "connecting"
    BY <1>3 DEF ConnectAdopt
  <2>2. task[t].worker \in Workers /\ task[t].object \in Objects
    BY <2>1 DEF PhaseInv
  <2>3. \A w \in Workers : local'[w] \in {local[w], task[t].object}
    BY <2>1, <2>2 DEF TypeOK
  <2>4. \A v, w \in Workers : v # w /\ local'[v] # None => local'[v] # local'[w]
    BY <2>1, <2>2 DEF TypeOK
  <2>5. \A u \in Tasks : task'[u] = IF u = t THEN Idle ELSE task[u]
    BY <2>1 DEF TypeOK
  <2>6. \A u \in Tasks : task'[u].pc = "connecting" =>
          /\ u # t /\ task'[u] = task[u]
          /\ \A v \in Tasks \ {u} : task'[v].object # task'[u].object
    BY <2>5, <1>i DEF PhaseInv
  <2>7. QED BY <2>1, <2>3, <2>4, <2>6
<1>4. ASSUME NEW t \in Tasks, SaveRead(t)
      PROVE  OwnObjects'
  <2>1. /\ local' = local
        /\ task'[t].object = local[task[t].worker] /\ task'[t].pc = "checking"
        /\ task[t].worker \in Workers
        /\ \A u \in Tasks \ {t} : task'[u] = task[u]
    BY <1>4 DEF SaveRead, TypeOK, TaskStates, PhaseInv
  <2>2. QED BY <2>1
<1>5. ASSUME NEW t \in Tasks, SaveSend(t)
      PROVE  OwnObjects'
  <2>1. /\ local' = local
        /\ task'[t].object = task[t].object /\ task'[t].pc = "sending"
        /\ \A u \in Tasks \ {t} : task'[u] = task[u]
    BY <1>5 DEF SaveSend, TypeOK, TaskStates
  <2>2. QED BY <2>1
<1>6. ASSUME NEW t \in Tasks, SaveRefused(t) \/ SendFails(t) \/ Land(t)
      PROVE  OwnObjects'
  <2>1. /\ local' = local
        /\ \A u \in Tasks : /\ task'[u].pc = "connecting" => task[u].pc = "connecting"
                            /\ task'[u].object \in {task[u].object, None}
                            /\ task'[u].pc = "connecting" =>
                                 task'[u].object = task[u].object
    BY <1>6, <1>i DEF SaveRefused, SendFails, Land, TypeOK, TaskStates
  <2>2. QED BY <2>1 DEF PhaseInv
<1>7. ASSUME NEW w \in Workers, Crash(w)
      PROVE  OwnObjects'
  <2>1. /\ \A v \in Workers : local'[v] \in {local[v], None}
        /\ \A u \in Tasks : /\ task'[u].pc = "connecting" => task'[u] = task[u]
                            /\ task'[u].object \in {task[u].object, None}
    BY <1>7, <1>i DEF Crash, TypeOK, TaskStates
  <2>2. QED BY <2>1 DEF PhaseInv
<1>8. CASE Expire \/ UNCHANGED vars
  BY <1>8 DEF Expire, vars
<1>9. QED
  BY <1>1, <1>2, <1>3, <1>4, <1>5, <1>6, <1>7, <1>8 DEF Next

-----------------------------------------------------------------------------
LEMMA StoredCopyType ==
  TypeOK => /\ StoredCopy \in Copies
            /\ StoredCopy.rev = RevOf(stored) /\ StoredCopy.rev \in Nat
  BY BlankIsCopy, NoneIsNoCopy DEF TypeOK, StoredCopy, RevOf, Blank, Copies

LEMMA RevType == TypeOK => \A o \in Objects : heap[o].rev \in Nat
  BY DEF TypeOK, Copies

(* A task that saves is only found next to a current copy. *)
LEMMA SaverSeesCurrent ==
  ASSUME TypeInv, CalmInv, calm, NEW t \in Tasks, Busy(t), ~Connecting(t)
  PROVE  /\ Current /\ owner \in Workers /\ task[t].worker = owner
         /\ \A u \in Tasks : Connecting(u) => RevOf(task[u].read) <= Mine.rev
<1>1. owner # None
  BY DEF CalmInv
<1>2. ASSUME NEW u \in Tasks, Connecting(u)
      PROVE  Current /\ RevOf(task[u].read) <= Mine.rev
  <2>1. u # t /\ Arriving(u)
    BY <1>1, <1>2 DEF CalmInv
  <2>2. QED BY <2>1 DEF Arriving, Alone
<1>3. Current
  BY <1>1, <1>2 DEF CalmInv
<1>4. QED BY <1>1, <1>2, <1>3 DEF CalmInv, TypeInv, TypeOK

(* Between two things that happen, Redis has everything. *)
LEMMA RestIsQuiet ==
  ASSUME TypeInv, CalmInv, calm, \A t \in Tasks : ~Busy(t)
  PROVE  Quiet
<1>1. CASE owner = None
  BY <1>1 DEF CalmInv
<1>2. CASE owner # None
  <2>1. Current
    BY <1>2 DEF CalmInv, Busy, Connecting
  <2>2. Saved(owner)
    BY <2>1 DEF Current, Covered, Busy
  <2>3. log = StoredCopy.seen
    BY <2>1, <2>2 DEF Current, Saved, Mine
  <2>4. \A w \in Workers : Behind(w)
    BY <1>2, <2>2 DEF CalmInv, Behind
  <2>5. QED BY <2>3, <2>4 DEF Quiet
<1>3. QED BY <1>1, <1>2

(* The frame of a step of a saving task t: what it leaves alone, and what  *)
(* has to be shown for it.                                                 *)
LEMMA SaverStep ==
  ASSUME TypeInv, CalmInv, calm,
         NEW t \in Tasks, Busy(t), ~Connecting(t),
         owner' = owner, local' = local,
         task'[t].pc # "connecting",
         task'[t].pc # "idle" => task'[t].worker = task[t].worker,
         \A u \in Tasks \ {t} : /\ task'[u].pc = task[u].pc
                                /\ task'[u].worker = task[u].worker
                                /\ task'[u].read = task[u].read,
         \A w \in Workers \ {owner} : Behind(w)',
         Current', Mine.rev <= Mine'.rev, Mine'.rev \in Nat, Mine.rev \in Nat
  PROVE  CalmInv'
<1>1. /\ owner \in Workers /\ owner # None /\ task[t].worker = owner
      /\ \A u \in Tasks : Connecting(u) => RevOf(task[u].read) <= Mine.rev
  BY SaverSeesCurrent, NoneAssumption
<1>2. \A u \in Tasks : Busy(u)' => task'[u].worker = owner
  BY <1>1 DEF CalmInv, Busy
<1>3. \A u \in Tasks : Connecting(u)' => /\ u # t /\ Connecting(u)
                                         /\ task'[u].read = task[u].read
  BY DEF Connecting
<1>4. \A u, v \in Tasks : Connecting(u)' /\ Connecting(v)' => u = v
  BY <1>1, <1>3 DEF CalmInv
<1>5. ASSUME NEW u \in Tasks, Connecting(u)'
      PROVE  Arriving(u)'
  <2>1. RevOf(task[u].read) <= Mine.rev /\ RevOf(task[u].read) \in Nat
    BY <1>1, <1>3, <1>5 DEF TypeInv, TypeOK, TaskStates, Copies, RevOf
  <2>2. RevOf(task'[u].read) <= Mine'.rev
    BY <2>1, <1>3, <1>5 DEF RevOf
  <2>3. RevOf(task[u].read)' = RevOf(task'[u].read)
    BY DEF RevOf
  <2>4. QED BY <2>2, <2>3 DEF Arriving
<1>6. QED
  BY <1>1, <1>2, <1>4, <1>5 DEF CalmInv

LEMMA ConnectReadCalm ==
  ASSUME TypeInv, CalmInv, calm', NEW t \in Tasks, NEW w \in Workers,
         ConnectRead(t, w)
  PROVE  CalmInv'
<1> USE NoneAssumption DEF Busy, Connecting
<1>1. PICK o \in Objects, failed \in BOOLEAN :
        task' = [task EXCEPT ![t] =
          [Idle EXCEPT !.pc = "connecting", !.worker = w, !.object = o,
                       !.read = LoadSession(failed), !.failed = failed]]
        /\ ~failed
  BY DEF ConnectRead, MayFail
<1>2. /\ task'[t].pc = "connecting" /\ task'[t].worker = w
      /\ task'[t].read = stored
      /\ \A u \in Tasks \ {t} : task'[u] = task[u]
  BY <1>1 DEF TypeInv, TypeOK, Idle, LoadSession
<1>3. /\ calm /\ ~Busy(t) /\ owner' = w
      /\ UNCHANGED <<heap, local, stored, log>>
      /\ \A u \in Tasks : Busy(u) => task[u].worker = w /\ ~Connecting(u)
  BY DEF ConnectRead
<1>4. /\ owner' # None
      /\ \A u \in Tasks : Busy(u)' => task'[u].worker = owner'
      /\ \A u \in Tasks : Connecting(u)' => u = t
  BY <1>2, <1>3
<1>5. \A v \in Workers : Behind(v)' <=> Behind(v)
  BY <1>3 DEF Behind, Saved, StoredCopy
<1>6. CASE \A u \in Tasks : ~Busy(u)
  <2>1. Quiet
    BY <1>3, <1>6, RestIsQuiet
  <2>2. Quiet'
    BY <2>1, <1>3, <1>5 DEF Quiet, StoredCopy
  <2>3. Arriving(t)'
    BY <2>2, <1>2, <1>3, <1>6 DEF Arriving, Alone
  <2>4. QED BY <2>2, <2>3, <1>2, <1>4 DEF CalmInv, Quiet
<1>7. CASE \E u \in Tasks : Busy(u)
  <2>1. PICK u \in Tasks : Busy(u)
    BY <1>7
  <2>2. Current /\ owner = w
    BY <2>1, <1>3, SaverSeesCurrent
  <2>3. Current'
    BY <2>2, <1>2, <1>3
    DEF Current, Mine, StoredCopy, Covered, Saved, SavesAreOwn, RevOf
  <2>4. RevOf(task'[t].read) <= Mine'.rev
    BY <2>2, <1>2, <1>3, StoredCopyType DEF Current, Mine, TypeInv, RevOf
  <2>5. Arriving(t)'
    <3>1. RevOf(task[t].read)' = RevOf(task'[t].read)
      BY DEF RevOf
    <3>2. QED BY <2>3, <2>4, <3>1 DEF Arriving
  <2>6. \A v \in Workers \ {owner'} : Behind(v)'
    BY <2>2, <1>3, <1>5 DEF CalmInv
  <2>7. QED BY <2>5, <2>6, <1>2, <1>4 DEF CalmInv
<1>8. QED BY <1>6, <1>7

LEMMA HandleCalm ==
  ASSUME TypeInv, OwnObjects, CalmInv, calm', NEW t \in Tasks,
         NEW w \in Workers, Handle(t, w)
  PROVE  CalmInv'
<1> USE NoneAssumption DEF Busy, Connecting
<1>1. /\ calm /\ owner = w /\ ~Busy(t) /\ \A u \in Tasks : ~Connecting(u)
      /\ UNCHANGED <<local, stored, owner>>
      /\ task' = [task EXCEPT ![t] = [Idle EXCEPT !.pc = "handling", !.worker = w]]
  BY DEF Handle
<1>2. /\ task'[t].pc = "handling" /\ task'[t].worker = w
      /\ \A u \in Tasks \ {t} : task'[u] = task[u]
  BY <1>1 DEF TypeInv, TypeOK, Idle
<1>3. Current
  BY <1>1 DEF CalmInv
<1>4. PICK e \in Events \ log :
        /\ heap' = [heap EXCEPT ![local[w]].seen = @ \cup {e}]
        /\ log' = log \cup {e}
  BY DEF Handle
<1>5. /\ Mine'.rev = Mine.rev /\ Mine'.seen = log'
      /\ \A o \in Objects \ {local[w]} : heap'[o] = heap[o]
  BY <1>1, <1>3, <1>4 DEF Current, Mine, TypeInv, TypeOK, Copies
<1>6. Current'
  <2>1. SavesAreOwn'
    BY <1>1, <1>2, <1>3, <1>5 DEF Current, SavesAreOwn, RevOf
  <2>2. QED
    BY <2>1, <1>1, <1>2, <1>3, <1>5 DEF Current, Covered, StoredCopy
<1>7. ASSUME NEW v \in Workers \ {owner}
      PROVE  Behind(v)'
  <2>1. local[v] # None => local[v] # local[w] /\ local[v] \in Objects
    BY <1>1 DEF OwnObjects, TypeInv, TypeOK
  <2>2. Behind(v)
    BY <1>1 DEF CalmInv
  <2>3. QED BY <2>1, <2>2, <1>1, <1>5 DEF Behind, Saved, StoredCopy
<1>8. \A u \in Tasks : Busy(u)' => task'[u].worker = owner'
  BY <1>1, <1>2 DEF CalmInv
<1>9. QED BY <1>1, <1>2, <1>6, <1>7, <1>8 DEF CalmInv

LEMMA ConnectAdoptCalm ==
  ASSUME TypeInv, OwnObjects, CalmInv, calm', NEW t \in Tasks, ConnectAdopt(t)
  PROVE  CalmInv'
<1> USE NoneAssumption DEF Busy, Connecting
<1> DEFINE w == task[t].worker
           o == task[t].object
<1>1. /\ task[t].pc = "connecting" /\ calm
      /\ task' = [task EXCEPT ![t] = Idle]
      /\ UNCHANGED <<stored, log, owner, calm>>
      /\ IF KeepsLocal(w, task[t].read)
           THEN UNCHANGED <<heap, local>>
           ELSE /\ heap'  = [heap EXCEPT ![o] =
                               IF task[t].read = None THEN Blank ELSE task[t].read]
                /\ local' = [local EXCEPT ![w] = o]
  BY DEF ConnectAdopt
<1>2. /\ owner # None /\ w = owner /\ w \in Workers /\ o \in Objects /\ Arriving(t)
      /\ \A u \in Tasks \ {t} : task[u].pc # "connecting"
  BY <1>1 DEF CalmInv, TypeInv, TypeOK, PhaseInv
<1>3. /\ task'[t].pc = "idle"
      /\ \A u \in Tasks \ {t} : task'[u] = task[u]
  BY <1>1 DEF TypeInv, TypeOK, Idle
<1>4. /\ \A u \in Tasks : task'[u].pc # "connecting"
      /\ \A u \in Tasks : Busy(u)' => task'[u].worker = owner'
  BY <1>1, <1>2, <1>3 DEF CalmInv
<1>5. \A v \in Workers \ {owner} : Behind(v)
  BY <1>1, <1>2 DEF CalmInv
<1>6. SUFFICES Current' /\ \A v \in Workers \ {owner} : Behind(v)'
  BY <1>1, <1>2, <1>4 DEF CalmInv
<1>7. CASE Current /\ RevOf(task[t].read) <= Mine.rev
  <2>1. KeepsLocal(w, task[t].read)
    BY <1>2, <1>7, RevType
    DEF KeepsLocal, Current, Mine, RevOf, TypeInv, TypeOK, TaskStates, Copies
  <2>2. UNCHANGED <<heap, local>>
    BY <2>1, <1>1
  <2>3. QED
    BY <2>2, <1>1, <1>3, <1>5, <1>7
    DEF Current, Mine, StoredCopy, Covered, Saved, SavesAreOwn, Behind, RevOf
<1>8. CASE Quiet /\ task[t].read = stored /\ Alone(t)
  <2>1. SavesAreOwn'
    BY <1>3, <1>8 DEF SavesAreOwn, Alone
  <2>2. CASE KeepsLocal(w, stored)
    <3>1. UNCHANGED <<heap, local>>
      BY <2>2, <1>1, <1>8
    <3>2. local[owner] \in Objects /\ Behind(owner)
      BY <2>2, <1>2, <1>8 DEF KeepsLocal, TypeInv, TypeOK, Quiet
    <3>3. Saved(owner)
      <4>1. heap[local[owner]].rev \in Nat /\ StoredCopy.rev \in Nat
        BY <3>2, RevType, StoredCopyType DEF TypeInv
      <4>2. ~(heap[local[owner]].rev < StoredCopy.rev)
        BY <4>1, <2>2, <1>2 DEF KeepsLocal, StoredCopy, Blank
      <4>3. QED BY <4>2, <3>2 DEF Behind
    <3>4. Current'
      BY <2>1, <3>1, <3>2, <3>3, <1>1, <1>8, StoredCopyType
      DEF Current, Mine, Saved, Covered, Quiet, StoredCopy, TypeInv
    <3>5. QED BY <3>1, <3>4, <1>1, <1>5 DEF Behind, Saved, StoredCopy
  <2>3. CASE ~KeepsLocal(w, stored)
    <3>1. /\ heap' = [heap EXCEPT ![o] = StoredCopy]
          /\ local' = [local EXCEPT ![w] = o]
      BY <2>3, <1>1, <1>8 DEF StoredCopy
    <3>2. local'[owner'] = o /\ Mine' = StoredCopy /\ StoredCopy' = StoredCopy
      BY <3>1, <1>1, <1>2 DEF Mine, TypeInv, TypeOK, StoredCopy
    <3>3. Current'
      BY <2>1, <3>2, <1>1, <1>2, <1>8, StoredCopyType
      DEF Current, Mine, Saved, Covered, Quiet, TypeInv
    <3>4. ASSUME NEW v \in Workers \ {owner}
          PROVE  Behind(v)'
      <4>1. local'[v] = local[v] /\ local[v] # o
        BY <3>1, <1>1, <1>2 DEF TypeInv, TypeOK, OwnObjects
      <4>2. local[v] # None => heap'[local'[v]] = heap[local[v]]
        BY <4>1, <3>1 DEF TypeInv, TypeOK
      <4>3. QED BY <4>1, <4>2, <3>2, <1>5 DEF Behind, Saved
    <3>5. QED BY <3>3, <3>4
  <2>4. QED BY <2>2, <2>3
<1>9. QED BY <1>2, <1>7, <1>8 DEF Arriving

LEMMA SaveReadCalm ==
  ASSUME TypeInv, CalmInv, calm', NEW t \in Tasks, SaveRead(t)
  PROVE  CalmInv'
<1>1. /\ calm /\ task[t].pc = "handling"
      /\ UNCHANGED <<heap, local, stored, log, owner>>
      /\ task'[t].pc = "checking" /\ task'[t].worker = task[t].worker
      /\ task'[t].object = local[task[t].worker]
      /\ task'[t].read = stored
      /\ \A u \in Tasks \ {t} : task'[u] = task[u]
  <2>1. PICK failed \in BOOLEAN :
          /\ task' = [task EXCEPT ![t] =
               [@ EXCEPT !.pc = "checking", !.object = local[task[t].worker],
                         !.read = LoadSession(failed), !.failed = failed]]
          /\ calm' = (calm /\ ~failed)
    BY DEF SaveRead, MayFail
  <2>2. task[t] \in TaskStates
    BY DEF TypeInv, TypeOK
  <2>3. /\ task'[t].pc = "checking" /\ task'[t].worker = task[t].worker
        /\ task'[t].object = local[task[t].worker]
        /\ task'[t].read = LoadSession(failed)
        /\ \A u \in Tasks \ {t} : task'[u] = task[u]
    BY <2>1, <2>2 DEF TypeInv, TypeOK, TaskStates
  <2>4. QED BY <2>1, <2>3 DEF SaveRead, LoadSession
<1>2. Busy(t) /\ ~Connecting(t)
  BY <1>1 DEF Busy, Connecting
<1>3. Current /\ task[t].worker = owner
  BY <1>1, <1>2, SaverSeesCurrent
<1>4. SavesAreOwn'
  BY <1>1, <1>3, StoredCopyType DEF Current, SavesAreOwn, Mine, RevOf, TypeInv
<1>5. Current'
  BY <1>1, <1>3, <1>4 DEF Current, Covered, StoredCopy, Mine
<1>6. \A w \in Workers \ {owner} : Behind(w)'
  <2>1. owner # None
    BY <1>1, <1>2, SaverSeesCurrent, NoneAssumption
  <2>2. QED BY <2>1, <1>1 DEF CalmInv, Behind, Saved, StoredCopy
<1>7. Mine.rev \in Nat /\ Mine' = Mine
  BY <1>1, <1>3, RevType DEF Current, Mine, TypeInv
<1>8. QED BY <1>1, <1>2, <1>5, <1>6, <1>7, SaverStep

\* In a calm visit a save is never refused.
LEMMA CalmNotRefused ==
  ASSUME TypeInv, CalmInv, calm, NEW t \in Tasks, task[t].pc = "checking"
  PROVE  ~Refused(t)
<1>1. Busy(t) /\ ~Connecting(t)
  BY DEF Busy, Connecting
<1>2. Current
  BY <1>1, SaverSeesCurrent
<1>3. Mine.rev \in Nat
  BY <1>2, RevType DEF Current, Mine, TypeInv
<1>4. QED
  BY <1>2, <1>3 DEF Current, SavesAreOwn, Mine, Refused, RevOf,
     TypeInv, TypeOK, TaskStates, Copies

LEMMA SaveSendCalm ==
  ASSUME TypeInv, OwnObjects, CalmInv, calm', NEW t \in Tasks, SaveSend(t)
  PROVE  CalmInv'
<1> DEFINE o    == task[t].object
           copy == [heap[o] EXCEPT !.rev = @ + 1]
<1>1. /\ calm /\ task[t].pc = "checking"
      /\ UNCHANGED <<local, stored, log, owner>>
      /\ heap' = [heap EXCEPT ![o] = copy]
      /\ task'[t].pc = "sending" /\ task'[t].worker = task[t].worker
      /\ task'[t].snap = copy
      /\ \A u \in Tasks \ {t} : task'[u] = task[u]
  BY DEF SaveSend, TypeInv, TypeOK, TaskStates
<1>2. Busy(t) /\ ~Connecting(t)
  BY <1>1 DEF Busy, Connecting
<1>3. Current /\ owner \in Workers
  BY <1>1, <1>2, SaverSeesCurrent
<1>4. o = local[owner] /\ o \in Objects
  BY <1>1, <1>3 DEF Current, SavesAreOwn
<1>5. /\ Mine' = copy /\ copy.rev = Mine.rev + 1 /\ copy.seen = Mine.seen
      /\ Mine.rev \in Nat
  BY <1>1, <1>4, RevType DEF Mine, TypeInv, TypeOK, Copies
<1> HIDE DEF copy
<1>6. \A u \in Tasks : task[u].pc = "sending" => task[u].snap.rev \in Nat
  BY DEF TypeInv, PhaseInv, Copies
<1>7. \A u \in Tasks : RevOf(task[u].read) \in Nat
  BY DEF TypeInv, TypeOK, TaskStates, Copies, RevOf
<1>8. SavesAreOwn'
  <2>1. ASSUME NEW u \in Tasks, task'[u].pc = "checking"
        PROVE  task'[u].object = local'[owner'] /\ RevOf(task'[u].read) <= Mine'.rev
    <3>1. task'[u] = task[u] /\ task[u].pc = "checking"
      BY <1>1, <2>1
    <3>2. task[u].object = local[owner] /\ RevOf(task[u].read) <= Mine.rev
      BY <3>1, <1>3 DEF Current, SavesAreOwn
    <3>3. QED BY <3>1, <3>2, <1>1, <1>5, <1>7 DEF RevOf
  <2>2. ASSUME NEW u \in Tasks, task'[u].pc = "sending"
        PROVE  task'[u].snap.rev <= Mine'.rev
    <3>1. CASE u = t
      BY <3>1, <1>1, <1>5
    <3>2. CASE u # t
      BY <3>2, <2>2, <1>1, <1>3, <1>5, <1>6 DEF Current, SavesAreOwn
    <3>3. QED BY <3>1, <3>2
  <2>3. \A u \in Tasks : RevOf(task[u].read)' = RevOf(task'[u].read)
    BY DEF RevOf
  <2>4. QED BY <2>1, <2>2, <2>3 DEF SavesAreOwn
<1>9. Current'
  <2>1. Covered'
    BY <1>1, <1>5 DEF Covered
  <2>2. StoredCopy' = StoredCopy /\ StoredCopy.rev \in Nat
    BY <1>1, StoredCopyType DEF StoredCopy, TypeInv
  <2>3. StoredCopy.rev <= Mine.rev /\ Mine.seen = log /\ local[owner] \in Objects
    BY <1>3 DEF Current
  <2>4. Mine'.seen = log' /\ local'[owner'] \in Objects
    BY <2>3, <1>1, <1>5
  <2>5. StoredCopy'.rev <= Mine'.rev
    BY <2>2, <2>3, <1>5
  <2>6. QED BY <2>1, <2>4, <2>5, <1>8 DEF Current
<1>10. ASSUME NEW w \in Workers \ {owner}
       PROVE  Behind(w)'
  <2>1. local[w] # None => local[w] # o /\ local[w] \in Objects
    BY <1>3, <1>4 DEF OwnObjects, TypeInv, TypeOK
  <2>2. Behind(w)
    BY <1>1, <1>3, NoneAssumption DEF CalmInv
  <2>3. local[w] # None => heap'[local'[w]] = heap[local[w]]
    BY <2>1, <1>1 DEF TypeInv, TypeOK
  <2>4. StoredCopy' = StoredCopy /\ local'[w] = local[w]
    BY <1>1 DEF StoredCopy
  <2>5. QED BY <2>2, <2>3, <2>4 DEF Behind, Saved
<1>11. Mine.rev <= Mine'.rev /\ Mine'.rev \in Nat
  BY <1>5
<1>12. QED BY <1>1, <1>2, <1>5, <1>9, <1>10, <1>11, SaverStep

LEMMA LandCalm ==
  ASSUME TypeInv, CalmInv, calm', NEW t \in Tasks, Land(t)
  PROVE  CalmInv'
<1>1. /\ calm /\ task[t].pc = "sending" /\ stored' = task[t].snap
      /\ RevOf(stored) < task[t].snap.rev
      /\ UNCHANGED <<heap, local, log, owner>>
      /\ task[t].snap \in Copies
      /\ task'[t].pc = "idle"
  BY DEF Land, TypeInv, PhaseInv, Idle
<1>2. \A u \in Tasks \ {t} :
        /\ task'[u].pc = task[u].pc /\ task'[u].worker = task[u].worker
        /\ task'[u].object = task[u].object
        /\ task'[u].read = task[u].read /\ task'[u].snap = task[u].snap
  BY DEF Land, TypeInv, TypeOK, TaskStates
<1>3. Busy(t) /\ ~Connecting(t)
  BY <1>1 DEF Busy, Connecting
<1>4. Current /\ owner # None
  BY <1>1, <1>3, SaverSeesCurrent, NoneAssumption
<1>5. /\ StoredCopy' = task[t].snap /\ StoredCopy.rev < task[t].snap.rev
      /\ StoredCopy.rev \in Nat /\ task[t].snap.rev \in Nat
  BY <1>1, StoredCopyType, NoneIsNoCopy DEF StoredCopy, TypeInv, Copies
<1>6. Mine.rev \in Nat /\ Mine' = Mine
  BY <1>1, <1>4, RevType DEF Current, Mine, TypeInv
<1>7. SavesAreOwn'
  <2>1. \A u \in Tasks : task'[u].pc \in {"checking", "sending"} => u # t
    BY <1>1
  <2>2. \A u \in Tasks \ {t} : RevOf(task[u].read)' = RevOf(task[u].read)
    BY <1>2 DEF RevOf
  <2>3. QED BY <2>1, <2>2, <1>1, <1>2, <1>4, <1>6 DEF Current, SavesAreOwn
<1>8. Covered'
  <2>1. CASE Saved(owner)
    <3>1. Mine = StoredCopy
      BY <2>1 DEF Saved, Mine
    <3>2. task[t].snap.rev <= Mine.rev
      BY <1>1, <1>4 DEF Current, SavesAreOwn
    <3>3. QED BY <3>1, <3>2, <1>5
  <2>2. CASE \E u \in Tasks : task[u].pc \in {"handling", "checking"}
    BY <2>2, <1>1, <1>2 DEF Covered
  <2>3. CASE \E u \in Tasks : task[u].pc = "sending" /\ task[u].snap = Mine
    <3>1. PICK u \in Tasks : task[u].pc = "sending" /\ task[u].snap = Mine
      BY <2>3
    <3>2. CASE u = t
      BY <3>1, <3>2, <1>1, <1>5 DEF Covered, Saved, Mine
    <3>3. CASE u # t
      BY <3>1, <3>3, <1>2, <1>6 DEF Covered
    <3>4. QED BY <3>2, <3>3
  <2>4. QED BY <2>1, <2>2, <2>3, <1>4 DEF Current, Covered
<1>9. Current'
  <2>1. task[t].snap.rev <= Mine.rev
    BY <1>1, <1>4 DEF Current, SavesAreOwn
  <2>2. QED BY <2>1, <1>1, <1>4, <1>5, <1>6, <1>7, <1>8 DEF Current
<1>10. ASSUME NEW w \in Workers \ {owner}
       PROVE  Behind(w)'
  <2>1. Behind(w)
    BY <1>1, <1>4 DEF CalmInv
  <2>2. local[w] # None => heap[local[w]].rev \in Nat
    BY RevType DEF TypeInv, TypeOK
  <2>3. local[w] # None => heap[local[w]].rev < task[t].snap.rev
    BY <2>1, <2>2, <1>5 DEF Behind, Saved
  <2>4. QED BY <2>3, <1>1, <1>5 DEF Behind
<1>11. Mine.rev <= Mine'.rev /\ Mine'.rev \in Nat
  BY <1>6
<1>12. QED BY <1>1, <1>2, <1>3, <1>6, <1>9, <1>10, <1>11, SaverStep

LEMMA CrashCalm ==
  ASSUME TypeInv, CalmInv, calm', NEW w \in Workers, Crash(w)
  PROVE  CalmInv'
<1> USE NoneAssumption DEF Busy, Connecting
<1>1. /\ calm /\ \A u \in Tasks : ~(Busy(u) /\ task[u].worker = w)
      /\ UNCHANGED <<heap, stored, log>>
      /\ owner' = IF owner = w THEN None ELSE owner
      /\ local' = [local EXCEPT ![w] = None]
  BY DEF Crash
<1>2. \A u \in Tasks : IF Busy(u) THEN task'[u] = task[u] ELSE ~Busy(u)'
  BY <1>1 DEF Crash, TypeInv, TypeOK, Idle
<1>3. \A v \in Workers : Behind(v) => Behind(v)'
  BY <1>1 DEF Behind, Saved, StoredCopy, TypeInv, TypeOK
<1>4. CASE \A u \in Tasks : ~Busy(u)
  <2>1. Quiet /\ \A u \in Tasks : ~Busy(u)'
    BY <1>1, <1>2, <1>4, RestIsQuiet
  <2>2. Quiet'
    BY <2>1, <1>1, <1>3 DEF Quiet, StoredCopy
  <2>3. CASE owner \in {None, w}
    BY <2>1, <2>2, <2>3, <1>1 DEF CalmInv
  <2>4. CASE owner \notin {None, w}
    <3>1. Current
      BY <2>4, <1>1, <1>4 DEF CalmInv
    <3>2. local'[owner] = local[owner] /\ owner' = owner /\ Mine' = Mine
      BY <2>4, <1>1 DEF TypeInv, TypeOK, Mine
    <3>3. Saved(owner)
      BY <3>1, <1>4 DEF Current, Covered
    <3>4. Saved(owner)' /\ StoredCopy' = StoredCopy
      BY <3>2, <3>3, <1>1 DEF Saved, StoredCopy, Mine
    <3>5. Current'
      BY <2>1, <3>1, <3>2, <3>4, <1>1 DEF Current, Covered, SavesAreOwn
    <3>6. QED BY <2>1, <2>2, <3>5, <2>4, <1>1 DEF CalmInv, Quiet
  <2>5. QED BY <2>3, <2>4
<1>5. CASE \E u \in Tasks : Busy(u)
  <2>1. /\ owner \notin {None, w}
        /\ \A u \in Tasks : Busy(u) => task[u].worker = owner
    BY <1>1, <1>5 DEF CalmInv
  <2>2. /\ owner' = owner /\ local'[owner] = local[owner]
        /\ StoredCopy' = StoredCopy /\ Mine' = Mine
    BY <2>1, <1>1 DEF TypeInv, TypeOK, StoredCopy, Mine
  <2>3. \A u \in Tasks :
          /\ task'[u].pc = task[u].pc
          /\ task[u].pc # "idle" => task'[u] = task[u]
    BY <1>2
  <2>4. Current => Current'
    <3>1. \A u \in Tasks : task[u].pc # "idle" =>
            RevOf(task[u].read)' = RevOf(task[u].read)
      BY <2>3 DEF RevOf
    <3>2. Covered => Covered'
      BY <2>2, <2>3 DEF Covered, Saved, Mine
    <3>3. SavesAreOwn => SavesAreOwn'
      BY <2>2, <2>3, <3>1 DEF SavesAreOwn
    <3>4. QED BY <2>2, <3>2, <3>3, <1>1 DEF Current
  <2>5. Quiet => Quiet'
    BY <2>2, <1>1, <1>3 DEF Quiet
  <2>6. ASSUME NEW u \in Tasks, Connecting(u)'
        PROVE  Arriving(u)'
    <3>1. Arriving(u) /\ task'[u] = task[u]
      BY <2>1, <2>3, <2>6, <1>1 DEF CalmInv
    <3>2. RevOf(task[u].read)' = RevOf(task[u].read)
      BY <3>1 DEF RevOf
    <3>3. Alone(u) => Alone(u)'
      BY <2>3 DEF Alone
    <3>4. QED BY <3>1, <3>2, <3>3, <2>2, <2>4, <2>5, <1>1 DEF Arriving
  <2>7. QED BY <2>1, <2>2, <2>3, <2>4, <2>6, <1>1, <1>3 DEF CalmInv
<1>6. QED BY <1>4, <1>5

CalmIInv == TypeInv /\ OwnObjects /\ CalmInv

LEMMA StepCalmInv == CalmIInv /\ [Next]_vars => CalmInv'
<1> SUFFICES ASSUME CalmIInv, [Next]_vars, calm'
             PROVE  CalmInv'
  BY DEF CalmInv
<1> USE DEF CalmIInv
<1>1. ASSUME NEW t \in Tasks, NEW w \in Workers, ConnectRead(t, w) \/ Handle(t, w)
      PROVE  CalmInv'
  BY <1>1, ConnectReadCalm, HandleCalm
<1>2. ASSUME NEW t \in Tasks, ConnectAdopt(t) \/ SaveRead(t) \/ SaveSend(t) \/ Land(t)
      PROVE  CalmInv'
  BY <1>2, ConnectAdoptCalm, SaveReadCalm, SaveSendCalm, LandCalm
<1>3. ASSUME NEW t \in Tasks, SaveRefused(t)
      PROVE  CalmInv'
  BY <1>3, CalmNotRefused DEF SaveRefused
<1>4. ASSUME NEW t \in Tasks, SendFails(t)
      PROVE  CalmInv'
  BY <1>4 DEF SendFails
<1>5. CASE Expire
  BY <1>5 DEF Expire
<1>6. ASSUME NEW w \in Workers, Crash(w)
      PROVE  CalmInv'
  BY <1>6, CrashCalm
<1>7. CASE UNCHANGED vars
  BY <1>7 DEF vars, CalmInv, Quiet, Behind, Saved, StoredCopy, Busy, Connecting,
       Arriving, Current, Mine, Covered, SavesAreOwn, Alone, RevOf
<1>8. QED
  BY <1>1, <1>2, <1>3, <1>4, <1>5, <1>6, <1>7 DEF Next

LEMMA InitCalmIInv == Init => CalmIInv
<1> SUFFICES ASSUME Init PROVE CalmIInv
  OBVIOUS
<1>1. OwnObjects
  BY DEF Init, OwnObjects, Connecting, Idle
<1>2. CalmInv
  BY DEF Init, CalmInv, Quiet, StoredCopy, Blank, Behind, Busy, Idle
<1>3. QED BY <1>1, <1>2, InitTypeInv DEF CalmIInv

LEMMA CalmIInvHolds == Spec => []CalmIInv
<1>1. CalmIInv /\ [Next]_vars => CalmIInv'
  BY StepTypeInv, StepOwnObjects, StepCalmInv DEF CalmIInv
<1>2. QED BY <1>1, InitCalmIInv, PTL DEF Spec

(* For any number of workers and of saves under way at once: while visits  *)
(* follow one another, the worker the visitor is connected to has every    *)
(* event of the session.                                                   *)
THEOREM CalmVisitTheorem == Spec => []CalmVisitSeesEverything
<1>1. CalmIInv => CalmVisitSeesEverything
  BY NoneAssumption
  DEF CalmIInv, CalmInv, CalmVisitSeesEverything, Current, Mine
<1>2. QED BY <1>1, CalmIInvHolds, PTL

(* ... and whenever nothing is under way, so has Redis.                    *)
THEOREM CalmDurabilityTheorem == Spec => []CalmQuiescenceIsDurable
<1>1. CalmIInv => CalmQuiescenceIsDurable
  BY RestIsQuiet DEF CalmIInv, CalmQuiescenceIsDurable, Quiet, StoredCopy, Blank
<1>2. QED BY <1>1, CalmIInvHolds, PTL

(* ... and no save is refused.                                             *)
THEOREM CalmSaveTheorem == Spec => []CalmSaveIsNotRefused
<1>1. CalmIInv => CalmSaveIsNotRefused
  BY CalmNotRefused DEF CalmIInv, CalmSaveIsNotRefused
<1>2. QED BY <1>1, CalmIInvHolds, PTL
=============================================================================
