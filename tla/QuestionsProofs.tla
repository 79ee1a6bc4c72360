---------------------------- MODULE QuestionsProofs ----------------------------
(***************************************************************************)
(* The properties of Questions that follow from the proofs about its parts,*)
(* for any values of the constants that QuestionsAssumption allows.        *)
(***************************************************************************)
EXTENDS Questions, ListLemmas

-----------------------------------------------------------------------------
(* The button cache: index is v1, current v2, lastChecked v3, entry v4,    *)
(* legacyEntry v5, phase v6, listening v7, backlog v8, unpublished v9,     *)
(* believed v10, task v11, lost v12 and hit v13.                           *)

\* An invalidation that will still clear the entry.
ClearOnItsWay == v9 \/ \E w \in Workers : v8[w] > 0

(* What a request that has its answer knows of it: it is of a version that *)
(* exists, and of the version it was asked for, if that was known.         *)
AnswersAreTrue ==
  \A t \in Tasks : v11[t].at = "store" =>
    /\ v11[t].text \in Button!Versions
    /\ v1 = "legacy" => v11[t].text <= v2
    /\ v11[t].version \in Button!Versions => v11[t].text = v11[t].version

(* What an entry tells of itself is so: when it was saved, and that its    *)
(* text is the version it is filed under, unless that changed meanwhile.   *)
EntryIsTrue ==
  v4 # None =>
    /\ v4.cachedAt = v4.born
    /\ v4.born <= v2
    /\ v1 = "legacy" => v4.text <= v4.born
    /\ v1 = "canonical" => v4.text = v4.version \/ v4.straddled

(* The strengthening of LegacyEntryIsCurrent: while an invalidation is on  *)
(* its way the entry may be of an older text, and the last invalidation    *)
(* to go without clearing it is one that counts as lost.                   *)
OldOnlyUntilCleared ==
  v1 = "legacy" /\ ~v12 /\ v4 # None =>
    ClearOnItsWay \/ v4.text = v2 \/ v4.text < v4.born

CacheInv ==
  /\ Button!TypeOK
  /\ v3 = v2
  /\ v1 = "canonical" => v5 = None
  /\ AnswersAreTrue
  /\ EntryIsTrue
  /\ OldOnlyUntilCleared
  /\ Button!CanonicalHitIsNotStaler

-----------------------------------------------------------------------------
(* What the parameters say of the values.                                  *)
LEMMA CacheValues ==
  ASSUME Button!Parameters
  PROVE  /\ MaxVersion \in Nat \ {0} /\ MaxBacklog \in Nat \ {0}
         /\ ButtonKinds \subseteq {"legacy", "canonical"}
         /\ None \notin Nat /\ None \notin Button!Versions
         /\ Button!NoVersion \notin Button!Versions
         /\ Button!Versions \subseteq Nat
BY DEF Button!Parameters, Button!Versions, Button!NoVersion

(* The version a request learns is a version, the mark of a failed lookup, *)
(* or nothing; and nothing only on the legacy index.                       *)
LEMMA VersionLearned ==
  ASSUME Button!Parameters, Button!TypeOK, NEW t \in Tasks, NEW v \in Button!Known,
         Button!Learns(t, v)
  PROVE  /\ v = None <=> v1 = "legacy"
         /\ v10' \in [Workers -> Button!Versions \cup {Button!NoVersion, None}]
<1>1. v1 \in {"legacy", "canonical"}
  BY CacheValues DEF Button!TypeOK
<1>2. v11[t].reply \in Button!Versions \cup {Button!NoVersion, None}
  BY DEF Button!TypeOK, Button!TaskStates
<1>3. v = None <=> v1 = "legacy"
  BY <1>1, <1>2, CacheValues DEF Button!Learns
<1>4. v10' \in [Workers -> Button!Versions \cup {Button!NoVersion, None}]
  BY <1>2 DEF Button!Learns, Button!TypeOK, Button!Known
<1> QED BY <1>3, <1>4

(* The records that the actions write are of their types.                  *)
LEMMA IdleIsATask == Button!Idle \in Button!TaskStates
BY DEF Button!Idle, Button!TaskStates, Button!Stages

\* What is saved is an entry.
LEMMA SavedIsAnEntry ==
  ASSUME Button!TypeOK, NEW t \in Tasks, v11[t].text \in Button!Versions,
         NEW v \in Button!Versions \cup {None}
  PROVE  Button!NewEntry(t, v) \in Button!Entries
BY DEF Button!TypeOK, Button!NewEntry, Button!Entries

(* What get finds, under either key.                                       *)
LEMMA CachedType ==
  ASSUME Button!Parameters, Button!TypeOK, Button!Cached # None
  PROVE  Button!Cached.text \in Button!Versions /\ Button!Cached.straddled \in BOOLEAN
BY DEF Button!TypeOK, Button!Cached, Button!Entries

(* A retrieval takes its chunks from one version: on the legacy index, the *)
(* current one, else the one it asked for, if it asked for one.            *)
LEMMA RetrievesAVersion ==
  ASSUME Button!Parameters, Button!TypeOK, NEW t \in Tasks, Button!Retrieve(t)
  PROVE  \E v \in Button!Known, text \in Button!Versions :
           /\ Button!Learns(t, v)
           /\ v11' = [v11 EXCEPT ![t].at = "store", ![t].reply = None,
                                   ![t].text = text, ![t].version = v]
           /\ v1 = "legacy" => text = v2
           /\ v \in Button!Versions => text = v
<1>1. PICK v \in Button!Known :
        /\ Button!Learns(t, v)
        /\ \E text \in IF v = None THEN {v2}
                      ELSE IF v = Button!NoVersion THEN 1..v2 ELSE {v} :
             v11' = [v11 EXCEPT ![t].at = "store", ![t].reply = None,
                                  ![t].text = text, ![t].version = v]
  BY DEF Button!Retrieve
<1>2. PICK text \in IF v = None THEN {v2}
                   ELSE IF v = Button!NoVersion THEN 1..v2 ELSE {v} :
        v11' = [v11 EXCEPT ![t].at = "store", ![t].reply = None,
                             ![t].text = text, ![t].version = v]
  BY <1>1
<1>3. text \in Button!Versions
  BY CacheValues DEF Button!TypeOK, Button!Known, Button!Versions
<1>4. v1 = "legacy" => text = v2
  BY <1>1, VersionLearned
<1>5. v \in Button!Versions => text = v
  BY CacheValues
<1> QED BY <1>1, <1>2, <1>3, <1>4, <1>5

-----------------------------------------------------------------------------
\* The cache starts with its types.
LEMMA CacheTypeInit ==
  ASSUME Button!Parameters, Button!Init
  PROVE  Button!TypeOK
<1>1. 1 \in Button!Versions /\ 0 \in 0..MaxBacklog
  BY CacheValues DEF Button!Versions
<1>2. v5 \in Button!Versions \cup {None}
  BY <1>1 DEF Button!Init
<1> QED BY <1>1, <1>2, IdleIsATask, CacheValues
        DEF Button!Init, Button!TypeOK

(* Every action keeps the types.                                           *)
LEMMA CacheTypeNext ==
  ASSUME Button!Parameters, Button!TypeOK, AnswersAreTrue, [Button!Next]_(Button!vars)
  PROVE  Button!TypeOK'
<1> USE CacheValues DEF Button!TypeOK, Button!source, Button!worker
<1>1. CASE Button!Ingest
  BY <1>1 DEF Button!Ingest, Button!Versions
<1>2. CASE Button!PublishInvalidation
  <2>1. ASSUME NEW w \in Workers
        PROVE  v8[w] + (IF w \in v7 THEN 1 ELSE 0) \in 0..MaxBacklog
    BY <1>2 DEF Button!PublishInvalidation
  <2> QED BY <1>2, <2>1 DEF Button!PublishInvalidation
<1>3. CASE Button!AdminClear
  BY <1>3 DEF Button!AdminClear, Button!Cleared
<1>4. CASE Button!Expire
  BY <1>4 DEF Button!Expire
<1>5. ASSUME NEW w \in Workers, Button!Reconcile(w) PROVE Button!TypeOK'
  BY <1>5 DEF Button!Reconcile
<1>6. ASSUME NEW w \in Workers, Button!Subscribe(w) PROVE Button!TypeOK'
  BY <1>6 DEF Button!Subscribe
<1>7. ASSUME NEW w \in Workers, Button!Disconnect(w) PROVE Button!TypeOK'
  BY <1>7 DEF Button!Disconnect
<1>8. ASSUME NEW w \in Workers, Button!Restart(w) PROVE Button!TypeOK'
  <2>1. v11' \in [Tasks -> Button!TaskStates]
    BY <1>8, IdleIsATask DEF Button!Restart
  <2>2. v12' \in BOOLEAN
    BY <1>8 DEF Button!Restart
  <2>3. /\ v6' \in [Workers -> {"starting", "up"}]
        /\ v7' \subseteq Workers
        /\ v8' \in [Workers -> 0..MaxBacklog]
        /\ v10' \in [Workers -> Button!Versions \cup {Button!NoVersion, None}]
    BY <1>8 DEF Button!Restart
  <2>4. UNCHANGED <<v1, v2, v3, v4, v5, v9, v13>>
    BY <1>8 DEF Button!Restart
  <2> QED BY <2>1, <2>2, <2>3, <2>4
<1>9. ASSUME NEW w \in Workers, Button!HandleInvalidation(w) PROVE Button!TypeOK'
  <2>1. v8' \in [Workers -> 0..MaxBacklog]
    BY <1>9 DEF Button!HandleInvalidation
  <2>2. v4' \in {v4, None} /\ v12' \in BOOLEAN
    BY <1>9 DEF Button!HandleInvalidation, Button!Cleared
  <2>3. UNCHANGED <<v1, v2, v3, v5, v6, v7, v9, v10, v11, v13>>
    BY <1>9 DEF Button!HandleInvalidation
  <2> QED BY <2>1, <2>2, <2>3
<1>10. ASSUME NEW w \in Workers, Button!Forget(w) PROVE Button!TypeOK'
  BY <1>10 DEF Button!Forget
<1>11. ASSUME NEW w \in Workers, NEW t \in Tasks, Button!Begin(t, w) PROVE Button!TypeOK'
  <2>1. [Button!Idle EXCEPT !.at = "serve", !.worker = w] \in Button!TaskStates
    BY DEF Button!Idle, Button!TaskStates, Button!Stages
  <2> QED BY <1>11, <2>1 DEF Button!Begin
<1>12. ASSUME NEW t \in Tasks, Button!AskVersions(t) PROVE Button!TypeOK'
  <2>1. PICK answer \in {v2} \cup {Button!NoVersion} :
          v11' = [v11 EXCEPT ![t].reply = answer]
    BY <1>12 DEF Button!AskVersions
  <2>2. [v11[t] EXCEPT !.reply = answer] \in Button!TaskStates
    <3>1. answer \in Button!Versions \cup {Button!NoVersion, None}
          /\ v11[t] \in Button!TaskStates
      OBVIOUS
    <3> QED BY <3>1 DEF Button!TaskStates
  <2> QED BY <1>12, <2>1, <2>2 DEF Button!AskVersions
<1>13. ASSUME NEW t \in Tasks, Button!Serve(t) PROVE Button!TypeOK'
  <2>1. PICK v \in Button!Known :
          /\ Button!Learns(t, v)
          /\ \/ /\ Button!Hit(v)
                /\ v13' = [text |-> Button!Cached.text,
                           straddled |-> Button!Cached.straddled,
                           asOf |-> IF v = None THEN v2 ELSE v]
                /\ v11' = [v11 EXCEPT ![t] = Button!Idle]
             \/ /\ v11' = [v11 EXCEPT ![t].at = "retrieve", ![t].reply = None]
                /\ UNCHANGED v13
    BY <1>13 DEF Button!Serve
  <2>2. v10' \in [Workers -> Button!Versions \cup {Button!NoVersion, None}]
    BY <2>1, VersionLearned
  <2>3. CASE /\ Button!Hit(v)
             /\ v13' = [text |-> Button!Cached.text,
                        straddled |-> Button!Cached.straddled,
                        asOf |-> IF v = None THEN v2 ELSE v]
             /\ v11' = [v11 EXCEPT ![t] = Button!Idle]
    <3>1. Button!Cached.text \in Button!Versions /\ Button!Cached.straddled \in BOOLEAN
          /\ v # Button!NoVersion
      BY <2>3, CachedType DEF Button!Hit
    <3>2. (IF v = None THEN v2 ELSE v) \in Button!Versions
      BY <3>1 DEF Button!Known
    <3>3. v13' \in [text : Button!Versions, asOf : Button!Versions, straddled : BOOLEAN]
      BY <2>1, <2>3, <3>1, <3>2
    <3> QED BY <1>13, <2>1, <2>2, <2>3, <3>3, IdleIsATask
            DEF Button!Serve
  <2>4. CASE /\ v11' = [v11 EXCEPT ![t].at = "retrieve", ![t].reply = None]
             /\ UNCHANGED v13
    <3>1. [v11[t] EXCEPT !.at = "retrieve", !.reply = None] \in Button!TaskStates
      BY DEF Button!TaskStates, Button!Stages
    <3>2. v11' \in [Tasks -> Button!TaskStates]
      BY <2>4, <3>1
    <3> QED BY <1>13, <2>2, <2>4, <3>2
            DEF Button!Serve
  <2> QED BY <2>1, <2>3, <2>4
<1>14. ASSUME NEW t \in Tasks, Button!Retrieve(t) PROVE Button!TypeOK'
  <2>1. PICK v \in Button!Known, text \in Button!Versions :
          /\ Button!Learns(t, v)
          /\ v11' = [v11 EXCEPT ![t].at = "store", ![t].reply = None,
                                  ![t].text = text, ![t].version = v]
    BY <1>14, RetrievesAVersion
  <2>2. v10' \in [Workers -> Button!Versions \cup {Button!NoVersion, None}]
    BY <2>1, VersionLearned
  <2>4. [v11[t] EXCEPT !.at = "store", !.reply = None, !.text = text, !.version = v]
          \in Button!TaskStates
    <3>1. v11[t] \in Button!TaskStates /\ v \in Button!Versions \cup {Button!NoVersion, None}
      BY DEF Button!Known
    <3> QED BY <3>1 DEF Button!TaskStates, Button!Stages
  <2> QED BY <1>14, <2>1, <2>2, <2>4 DEF Button!Retrieve
<1>15. ASSUME NEW t \in Tasks, Button!Store(t) PROVE Button!TypeOK'
  <2>1. PICK v \in Button!Known :
          /\ Button!Learns(t, v)
          /\ \/ v # Button!NoVersion /\ v4' = Button!NewEntry(t, v) /\ v12' = FALSE
             \/ UNCHANGED <<v4, v12>>
    BY <1>15 DEF Button!Store
  <2>2. v10' \in [Workers -> Button!Versions \cup {Button!NoVersion, None}]
    BY <2>1, VersionLearned
  <2>3. v11[t].text \in Button!Versions
    BY <1>15 DEF Button!Store, AnswersAreTrue, Button!Versions
  <2>4. v4' \in Button!Entries \cup {None}
    BY <2>1, <2>3, SavedIsAnEntry DEF Button!Known
  <2>5. v12' \in BOOLEAN
    BY <2>1
  <2> QED BY <1>15, <2>2, <2>4, <2>5, IdleIsATask
          DEF Button!Store
<1>16. ASSUME NEW t \in Tasks, Button!GenerationFails(t) PROVE Button!TypeOK'
  BY <1>16, IdleIsATask DEF Button!GenerationFails
<1>18. CASE UNCHANGED Button!vars
  BY <1>18 DEF Button!vars
<1> QED BY <1>1, <1>2, <1>3, <1>4, <1>5, <1>6, <1>7, <1>8, <1>9, <1>10, <1>11, <1>12,
           <1>13, <1>14, <1>15, <1>16, <1>18
              DEF Button!Next

-----------------------------------------------------------------------------
\* The cache starts with its invariant.
LEMMA CacheInit ==
  ASSUME Button!Parameters, Button!Init
  PROVE  CacheInv
<1>1. Button!TypeOK
  BY CacheTypeInit
<1>2. AnswersAreTrue
  BY DEF Button!Init, AnswersAreTrue, Button!Idle
<1> QED BY <1>1, <1>2
        DEF Button!Init, CacheInv, EntryIsTrue, OldOnlyUntilCleared,
            Button!CanonicalHitIsNotStaler

(* What only moves between an answer and its saving: the generated answers *)
(* stay true of themselves.                                                *)
LEMMA AnswersNext ==
  ASSUME Button!Parameters, CacheInv, [Button!Next]_(Button!vars)
  PROVE  AnswersAreTrue'
<1> USE CacheValues DEF CacheInv, Button!TypeOK, AnswersAreTrue
<1>1. CASE UNCHANGED v11 /\ (v2' = v2 \/ v2' = v2 + 1) /\ v1' = v1
  BY <1>1
<1>2. ASSUME NEW t \in Tasks, v2' = v2, v1' = v1,
             v11' = [v11 EXCEPT ![t] = v11'[t]],
             v11'[t].at = "store" =>
               /\ v11'[t].text \in Button!Versions
               /\ v1 = "legacy" => v11'[t].text <= v2
               /\ v11'[t].version \in Button!Versions => v11'[t].text = v11'[t].version
      PROVE  AnswersAreTrue'
  BY <1>2
<1>3. CASE Button!Ingest \/ Button!PublishInvalidation \/ Button!AdminClear \/ Button!Expire
  BY <1>1, <1>3 DEF Button!Ingest, Button!PublishInvalidation, Button!AdminClear,
                    Button!Expire, Button!source
<1>4. ASSUME NEW w \in Workers,
             \/ Button!Reconcile(w) \/ Button!Subscribe(w) \/ Button!Disconnect(w)
             \/ Button!HandleInvalidation(w) \/ Button!Forget(w)
      PROVE  AnswersAreTrue'
  BY <1>1, <1>4 DEF Button!Reconcile, Button!Subscribe, Button!Disconnect,
                    Button!HandleInvalidation, Button!Forget, Button!source
<1>5. ASSUME NEW w \in Workers, Button!Restart(w) PROVE AnswersAreTrue'
  BY <1>5 DEF Button!Restart, Button!source, Button!Idle
<1>6. ASSUME NEW w \in Workers, NEW t \in Tasks, Button!Begin(t, w) PROVE AnswersAreTrue'
  BY <1>6 DEF Button!Begin, Button!source, Button!Idle
<1>7. ASSUME NEW t \in Tasks, Button!AskVersions(t) PROVE AnswersAreTrue'
  <2>1. PICK answer : v11' = [v11 EXCEPT ![t].reply = answer]
    BY <1>7 DEF Button!AskVersions
  <2> QED BY <1>7, <2>1 DEF Button!AskVersions, Button!source, Button!TaskStates
<1>8. ASSUME NEW t \in Tasks, Button!Serve(t) PROVE AnswersAreTrue'
  <2>1. \/ v11' = [v11 EXCEPT ![t] = Button!Idle]
        \/ v11' = [v11 EXCEPT ![t].at = "retrieve", ![t].reply = None]
    BY <1>8 DEF Button!Serve
  <2>2. v2' = v2 /\ v1' = v1
    BY <1>8 DEF Button!Serve, Button!source
  <2> QED BY <2>1, <2>2 DEF Button!Idle, Button!TaskStates
<1>9. ASSUME NEW t \in Tasks, Button!Retrieve(t) PROVE AnswersAreTrue'
  <2>1. PICK v \in Button!Known, text \in Button!Versions :
          /\ v11' = [v11 EXCEPT ![t].at = "store", ![t].reply = None,
                                  ![t].text = text, ![t].version = v]
          /\ v1 = "legacy" => text = v2
          /\ v \in Button!Versions => text = v
    BY <1>9, RetrievesAVersion
  <2>2. v2' = v2 /\ v1' = v1
    BY <1>9 DEF Button!Retrieve, Button!source
  <2>3. v11'[t].text = text /\ v11'[t].version = v
    BY <2>1 DEF Button!TaskStates
  <2> QED BY <2>1, <2>2, <2>3 DEF Button!TaskStates
<1>10. ASSUME NEW t \in Tasks, Button!Store(t) \/ Button!GenerationFails(t)
       PROVE  AnswersAreTrue'
  BY <1>10 DEF Button!Store, Button!GenerationFails, Button!source, Button!Idle
<1>11. CASE UNCHANGED Button!vars
  BY <1>11 DEF Button!vars
<1> QED BY <1>3, <1>4, <1>5, <1>6, <1>7, <1>8, <1>9, <1>10, <1>11
        DEF Button!Next

(* What is filed is true of itself: an entry is written by Store alone.    *)
LEMMA EntryNext ==
  ASSUME Button!Parameters, CacheInv, [Button!Next]_(Button!vars)
  PROVE  /\ EntryIsTrue'
         /\ v3' = v2'
         /\ v1 = "canonical" => v5' = None
         /\ v1' = v1
<1> USE CacheValues DEF CacheInv, Button!TypeOK, Button!source, Button!worker
<1> DEFINE Goal == /\ EntryIsTrue'
                   /\ v3' = v2'
                   /\ v1 = "canonical" => v5' = None
                   /\ v1' = v1
<1>1. CASE /\ \/ v4' = None \/ v4' = v4
           /\ \/ UNCHANGED <<v2, v3>>
              \/ v2' = v2 + 1 /\ v3' = v2'
           /\ v5' = v5 \/ v5' = None
           /\ v1' = v1
  BY <1>1 DEF EntryIsTrue, Button!Entries
<1>2. CASE Button!Ingest
  BY <1>1, <1>2 DEF Button!Ingest
<1>3. CASE Button!PublishInvalidation \/ Button!AdminClear \/ Button!Expire
  BY <1>1, <1>3 DEF Button!PublishInvalidation, Button!AdminClear, Button!Expire,
                    Button!Cleared
<1>4. ASSUME NEW w \in Workers,
             \/ Button!Reconcile(w) \/ Button!Subscribe(w) \/ Button!Disconnect(w)
             \/ Button!Restart(w) \/ Button!HandleInvalidation(w) \/ Button!Forget(w)
             \/ \E t \in Tasks : Button!Begin(t, w)
      PROVE  Goal
  BY <1>1, <1>4 DEF Button!Reconcile, Button!Subscribe, Button!Disconnect,
                    Button!Restart, Button!HandleInvalidation, Button!Forget,
                    Button!Cleared, Button!Begin
<1>5. ASSUME NEW t \in Tasks,
             \/ Button!AskVersions(t) \/ Button!Serve(t)
             \/ Button!Retrieve(t) \/ Button!GenerationFails(t)
      PROVE  Goal
  BY <1>1, <1>5 DEF Button!AskVersions, Button!Serve, Button!Retrieve,
                    Button!GenerationFails
<1>6. ASSUME NEW t \in Tasks, Button!Store(t) PROVE Goal
  <2>1. PICK v \in Button!Known :
          /\ Button!Learns(t, v)
          /\ \/ v # Button!NoVersion /\ v4' = Button!NewEntry(t, v)
             \/ UNCHANGED v4
    BY <1>6 DEF Button!Store
  <2>2. UNCHANGED <<v2, v3, v5, v1>>
    BY <1>6 DEF Button!Store
  <2>3. CASE UNCHANGED v4
    BY <1>1, <2>2, <2>3
  <2>4. CASE v # Button!NoVersion /\ v4' = Button!NewEntry(t, v)
    <3>1. v = None <=> v1 = "legacy"
      BY <2>1, VersionLearned
    <3>2. /\ v1 = "legacy" => v11[t].text <= v2
          /\ v = v11[t].version => v1 = "legacy" \/ v11[t].text = v
      BY <1>6, <2>4, <3>1 DEF Button!Store, AnswersAreTrue, Button!Known
    <3>3. /\ v4'.text = v11[t].text /\ v4'.version = v
          /\ v4'.cachedAt = v2 /\ v4'.born = v2
      BY <2>1, <2>4 DEF Button!NewEntry
    <3>4. v # v11[t].version => v4'.straddled
      BY <2>1, <2>4 DEF Button!NewEntry
    <3>5. v1 = "canonical" => v4'.text = v4'.version \/ v4'.straddled
      BY <3>1, <3>2, <3>3, <3>4
    <3>6. EntryIsTrue'
      BY <2>2, <3>2, <3>3, <3>5 DEF EntryIsTrue
    <3> QED BY <2>2, <3>6
  <2> QED BY <2>1, <2>3, <2>4
<1>7. CASE UNCHANGED Button!vars
  BY <1>1, <1>7 DEF Button!vars
<1> QED BY <1>2, <1>3, <1>4, <1>5, <1>6, <1>7
        DEF Button!Next

\* An invalidation that no worker has handled is on its way.
LEMMA PendingNext ==
  ASSUME Button!TypeOK', ~Button!Quiet'
  PROVE  ClearOnItsWay'
BY DEF Button!TypeOK, Button!Quiet, ClearOnItsWay

(* When what a worker was sent is gone, it was the entry's last            *)
(* invalidation, and counts as lost, or another one is on its way, or it   *)
(* was none.                                                               *)
LEMMA GoneOrPending ==
  ASSUME Button!TypeOK, Button!TypeOK', NEW w \in Workers,
         v8' = [v8 EXCEPT ![w] = 0], v9' = v9,
         v12' = (v12 \/ (v8[w] > 0 /\ Button!Quiet'))
  PROVE  ~v12' => ~v12 /\ (ClearOnItsWay => ClearOnItsWay')
<1> USE DEF Button!TypeOK
<1>1. CASE Button!Quiet'
  BY <1>1 DEF ClearOnItsWay, Button!Quiet
<1>2. CASE ~Button!Quiet'
  BY <1>2, PendingNext
<1> QED BY <1>1, <1>2

(* An invalidation on its way is handled, and clears the entry, or, if it  *)
(* was the last, counts as lost; a worker that starts drops what it could  *)
(* have been about, or leaves all as it was.                               *)
LEMMA OldNext ==
  ASSUME Button!Parameters, CacheInv, Button!TypeOK', [Button!Next]_(Button!vars)
  PROVE  OldOnlyUntilCleared'
<1> USE CacheValues DEF CacheInv, Button!TypeOK, Button!source, Button!worker,
                        OldOnlyUntilCleared, ClearOnItsWay
<1>1. CASE UNCHANGED <<v2, v1, v9, v8>> /\ (v4' = None \/ UNCHANGED <<v4, v12>>)
  BY <1>1
<1>2. CASE Button!Ingest
  BY <1>2 DEF Button!Ingest
<1>3. CASE Button!PublishInvalidation
  <2>1. CASE v7 = {}
    BY <1>3, <2>1 DEF Button!PublishInvalidation
  <2>2. CASE v7 # {}
    <3>1. PICK w \in Workers : w \in v7
      BY <2>2
    <3>2. v8'[w] > 0
      BY <1>3, <3>1 DEF Button!PublishInvalidation
    <3> QED BY <3>2
  <2> QED BY <2>1, <2>2
<1>4. CASE Button!AdminClear \/ Button!Expire
  BY <1>1, <1>4 DEF Button!AdminClear, Button!Expire, Button!Cleared
<1>5. ASSUME NEW w \in Workers, Button!Reconcile(w) PROVE OldOnlyUntilCleared'
  <2>1. CASE Button!Outdated(v4)
    BY <1>5, <2>1 DEF Button!Reconcile
  <2>2. CASE ~Button!Outdated(v4)
    BY <1>1, <1>5, <2>2 DEF Button!Reconcile, Button!Outdated, EntryIsTrue, Button!Entries
  <2> QED BY <2>1, <2>2
<1>6. ASSUME NEW w \in Workers,
             \/ Button!Subscribe(w) \/ Button!Forget(w)
             \/ \E t \in Tasks : Button!Begin(t, w)
      PROVE  OldOnlyUntilCleared'
  BY <1>1, <1>6 DEF Button!Subscribe, Button!Forget, Button!Begin
<1>7. ASSUME NEW w \in Workers, Button!Disconnect(w) \/ Button!Restart(w)
      PROVE  OldOnlyUntilCleared'
  <2>1. /\ UNCHANGED <<v2, v1, v9, v4>>
        /\ v8' = [v8 EXCEPT ![w] = 0]
        /\ v12' = (v12 \/ (v8[w] > 0 /\ Button!Quiet'))
    BY <1>7 DEF Button!Disconnect, Button!Restart
  <2> QED BY <2>1, GoneOrPending
<1>8. ASSUME NEW w \in Workers, Button!HandleInvalidation(w) PROVE OldOnlyUntilCleared'
  <2>1. CASE v4' = None
    BY <2>1
  <2>2. CASE v12' = (v12 \/ Button!Quiet') /\ UNCHANGED v4
    <3>1. UNCHANGED <<v2, v1, v9>>
      BY <1>8 DEF Button!HandleInvalidation
    <3>2. CASE Button!Quiet'
      BY <2>2, <3>2
    <3>3. CASE ~Button!Quiet'
      BY <3>3, PendingNext
    <3> QED BY <3>2, <3>3
  <2> QED BY <1>8, <2>1, <2>2 DEF Button!HandleInvalidation, Button!Cleared
<1>9. ASSUME NEW t \in Tasks,
             \/ Button!AskVersions(t) \/ Button!Serve(t)
             \/ Button!Retrieve(t) \/ Button!GenerationFails(t)
      PROVE  OldOnlyUntilCleared'
  BY <1>1, <1>9 DEF Button!AskVersions, Button!Serve, Button!Retrieve,
                    Button!GenerationFails
<1>10. ASSUME NEW t \in Tasks, Button!Store(t) PROVE OldOnlyUntilCleared'
  <2>1. PICK v \in Button!Known :
          v4' = Button!NewEntry(t, v) \/ UNCHANGED <<v4, v12>>
    BY <1>10 DEF Button!Store
  <2>2. UNCHANGED <<v2, v1, v9, v8>>
    BY <1>10 DEF Button!Store
  <2>3. CASE UNCHANGED <<v4, v12>>
    BY <1>1, <2>2, <2>3
  <2>4. CASE v4' = Button!NewEntry(t, v)
    <3>1. v4'.text = v11[t].text /\ v4'.born = v2
      BY <2>4 DEF Button!NewEntry
    <3>2. v1 = "legacy" => v11[t].text <= v2
      BY <1>10 DEF Button!Store, AnswersAreTrue
    <3>3. v11[t].text \in Nat
      BY <1>10 DEF Button!Store, AnswersAreTrue
    <3> QED BY <2>2, <3>1, <3>2, <3>3
  <2> QED BY <2>1, <2>3, <2>4
<1>11. CASE UNCHANGED Button!vars
  BY <1>1, <1>11 DEF Button!vars
<1> QED BY <1>2, <1>3, <1>4, <1>5, <1>6, <1>7, <1>8, <1>9, <1>10, <1>11
        DEF Button!Next

(* A hit is of the version the request learned: what it was filed under.   *)
LEMMA HitNext ==
  ASSUME Button!Parameters, CacheInv, [Button!Next]_(Button!vars)
  PROVE  Button!CanonicalHitIsNotStaler'
<1> USE CacheValues DEF CacheInv, Button!TypeOK, Button!source,
                        Button!CanonicalHitIsNotStaler
<1>1. CASE UNCHANGED <<v1, v13>>
  BY <1>1
<1>2. ASSUME NEW t \in Tasks, Button!Serve(t), v1 = "canonical", v13' # v13
      PROVE  Button!CanonicalHitIsNotStaler'
  <2>1. PICK v \in Button!Known :
          /\ Button!Learns(t, v)
          /\ Button!Hit(v)
          /\ v13' = [text |-> Button!Cached.text,
                           straddled |-> Button!Cached.straddled,
                     asOf |-> IF v = None THEN v2 ELSE v]
    BY <1>2 DEF Button!Serve
  <2>2. v # None /\ v # Button!NoVersion /\ v \in Button!Versions
    BY <1>2, <2>1, VersionLearned DEF Button!Hit, Button!Known
  <2>3. Button!Cached = v4 /\ v4 # None /\ v4.version = v
    BY <1>2, <2>1, <2>2 DEF Button!Hit, Button!Cached
  <2>4. v4.text = v \/ v4.straddled
    BY <1>2, <2>3 DEF EntryIsTrue
  <2>5. v13'.text = v4.text /\ v13'.asOf = v /\ v13'.straddled = v4.straddled
    BY <2>1, <2>2, <2>3
  <2> QED BY <2>2, <2>4, <2>5
<1>3. ASSUME NEW t \in Tasks, Button!Serve(t) PROVE v1' = v1
  BY <1>3 DEF Button!Serve
<1>4. ASSUME Button!Next, ~ \E t \in Tasks : Button!Serve(t)
      PROVE  UNCHANGED <<v1, v13>>
  BY <1>4 DEF Button!Next, Button!Ingest, Button!PublishInvalidation, Button!AdminClear,
              Button!Expire, Button!Reconcile, Button!Subscribe, Button!Disconnect,
              Button!Restart, Button!HandleInvalidation, Button!Forget, Button!Begin,
              Button!AskVersions, Button!Retrieve, Button!Store, Button!GenerationFails
<1>5. CASE UNCHANGED Button!vars
  BY <1>1, <1>5 DEF Button!vars
<1>6. CASE v1 # "canonical"
  BY <1>3, <1>4, <1>5, <1>6 DEF Button!vars
<1> QED BY <1>1, <1>2, <1>3, <1>4, <1>5, <1>6

\* Every step keeps it.
LEMMA CacheNext ==
  ASSUME Button!Parameters, CacheInv, [Button!Next]_(Button!vars)
  PROVE  CacheInv'
<1>1. Button!TypeOK'
  BY CacheTypeNext DEF CacheInv
<1> QED BY <1>1, AnswersNext, EntryNext, OldNext, HitNext
        DEF CacheInv

(* Once nothing is on its way, what the invariant allows is what is        *)
(* promised.                                                               *)
LEMMA CacheIsCurrent == ASSUME Button!Parameters, CacheInv PROVE Button!LegacyEntryIsCurrent
BY DEF CacheInv, Button!TypeOK, OldOnlyUntilCleared, ClearOnItsWay,
       Button!LegacyEntryIsCurrent, Button!Delivered, Button!Quiet

-----------------------------------------------------------------------------
(* The requests for a bill: holds is v1, phase v2, request v3, awaited v4  *)
(* and outcome v5.                                                         *)

\* What each phase has learned: the strengthening the theorems rest on.
Learned ==
  /\ v2 = "first" => v5 = Pending /\ \A k \in Request!Older : v3[k] = "unused"
  /\ v2 = "older" => /\ v5 = Pending /\ 0 \notin v1 /\ v4 >= 1
                        /\ \A j \in Request!Older : j < v4 => j \notin v1
  /\ v2 \in {"settling", "over"} => v5 \in Request!Promise!Answers(v1)

LookupInv == Request!TypeOK /\ Learned /\ Request!NoRequestOutlivesLookup

(* The years before are of the sessions, and are not the one asked for.    *)
LEMMA OlderAreSessions ==
  ASSUME Years \in Nat
  PROVE  /\ Request!Sessions = {0} \cup Request!Older
         /\ 0 \notin Request!Older /\ Request!Older \subseteq Nat
BY DEF Request!Sessions, Request!Older

(* The bill is answered with a session that is the newest of those that    *)
(* have it: such a session is one of the answers promised.                 *)
LEMMA NewestIsPromised ==
  ASSUME NEW S, NEW k \in S, \A j \in S : k <= j
  PROVE  k \in Request!Promise!Answers(S)
BY DEF Request!Promise!Answers, Request!Promise!Newest

(* Before a request is made of another session, nothing is promised yet.   *)
LEMMA LookupInit ==
  ASSUME Years \in Nat, Request!Init
  PROVE  LookupInv
<1>1. v3 \in [Request!Sessions -> {"unused", "running", "ended", "cancelled"}]
  BY DEF Request!Init
<1>2. \A k \in Request!Older : v3[k] = "unused"
  BY OlderAreSessions DEF Request!Init
<1>3. Request!TypeOK
  BY <1>1 DEF Request!Init, Request!TypeOK, Request!Sessions
<1>4. Learned
  BY <1>2 DEF Request!Init, Learned
<1>5. Request!NoRequestOutlivesLookup
  BY DEF Request!Init, Request!NoRequestOutlivesLookup
<1> QED BY <1>3, <1>4, <1>5 DEF LookupInv

(* Each step of the lookup keeps what the phases have learned.             *)
LEMMA LookupNext ==
  ASSUME Years \in Nat, LookupInv, [Request!Next]_(Request!vars)
  PROVE  LookupInv'
<1> USE DEF Request!Running
<1>1. CASE Request!FirstAnswered
  <2>1. CASE 0 \in v1
    <3>1. v5' \in Request!Promise!Answers(v1')
      <4>1. \A j \in v1 : 0 <= j
        BY <1>1, LookupInv DEF LookupInv, Request!TypeOK, Request!Sessions
      <4> QED BY <1>1, <2>1, <4>1, NewestIsPromised DEF Request!FirstAnswered
    <3> QED BY <1>1, <2>1, <3>1, OlderAreSessions
            DEF Request!FirstAnswered, LookupInv, Request!TypeOK, Learned,
                Request!NoRequestOutlivesLookup
  <2>2. CASE 0 \notin v1
    BY <1>1, <2>2, OlderAreSessions
       DEF Request!FirstAnswered, LookupInv, Request!TypeOK, Learned,
           Request!NoRequestOutlivesLookup, Request!Older
  <2> QED BY <2>1, <2>2
<1>2. CASE Request!OlderAnswered
  <2>1. PICK k \in Request!NextInOrder :
          IF k \in v1
            THEN v2' = "settling" /\ v5' = k /\ UNCHANGED v4
            ELSE v4' = v4 + 1 /\ UNCHANGED <<v2, v5>>
    BY <1>2 DEF Request!OlderAnswered
  <2>2. k = v4 /\ k \in Request!Older /\ v2 = "older" /\ v1' = v1 /\ v3' = v3
    BY <1>2, <2>1 DEF Request!OlderAnswered, Request!NextInOrder
  <2>3. CASE k \in v1
    <3>1. \A j \in v1 : k <= j
      BY <2>2, OlderAreSessions DEF LookupInv, Request!TypeOK, Learned,
                                    Request!Sessions, Request!Older
    <3>2. v5' \in Request!Promise!Answers(v1')
      BY <2>1, <2>2, <2>3, <3>1, NewestIsPromised
    <3> QED BY <2>1, <2>2, <2>3, <3>2, OlderAreSessions
            DEF LookupInv, Request!TypeOK, Learned, Request!NoRequestOutlivesLookup
  <2>4. CASE k \notin v1
    BY <2>1, <2>2, <2>4, OlderAreSessions
       DEF LookupInv, Request!TypeOK, Learned, Request!NoRequestOutlivesLookup,
           Request!Older
  <2> QED BY <2>3, <2>4
<1>3. CASE Request!NoneLeft
  <2>1. v1 = {}
    BY <1>3, OlderAreSessions DEF Request!NoneLeft, LookupInv, Request!TypeOK, Learned,
                                  Request!Older
  <2>2. v5' \in Request!Promise!Answers(v1')
    BY <1>3, <2>1 DEF Request!NoneLeft, Request!Promise!Answers
  <2> QED BY <1>3, <2>2 DEF Request!NoneLeft, LookupInv, Request!TypeOK, Learned,
                            Request!NoRequestOutlivesLookup
<1>4. CASE Request!Settled
  BY <1>4 DEF Request!Settled, LookupInv, Request!TypeOK, Learned,
              Request!NoRequestOutlivesLookup
<1>5. CASE Request!CallerCancelled
  <2>1. v5' \in Request!Promise!Answers(v1')
    BY <1>5 DEF Request!CallerCancelled, Request!Promise!Answers
  <2>2. v2 = "first" => \A k \in Request!Sessions : v3'[k] # "running"
    BY <1>5, OlderAreSessions DEF Request!CallerCancelled, LookupInv, Request!TypeOK,
                                  Learned
  <2> QED BY <1>5, <2>1, <2>2, OlderAreSessions
          DEF Request!CallerCancelled, LookupInv, Request!TypeOK, Learned,
              Request!NoRequestOutlivesLookup
<1>6. CASE \E k \in Request!Sessions : Request!RequestEnds(k) \/ Request!RequestCancelled(k)
  BY <1>6, OlderAreSessions
     DEF Request!RequestEnds, Request!RequestCancelled, LookupInv, Request!TypeOK,
         Learned, Request!NoRequestOutlivesLookup
<1>7. CASE UNCHANGED Request!vars
  BY <1>7 DEF Request!vars, LookupInv, Request!TypeOK, Learned,
              Request!NoRequestOutlivesLookup
<1> QED BY <1>1, <1>2, <1>3, <1>4, <1>5, <1>6, <1>7 DEF Request!Next

(* The refinement, one step: the lookup's answer is given once, in a step  *)
(* that ends it, and is one that NewestBill allows.                        *)
LEMMA StepIsPromised ==
  ASSUME Years \in Nat, LookupInv, [Request!Next]_(Request!vars)
  PROVE  [Request!Promise!Next]_<<v1, Request!answer>>
<1> USE DEF Request!answer
<1>1. LookupInv'
  BY LookupNext
<1>2. CASE Request!Next /\ v2 # "over" /\ v2' = "over"
  <2>1. v1' = v1
    BY <1>2 DEF Request!Next, Request!FirstAnswered, Request!OlderAnswered,
                Request!NoneLeft, Request!Settled, Request!CallerCancelled,
                Request!RequestEnds, Request!RequestCancelled
  <2>2. Request!answer = Pending /\ Request!answer' \in Request!Promise!Answers(v1)
    BY <1>1, <1>2, <2>1 DEF LookupInv, Learned
  <2> QED BY <2>1, <2>2 DEF Request!Promise!Next
<1>3. CASE Request!Next /\ v2 # "over" /\ v2' # "over"
  BY <1>3 DEF Request!Next, Request!FirstAnswered, Request!OlderAnswered,
              Request!NoneLeft, Request!Settled, Request!CallerCancelled,
              Request!RequestEnds, Request!RequestCancelled
<1>4. CASE Request!Next /\ v2 = "over"
  BY <1>4 DEF LookupInv, Request!NoRequestOutlivesLookup, Request!Next,
              Request!FirstAnswered, Request!OlderAnswered, Request!NoneLeft,
              Request!Settled, Request!CallerCancelled, Request!RequestEnds,
              Request!RequestCancelled
<1>5. CASE UNCHANGED Request!vars
  BY <1>5 DEF Request!vars
<1> QED BY <1>2, <1>3, <1>4, <1>5

-----------------------------------------------------------------------------
(* The answer over /chat: at is v1, attempt v6, round v7, uses v8,         *)
(* reported v9, answer v10 and told v11.                                   *)

\* What has been reported is true of the answer at hand ...
Matches ==
  /\ "bill" \in v9 <=> "bill" \in v10.uses
  /\ "web" \in v9 => v10.uses \cap {"web", "tavily"} # {}

\* ... from the first answer on, also while it is made up for by another.
HasAnswer == v1 \in {"searching", "rewriting", "answered"}

RInv ==
  /\ Turn!TypeOK
  /\ HasAnswer => v10 # None /\ Matches
  /\ v11 = "answer" => v1 = "over" /\ Matches

(* Whatever is fetched by the tools, and whatever the round saw, the answer*)
(* complete returns and what it reports of it match.                       *)
LEMMA ReturnsMatches ==
  ASSUME Turn!Parameters, NEW text \in BOOLEAN, NEW fetched \in SUBSET Turn!Sources,
         NEW seen \in SUBSET {"web"}, seen \subseteq fetched, NEW cited \in BOOLEAN,
         Turn!Completing, Turn!Returns(text, fetched, seen, cited)
  PROVE  /\ v10' \in Turn!Answers /\ v10' # None /\ v9' \subseteq Turn!Sources
         /\ v1' \in {"searching", "answered"}
         /\ Matches'
<1> DEFINE extra(what) == IF v1 = "rewriting" THEN {what} ELSE {}
<1>1. /\ v10' = [text |-> text, uses |-> fetched \cup extra("tavily")]
      /\ v9' = (seen \cup (fetched \cap {"bill"})) \cup extra("web")
      /\ v1' \in {"searching", "answered"}
  BY DEF Turn!Returns, Turn!Reported
<1>2. v10' \in Turn!Answers
  BY <1>1 DEF Turn!Answers, Turn!Sources
<1>5. v10' # None
  BY <1>2 DEF Turn!Parameters
<1>3. v10'.uses = fetched \cup extra("tavily")
  BY <1>1
<1>4. Matches'
  BY <1>1, <1>3 DEF Matches
<1> QED BY <1>1, <1>2, <1>4, <1>5 DEF Turn!Sources

(* A round leaves the turn well formed, with a matching answer if with any.*)
LEMMA RoundInv ==
  ASSUME Turn!Parameters, RInv, Turn!Round
  PROVE  RInv'
<1>1. PICK seen \in SUBSET (Turn!Given \cap {"web"}), cited \in BOOLEAN :
         \/ Turn!Returns(TRUE, v8 \cup seen, seen, cited) /\ UNCHANGED Turn!model
         \/ Turn!CallsBillTool(seen, cited)
  BY DEF Turn!Round
<1>2. /\ v1 \in {"model", "rewriting"} /\ Turn!Completing /\ v11 # "answer"
      /\ v8 \in SUBSET Turn!Sources /\ seen \in SUBSET {"web"}
      /\ UNCHANGED <<v2, v3, v4, v5, v11, v12>>
  BY <1>1 DEF Turn!Round, Turn!Completing, RInv, Turn!TypeOK
<1>3. CASE Turn!Returns(TRUE, v8 \cup seen, seen, cited) /\ UNCHANGED Turn!model
  <2>1. v8 \cup seen \in SUBSET Turn!Sources /\ seen \subseteq v8 \cup seen
    BY <1>2 DEF Turn!Sources
  <2>2. /\ v10' \in Turn!Answers /\ v10' # None /\ v9' \subseteq Turn!Sources
        /\ v1' \in {"searching", "answered"} /\ Matches'
    BY <1>2, <1>3, <2>1, ReturnsMatches
  <2> QED BY <1>2, <1>3, <2>2 DEF RInv, Turn!TypeOK, Turn!model, Turn!Stages, HasAnswer
<1>4. CASE Turn!CallsBillTool(seen, cited)
  <2>1. v8' = v8 \cup seen \cup {"bill"} /\ v6' = v6
    BY <1>4 DEF Turn!CallsBillTool
  <2>2. CASE Turn!MoreRounds
    <3>1. v7' = v7 + 1 /\ UNCHANGED <<v1, v9, v10>>
      BY <1>4, <2>2 DEF Turn!CallsBillTool
    <3>2. v7' \in 1 .. MaxRounds
      BY <2>2, <3>1 DEF Turn!MoreRounds, RInv, Turn!TypeOK, Turn!Parameters
    <3> QED BY <1>2, <2>1, <3>1, <3>2 DEF RInv, Turn!TypeOK, HasAnswer, Matches,
                                          Turn!Sources
  <2>3. CASE ~Turn!MoreRounds
    <3>1. PICK text \in BOOLEAN : Turn!Returns(text, v8', seen, cited)
      BY <1>4, <2>3 DEF Turn!CallsBillTool
    <3>2. v8' \in SUBSET Turn!Sources /\ seen \subseteq v8'
      BY <1>2, <2>1 DEF Turn!Sources
    <3>3. /\ v10' \in Turn!Answers /\ v10' # None /\ v9' \subseteq Turn!Sources
          /\ v1' \in {"searching", "answered"} /\ Matches'
      BY <1>2, <3>1, <3>2, ReturnsMatches
    <3>4. v7' = v7
      BY <1>4, <2>3 DEF Turn!CallsBillTool
    <3> QED BY <1>2, <2>1, <3>2, <3>3, <3>4 DEF RInv, Turn!TypeOK, Turn!Stages,
                                                HasAnswer
  <2> QED BY <2>2, <2>3
<1> QED BY <1>1, <1>3, <1>4

\* A turn starts with nothing used and nothing reported.
LEMMA TurnInvInit ==
  ASSUME Turn!Parameters, Turn!Init
  PROVE  RInv
<1>1. Turn!TypeOK
  <2>1. [text |-> TRUE, uses |-> {}] \in Turn!Answers
    BY DEF Turn!Answers
  <2>2. v6 \in 1 .. MaxAttempts /\ v7 \in 1 .. MaxRounds
    BY DEF Turn!Init, Turn!Parameters
  <2> QED BY <2>1, <2>2 DEF Turn!Init, Turn!TypeOK, Turn!Stages, Turn!Answers,
                            Turn!Sources
<1>2. v11 # "answer" /\ ~HasAnswer
  BY DEF Turn!Init, HasAnswer, Turn!Parameters
<1> QED BY <1>1, <1>2 DEF RInv

(* Each step of the turn keeps the invariant.                              *)
LEMMA TurnInvStep ==
  ASSUME Turn!Parameters, RInv, [Turn!Next]_(Turn!vars)
  PROVE  RInv'
<1> USE DEF RInv, Turn!TypeOK, HasAnswer, Matches, Turn!Stages
<1>1. CASE Turn!Suppressed
  BY <1>1 DEF Turn!Suppressed, Turn!Goes, Turn!model
<1>2. CASE Turn!Replay
  BY <1>2 DEF Turn!Replay, Turn!Goes, Turn!model
<1>3. CASE Turn!Miss
  BY <1>3 DEF Turn!Miss, Turn!Goes, Turn!model
<1>4. CASE Turn!RetrievalFails
  BY <1>4 DEF Turn!RetrievalFails, Turn!Goes, Turn!model
<1>5. CASE Turn!Retrieved
  BY <1>5 DEF Turn!Retrieved, Turn!Goes, Turn!model, Turn!Callings, Turn!ToolSets
<1>6. CASE Turn!LookupEnds
  BY <1>6 DEF Turn!LookupEnds, Turn!model
<1>7. CASE Turn!AskModel
  BY <1>7 DEF Turn!AskModel, Turn!Goes, Turn!StartsComplete, Turn!Parameters
<1>8. CASE Turn!Round
  BY <1>8, RoundInv
<1>9. CASE Turn!RoundFails
  BY <1>9 DEF Turn!RoundFails, Turn!Completing, Turn!model, Turn!Parameters
<1>10. CASE Turn!Search
  BY <1>10 DEF Turn!Search, Turn!StartsComplete, Turn!model, Turn!Parameters
<1>11. CASE Turn!Answer
  BY <1>11 DEF Turn!Answer, Turn!Goes, Turn!model
<1>12. CASE UNCHANGED Turn!vars
  BY <1>12 DEF Turn!vars, Turn!model
<1> QED BY <1>1, <1>2, <1>3, <1>4, <1>5, <1>6, <1>7, <1>8, <1>9, <1>10, <1>11, <1>12
        DEF Turn!Next

(* With the invariant, the response tells the truth.                       *)
LEMMA InvImpliesReport == RInv => Turn!ReportIsTrue
BY DEF RInv, Matches, Turn!ReportIsTrue

-----------------------------------------------------------------------------
(* The retrieval: at is v6 and task v9.                                    *)

\* A query runs only while the retrieval waits for one, or releases them.
QInv ==
  /\ v9 \in [Context!Queries -> {"unused", "running", "answered", "failed", "cancelled"}]
  /\ v6 \in {"asked", "starting", "over"} => \A k \in Context!Queries : v9[k] # "running"

(* No stage of the retrieval has the name of a query.                      *)
LEMMA QueriesAreNoStages ==
  /\ DOMAIN Context!Waits = 1 .. 12
  /\ \A k \in Context!Queries : k \notin {"asked", "starting", "releasing", "over"}
<1>1. DOMAIN Context!Waits = 1 .. 12
  BY DEF Context!Waits
<1>2. ASSUME NEW i \in 1 .. 12
      PROVE  Context!Waits[i] \notin {"asked", "starting", "releasing", "over"}
  <2>1. /\ Context!Waits[1] = "text" /\ Context!Waits[2] = "summary"
        /\ Context!Waits[3] = "bill orgs" /\ Context!Waits[4] = "orgs"
        /\ Context!Waits[5] = "person votes" /\ Context!Waits[6] = "votes"
        /\ Context!Waits[7] = "changes" /\ Context!Waits[8] = "fallback"
        /\ Context!Waits[9] = "organization" /\ Context!Waits[10] = "its chunks"
        /\ Context!Waits[11] = "scoped" /\ Context!Waits[12] = "general"
    BY DEF Context!Waits
  <2>2. \/ i = 1 \/ i = 2 \/ i = 3 \/ i = 4 \/ i = 5 \/ i = 6
        \/ i = 7 \/ i = 8 \/ i = 9 \/ i = 10 \/ i = 11 \/ i = 12
    OBVIOUS
  <2> QED BY <2>1, <2>2
<1> QED BY <1>1, <1>2 DEF Context!Queries

(* The first query of each kind of page is one.                            *)
LEMMA FirstQueries ==
  /\ "text" \in Context!Queries /\ "organization" \in Context!Queries
  /\ "scoped" \in Context!Queries /\ "general" \in Context!Queries
<1>1. /\ Context!Waits[1] = "text" /\ Context!Waits[9] = "organization"
      /\ Context!Waits[11] = "scoped" /\ Context!Waits[12] = "general"
  BY DEF Context!Waits
<1>2. 1 \in 1 .. 12 /\ 9 \in 1 .. 12 /\ 11 \in 1 .. 12 /\ 12 \in 1 .. 12
  OBVIOUS
<1> QED BY <1>1, <1>2, QueriesAreNoStages DEF Context!Queries

\* At first no query runs.
LEMMA QueryInvInit == Context!Init => QInv
BY DEF Context!Init, QInv

(* The query that is awaited after another is one of them.                 *)
LEMMA NextIsAQuery ==
  ASSUME Context!Later(v6) # {}
  PROVE  Context!Waits[CHOOSE i \in Context!Later(v6) : \A j \in Context!Later(v6) : i <= j]
           \in Context!Queries
<1>1. Context!Later(v6) \subseteq 1 .. 12
  BY QueriesAreNoStages DEF Context!Later
<1>2. \E i \in Context!Later(v6) : \A j \in Context!Later(v6) : i <= j
  BY <1>1, LeastOfNat
<1> QED BY <1>1, <1>2, QueriesAreNoStages DEF Context!Queries

(* Each step keeps it: queries are started only from one stage to the wait *)
(* for the first of them, and the last stage is reached with none running. *)
LEMMA QueryInvStep ==
  ASSUME QInv, [Context!Next]_(Context!vars)
  PROVE  QInv'
<1> USE DEF QInv
<1>1. CASE Context!VersionAppears
  BY <1>1 DEF Context!VersionAppears
<1>2. CASE Context!CacheExpires
  BY <1>2 DEF Context!CacheExpires
<1>3. CASE Context!Begin
  <2>1. v6 = "asked" /\ v9' = v9
    BY <1>3 DEF Context!Begin
  <2> QED BY <2>1
<1>4. CASE Context!StartBill
  <2>1. /\ v6' = "text"
        /\ \E set : v9' = [k \in Context!Queries |-> IF k \in set THEN "running" ELSE "unused"]
    BY <1>4 DEF Context!StartBill, Context!Starts
  <2> QED BY <2>1
<1>5. CASE Context!StartOther
  <2>1. /\ v6' \in {"organization", "scoped", "general"}
        /\ \E set : v9' = [k \in Context!Queries |-> IF k \in set THEN "running" ELSE "unused"]
    BY <1>5 DEF Context!StartOther, Context!Starts
  <2> QED BY <2>1
<1>6. CASE Context!ChangesRead
  <2>1. v6' = v6 /\ v9' = [v9 EXCEPT !["changes"] = "answered"]
    BY <1>6 DEF Context!ChangesRead, Context!Outcome
  <2> QED BY <2>1
<1>7. CASE Context!Awaited
  <2>1. CASE Context!Later(v6) = {}
    BY <1>7, <2>1, QueriesAreNoStages DEF Context!Awaited
  <2>2. CASE Context!Later(v6) # {}
    <3>1. PICK next \in Context!Queries :
            v6' = next /\ v9' = IF next \in Context!Sent
                                  THEN [v9 EXCEPT ![next] = "running"] ELSE v9
      BY <1>7, <2>2, NextIsAQuery DEF Context!Awaited
    <3> QED BY <3>1, QueriesAreNoStages
  <2> QED BY <2>1, <2>2
<1>8. CASE Context!Fails
  BY <1>8 DEF Context!Fails
<1>9. CASE Context!Released
  BY <1>9 DEF Context!Released
<1>10. ASSUME NEW k \in Context!Queries, Context!QueryEnds(k)
       PROVE  QInv'
  BY <1>10 DEF Context!QueryEnds, Context!Outcome
<1>11. ASSUME NEW k \in Context!Queries, Context!Cancelled(k)
       PROVE  QInv'
  BY <1>11 DEF Context!Cancelled, Context!Outcome
<1>12. CASE UNCHANGED Context!vars
  BY <1>12 DEF Context!vars
<1> QED BY <1>1, <1>2, <1>3, <1>4, <1>5, <1>6, <1>7, <1>8, <1>9, <1>10, <1>11, <1>12
   DEF Context!Next

\* The versions a retrieval reads, and remembers, are versions.
RetrievalInv == Context!TypeOK /\ QInv

\* The first state has its types.
LEMMA RetrievalInit ==
  ASSUME Context!Parameters, Context!Init
  PROVE  RetrievalInv
<1>1. QInv
  BY QueryInvInit
<1>2. 1 \in Context!Versions /\ Context!AllVersions = Context!Versions \cup {0}
  BY DEF Context!Parameters, Context!Versions, Context!AllVersions
<1> QED BY <1>1, <1>2 DEF RetrievalInv, Context!Init, Context!TypeOK

\* Every step keeps them.
LEMMA RetrievalNext ==
  ASSUME Context!Parameters, RetrievalInv, [Context!Next]_(Context!vars)
  PROVE  RetrievalInv'
<1> USE DEF Context!world, Context!Ends
<1>0. QInv' /\ Context!TypeOK
  BY QueryInvStep DEF RetrievalInv
<1>a. /\ Context!AllVersions = Context!Versions \cup {0} /\ 0 \notin Context!Versions
      /\ None \notin Context!AllVersions
      /\ v1.named = None \/ v1.named \subseteq Context!Versions
  BY <1>0 DEF Context!TypeOK, Context!Parameters, Context!Versions, Context!AllVersions
<1>b. v9' \in [Context!Queries -> {"unused", "running", "answered", "failed", "cancelled"}]
  BY <1>0 DEF QInv
<1>1. CASE Context!VersionAppears
  <2>1. v3 + 1 \in Context!Versions
    BY <1>0, <1>1 DEF Context!TypeOK, Context!VersionAppears, Context!Parameters, Context!Versions
  <2> QED BY <1>0, <1>1, <2>1 DEF RetrievalInv, Context!TypeOK, Context!VersionAppears
<1>2. CASE Context!CacheExpires
  BY <1>0, <1>2, <1>a DEF RetrievalInv, Context!TypeOK, Context!CacheExpires
<1>3. CASE Context!Begin
  <2>1. v6' \in {"starting", "over"}
    BY <1>3 DEF Context!Begin
  <2>2. v11' = v11 \/ v11' = None \/ v11' = [chunks |-> <<>>, note |-> None]
    BY <1>3 DEF Context!Begin
  <2>3. v11' = None \/ DOMAIN v11' = {"chunks", "note"}
    BY <1>0, <2>2 DEF Context!TypeOK
  <2>4. UNCHANGED <<v1, v2, v3, v4, v5, v8, v9, v10>>
    BY <1>3 DEF Context!Begin
  <2> QED BY <1>0, <2>1, <2>3, <2>4 DEF RetrievalInv, Context!TypeOK
<1>4. CASE Context!StartBill
  <2>1. /\ UNCHANGED <<v1, v2, v3, v4, v7, v10, v11>> /\ v6' = "text"
        /\ \E current \in IF v5 # 0 THEN {v5} ELSE {Context!Current, None} :
             \/ /\ v5' = current
                /\ v8' = [current |-> current,
                          versions |-> IF v1.named # None THEN v1.named
                                       ELSE IF current # None THEN {current}
                                       ELSE Context!AllVersions]
             \/ UNCHANGED <<v5, v8>>
    BY <1>4 DEF Context!StartBill, Context!Starts
  <2>2. Context!Current \in Context!Versions \cup {None}
    BY <1>0 DEF Context!TypeOK, Context!Current
  <2>3. \/ /\ v5' \in Context!Versions \cup {None}
           /\ v8'.current \in Context!Versions \cup {None}
           /\ v8'.versions \subseteq Context!AllVersions
        \/ UNCHANGED <<v5, v8>>
    BY <1>0, <2>1, <2>2, <1>a DEF Context!TypeOK
  <2> QED BY <1>0, <1>a, <1>b, <2>1, <2>3, FirstQueries DEF RetrievalInv, Context!TypeOK
<1>5. CASE Context!StartOther
  <2>1. v6' \in {"organization", "scoped", "general"} /\ UNCHANGED <<v1, v2, v3, v4, v5, v7, v8, v10, v11>>
    BY <1>5 DEF Context!StartOther, Context!Starts
  <2> QED BY <1>0, <1>b, <2>1, FirstQueries DEF RetrievalInv, Context!TypeOK
<1>6. CASE Context!ChangesRead
  <2>1. v10' = None \/ v10' \subseteq v4
    BY <1>6 DEF Context!ChangesRead
  <2>2. UNCHANGED <<v1, v2, v3, v4, v5, v6, v7, v8, v11>>
    BY <1>6 DEF Context!ChangesRead
  <2> QED BY <1>0, <1>b, <2>1, <2>2 DEF RetrievalInv, Context!TypeOK
<1>7. CASE Context!Awaited
  <2>1. UNCHANGED <<v1, v2, v3, v4, v5, v7, v8, v10>>
    BY <1>7 DEF Context!Awaited
  <2>2. \/ v6' = "releasing" /\ \E c, n : v11' = [chunks |-> c, note |-> n]
        \/ v6' \in Context!Queries /\ v11' = v11
    BY <1>7, NextIsAQuery DEF Context!Awaited
  <2>3. v11' = None \/ DOMAIN v11' = {"chunks", "note"}
    BY <1>0, <2>2 DEF Context!TypeOK
  <2> QED BY <1>0, <1>b, <2>1, <2>2, <2>3 DEF RetrievalInv, Context!TypeOK
<1>8. CASE Context!Fails
  BY <1>0, <1>8 DEF RetrievalInv, Context!TypeOK, Context!Fails
<1>9. CASE Context!Released
  BY <1>0, <1>9 DEF RetrievalInv, Context!TypeOK, Context!Released
<1>10. ASSUME NEW k \in Context!Queries, Context!QueryEnds(k) \/ Context!Cancelled(k)
       PROVE  RetrievalInv'
  <2>1. UNCHANGED <<v1, v2, v3, v4, v5, v6, v7, v8, v10, v11>>
    BY <1>10 DEF Context!QueryEnds, Context!Cancelled
  <2> QED BY <1>0, <1>b, <2>1 DEF RetrievalInv, Context!TypeOK
<1>12. CASE UNCHANGED Context!vars
  BY <1>0, <1>12 DEF Context!vars, RetrievalInv, Context!TypeOK
<1> QED BY <1>1, <1>2, <1>3, <1>4, <1>5, <1>6, <1>7, <1>8, <1>9, <1>10, <1>12
   DEF Context!Next

-----------------------------------------------------------------------------
(* What the retrieval returns: q is v1, index v2, archived v4, at v6,      *)
(* subject v7, scope v8, task v9, changes v10 and result v11.              *)

\* Context's copies of the library's operators are the library's.
LEMMA ContextChosen == ASSUME NEW s, NEW K PROVE Context!Chosen(s, K) = Chosen(s, K)
BY DEF Context!Chosen, Chosen

LEMMA ContextCount == ASSUME NEW S PROVE Context!Cardinality(S) = Cardinality(S)
BY DEF Context!Cardinality, Cardinality

\* The first few of a list.
LEMMA FirstOnes ==
  ASSUME NEW S, NEW s \in Seq(S), NEW k \in Int
  PROVE  /\ Context!First(k, s) \in Seq(S)
         /\ \A i \in 1 .. Len(s) :
              i <= k => i \in DOMAIN Context!First(k, s) /\ Context!First(k, s)[i] = s[i]
         /\ \A i \in DOMAIN Context!First(k, s) : i <= k /\ i \in DOMAIN s
                                                  /\ Context!First(k, s)[i] = s[i]
<1>1. PICK n \in Nat : n = Len(s) /\ DOMAIN s = 1 .. n
  OBVIOUS
<1>2. PICK m \in Int : m = Context!Min2(k, Len(s)) /\ m <= n /\ m <= k /\ (m = k \/ m = n)
  BY <1>1 DEF Context!Min2
<1>3. Context!First(k, s) = SubSeq(s, 1, m)
  BY <1>2 DEF Context!First
<1>4. /\ SubSeq(s, 1, m) \in Seq(S)
      /\ DOMAIN SubSeq(s, 1, m) = 1 .. m
      /\ \A i \in 1 .. m : SubSeq(s, 1, m)[i] = s[i]
  BY <1>1, <1>2
<1> QED BY <1>1, <1>2, <1>3, <1>4

Indexed == {v2[i] : i \in DOMAIN v2}
Diffs == {Context!Diff(v) : v \in Context!Versions}

\* What a bill's question may be answered from: what is of the bill, or of an
\* organization, and no text of another version.
Fits(c) ==
  /\ c.type # "organization" => c.of = v7
  /\ c.type = "bill-text" => c.version \in v8.versions
Fitting == {c \in Indexed \cup Diffs : Fits(c)}

\* A bill of the canonical-id index that the filters pin.
PinnedBill == v1.canonical /\ Context!Kind = "bill" /\ v7 # None

\* Whom a person voted with is asked on the legacy index only.
NoPersonVotes == v9["person votes"] = "unused"

\* An answer of the index: what the filter lets through.
LEMMA AnswerFits ==
  ASSUME IsList(v2), NEW k \in Int, NEW K, \A i \in K \cap DOMAIN v2 : Fits(v2[i])
  PROVE  Context!First(k, Chosen(v2, K)) \in Seq(Fitting)
<1>1. v2 \in Seq(Indexed)
  BY DEF IsList, Indexed
<1>2. \A i \in K \cap DOMAIN v2 : v2[i] \in Fitting
  BY DEF Fitting, Indexed
<1>3. Chosen(v2, K) \in Seq(Fitting)
  BY <1>1, <1>2, ChosenThat
<1> QED BY <1>3, FirstOnes

\* The filters of a bill that is pinned let through what is of the bill.
LEMMA PinnedIsOfIt ==
  ASSUME PinnedBill, NEW c, Context!Pinned(c)
  PROVE  c.of = v7
BY DEF PinnedBill, Context!Pinned

\* What is near, and what is put foremost, is of the list it is taken from.
LEMMA NearOnes ==
  ASSUME NEW S, NEW s \in Seq(S)
  PROVE  Context!Near(s) \in Seq(S) /\ Context!Foremost(s) \in Seq(S)
<1>1. \A K : Chosen(s, K) \in Seq(S)
  BY ChosenInOrder
<1>2. Context!Near(s) = Chosen(s, {i \in DOMAIN s : s[i].near})
  BY ContextChosen DEF Context!Near, Context!Where
<1>3. Context!Foremost(s) = Chosen(s, {i \in DOMAIN s : s[i].apt})
                              \o Chosen(s, {i \in DOMAIN s : ~s[i].apt})
  BY ContextChosen DEF Context!Foremost, Context!Where
<1>4. \A a, b \in Seq(S) : a \o b \in Seq(S)
  OBVIOUS
<1> QED BY <1>1, <1>2, <1>3, <1>4

\* The passages of the text fit: the version scope stays in their filter.
LEMMA TextFits ==
  ASSUME IsList(v2), MaxChunks \in Nat, PinnedBill
  PROVE  Context!Text \in Seq(Fitting)
<1> DEFINE K == {i \in DOMAIN v2 : /\ Context!Pinned(v2[i]) /\ Context!InScope(v2[i])
                                   /\ v2[i].type = "bill-text"}
           a == Context!First(MaxChunks, Chosen(v2, K))
<1>1. Context!Text = Context!Near(a)
  BY ContextChosen DEF Context!Text, Context!Ask, Context!Where
<1>2. \A i \in K \cap DOMAIN v2 : Fits(v2[i])
  BY PinnedIsOfIt DEF Fits, Context!InScope
<1> HIDE DEF K
<1>3. a \in Seq(Fitting)
  BY <1>2, AnswerFits
<1> QED BY <1>1, <1>3, NearOnes

\* So do those of the last resort.
LEMMA FallbackFits ==
  ASSUME IsList(v2), MaxChunks \in Nat, PinnedBill
  PROVE  Context!Fallback \in Seq(Fitting)
<1> DEFINE K == {i \in DOMAIN v2 : Context!Pinned(v2[i]) /\ Context!InScope(v2[i])}
           a == Context!First(2 * MaxChunks, Chosen(v2, K))
<1>1. Context!Fallback = Context!Near(a)
  BY ContextChosen DEF Context!Fallback, Context!Ask, Context!Where
<1>2. \A i \in K \cap DOMAIN v2 : Fits(v2[i])
  BY PinnedIsOfIt DEF Fits, Context!InScope
<1> HIDE DEF K
<1>3. a \in Seq(Fitting)
  BY <1>2, AnswerFits
<1> QED BY <1>1, <1>3, NearOnes

\* The summary and the organizations of the bill.
LEMMA SummaryFits ==
  ASSUME IsList(v2), MaxChunks \in Nat, PinnedBill
  PROVE  Context!Summary \in Seq(Fitting) /\ Context!BillOrgs \in Seq(Fitting)
<1> DEFINE K == {i \in DOMAIN v2 : Context!Pinned(v2[i]) /\ v2[i].type = "bill"}
           a == Context!First(2 * MaxChunks, Chosen(v2, K))
           b == Context!First(3, Chosen(v2, K))
<1>1. /\ Context!Summary = Context!Near(Context!First(2 * Context!Slots, a))
      /\ Context!BillOrgs = Context!Foremost(Context!Near(b))
  BY ContextChosen DEF Context!Summary, Context!BillOrgs, Context!Ask, Context!Where
<1>2. \A i \in K \cap DOMAIN v2 : Fits(v2[i])
  BY PinnedIsOfIt DEF Fits
<1> HIDE DEF K
<1>3. a \in Seq(Fitting) /\ b \in Seq(Fitting)
  BY <1>2, AnswerFits
<1>4. 2 * Context!Slots \in Int
  BY TextFits DEF Context!Slots
<1> HIDE DEF a, b
<1>5. Context!First(2 * Context!Slots, a) \in Seq(Fitting)
  BY <1>3, <1>4, FirstOnes
<1> QED BY <1>1, <1>3, <1>5, NearOnes

\* Other organizations: they may be of anything.
LEMMA OrgsFit ==
  ASSUME IsList(v2), MaxChunks \in Nat, PinnedBill
  PROVE  Context!Orgs \in Seq(Fitting)
<1> DEFINE K == {i \in DOMAIN v2 : v2[i].type = "organization"}
           a == Context!First(2 * Context!Max2(2, MaxChunks), Chosen(v2, K))
           room == Context!Max2(2, MaxChunks - Len(Context!Text) - Len(Context!Summary)
                                     - Len(Context!BillOrgs))
<1>1. Context!Orgs = Context!Foremost(Context!Near(Context!First(2 * room, a)))
  BY ContextChosen DEF Context!Orgs, Context!Ask, Context!Where
<1>2. \A i \in K \cap DOMAIN v2 : Fits(v2[i])
  BY DEF Fits
<1> HIDE DEF K
<1>3. a \in Seq(Fitting)
  <2>1. 2 * Context!Max2(2, MaxChunks) \in Int
    BY DEF Context!Max2
  <2> QED BY <1>2, <2>1, AnswerFits
<1>4. 2 * room \in Int
  <2>1. /\ Len(Context!Text) \in Nat /\ Len(Context!Summary) \in Nat
        /\ Len(Context!BillOrgs) \in Nat
    BY TextFits, SummaryFits
  <2> QED BY <2>1 DEF Context!Max2
<1> HIDE DEF a, room
<1>5. Context!First(2 * room, a) \in Seq(Fitting)
  BY <1>3, <1>4, FirstOnes
<1> QED BY <1>1, <1>5, NearOnes

\* Its votes.
LEMMA VotesFit ==
  ASSUME IsList(v2), MaxChunks \in Nat, PinnedBill
  PROVE  Context!Votes \in Seq(Fitting)
<1> DEFINE K == {i \in DOMAIN v2 : v2[i].type = "bill-votes" /\ (v7 # None => v2[i].of = v7)}
           a == Context!First(Context!Max2(5, MaxChunks), Chosen(v2, K))
<1>1. \/ Context!Votes = Context!Near(a)
      \/ Context!Votes = Context!Foremost(Context!Near(a))
  BY ContextChosen DEF Context!Votes, Context!Ask, Context!Where
<1>2. \A i \in K \cap DOMAIN v2 : Fits(v2[i])
  BY DEF Fits, PinnedBill
<1> HIDE DEF K
<1>3. a \in Seq(Fitting)
  <2>1. Context!Max2(5, MaxChunks) \in Int
    BY DEF Context!Max2
  <2> QED BY <1>2, <2>1, AnswerFits
<1> QED BY <1>1, <1>3, NearOnes

\* What changed: one comparison for each version that was read.
LEMMA ChangesFit ==
  ASSUME Context!Parameters, PinnedBill
  PROVE  /\ Context!Changes \in Seq(Fitting)
         /\ v10 # None => Context!Changes = Chosen([v \in Context!Versions |-> Context!Diff(v)], v10)
<1> DEFINE d == [v \in Context!Versions |-> Context!Diff(v)]
<1>1. d \in Seq(Diffs) /\ DOMAIN d = Context!Versions
  BY DEF Context!Parameters, Context!Versions, Diffs
<1>2. \A v \in Context!Versions : d[v] \in Fitting
  BY DEF Context!Diff, Fitting, Diffs, Fits
<1> HIDE DEF d
<1>3. Chosen(d, v10) \in Seq(Fitting)
  BY <1>1, <1>2, ChosenThat
<1>4. Context!Changes = IF v10 = None THEN <<>> ELSE Chosen(d, v10)
  BY ContextChosen DEF Context!Changes, PinnedBill, d
<1> QED BY <1>3, <1>4 DEF d

\* The first of what is found fits, and so does all that it is made of.
LEMMA FoundFits ==
  ASSUME Context!Parameters, IsList(v2), PinnedBill, NoPersonVotes
  PROVE  /\ Context!Combined \in Seq(Fitting)
         /\ Context!Found \in Seq(Fitting)
         /\ Context!First(MaxChunks, Context!Found) \in Seq(Fitting)
<1>1. MaxChunks \in Nat
  BY DEF Context!Parameters
<1> DEFINE S == Fitting
<1> HIDE DEF S
<1>2. \A k : \A s \in Seq(S) : Context!Used(k, s) \in Seq(S)
  BY JoinedLists DEF Context!Used
<1>3. \A a, b \in Seq(S) : a \o b \in Seq(S)
  BY JoinedLists
<1>4. Context!Used("person votes", Context!PersonVotes) = <<>>
  BY DEF Context!Used, NoPersonVotes
<1>5. /\ Context!Text \in Seq(S) /\ Context!Summary \in Seq(S) /\ Context!Orgs \in Seq(S)
      /\ Context!BillOrgs \in Seq(S) /\ Context!Votes \in Seq(S) /\ Context!Changes \in Seq(S)
      /\ Context!Fallback \in Seq(S)
  BY <1>1, TextFits, SummaryFits, OrgsFit, VotesFit, ChangesFit, FallbackFits DEF S
<1>6. Context!Combined \in Seq(S)
  BY <1>2, <1>3, <1>4, <1>5, JoinedLists DEF Context!Combined
<1>7. \A s \in Seq(S) : Context!Distinct(s) \in Seq(S)
  BY ContextChosen, ChosenInOrder DEF Context!Distinct
<1>8. Context!Found \in Seq(S)
  BY <1>2, <1>5, <1>6, <1>7 DEF Context!Found, PinnedBill
<1>9. Context!First(MaxChunks, Context!Found) \in Seq(S)
  BY <1>1, <1>8, FirstOnes
<1> QED BY <1>6, <1>8, <1>9 DEF S

BeginsWith(c, a) == \A i \in DOMAIN a : i \in DOMAIN c /\ c[i] = a[i]

\* What a list begins with, the list with more after it begins with.
LEMMA BeginsWithFirst ==
  ASSUME NEW S, NEW a \in Seq(S), NEW b \in Seq(S), NEW c \in Seq(S)
  PROVE  /\ a \o b \in Seq(S)
         /\ BeginsWith(a, c) => BeginsWith(a \o b, c)
<1>1. PICK n \in Nat, m \in Nat : /\ n = Len(a) /\ DOMAIN a = 1 .. n
                                  /\ m = Len(b) /\ DOMAIN b = 1 .. m
  OBVIOUS
<1>2. a \o b \in Seq(S) /\ DOMAIN (a \o b) = 1 .. n + m /\ \A i \in 1 .. n : (a \o b)[i] = a[i]
  BY <1>1
<1>3. \A i \in 1 .. n : i \in 1 .. n + m
  BY <1>1
<1> QED BY <1>1, <1>2, <1>3 DEF BeginsWith

ChangesRead == v9["changes"] = "answered"

\* What a question asks about comes first.
LEMMA WhatChangedComesFirst ==
  ASSUME Context!Parameters, IsList(v2), PinnedBill, NoPersonVotes, ChangesRead,
         Context!Changes # <<>>
  PROVE  BeginsWith(Context!Combined, Context!Changes)
<1> DEFINE S == Fitting
           what == Context!Changes
           text == Context!Used("text", Context!Text)
           summary == IF Context!Slots > 0 THEN Context!Used("summary", Context!Summary) ELSE <<>>
           votes == Context!Used("votes", Context!Votes)
           orgs == Context!Used("orgs", Context!Orgs)
<1> HIDE DEF S
<1>1. MaxChunks \in Nat
  BY DEF Context!Parameters
<1>2. /\ Context!Text \in Seq(S) /\ Context!Summary \in Seq(S) /\ Context!Orgs \in Seq(S)
      /\ Context!Votes \in Seq(S) /\ Context!Changes \in Seq(S)
  BY <1>1, TextFits, SummaryFits, OrgsFit, VotesFit, ChangesFit DEF S
<1>3. /\ what \in Seq(S) /\ text \in Seq(S) /\ summary \in Seq(S) /\ votes \in Seq(S)
      /\ orgs \in Seq(S)
  BY <1>2, JoinedLists DEF Context!Used
<1>4. Context!Combined = what \o text \o summary \o votes \o orgs
  BY DEF Context!Combined, Context!Used, ChangesRead
<1> HIDE DEF what, text, summary, votes, orgs
<1>5. BeginsWith(what, what)
  BY DEF BeginsWith
<1>6. what \o text \in Seq(S) /\ BeginsWith(what \o text, what)
  BY <1>3, <1>5, BeginsWithFirst
<1>7. what \o text \o summary \in Seq(S) /\ BeginsWith(what \o text \o summary, what)
  BY <1>3, <1>6, BeginsWithFirst
<1>8. /\ what \o text \o summary \o votes \in Seq(S)
      /\ BeginsWith(what \o text \o summary \o votes, what)
  BY <1>3, <1>7, BeginsWithFirst
<1>9. BeginsWith(what \o text \o summary \o votes \o orgs, what)
  BY <1>3, <1>8, BeginsWithFirst
<1> QED BY <1>4, <1>9 DEF what

(* Every comparison that was read is among what is shown, if all fit.      *)
LEMMA ChangesAreShown ==
  ASSUME Context!Parameters, IsList(v2), PinnedBill, NoPersonVotes, ChangesRead,
         v10 # None, v10 # {}, v10 \subseteq Context!Versions, Cardinality(v10) <= MaxChunks,
         NEW v \in v10
  PROVE  LET r == Context!First(MaxChunks, Context!Found)
         IN  \E i \in DOMAIN r : r[i] = Context!Diff(v)
<1> DEFINE d == [w \in Context!Versions |-> Context!Diff(w)]
           what == Chosen(d, v10)
           all == Context!Combined
           K == {n \in DOMAIN all : \A j \in 1 .. n - 1 : ~Context!Same(all[j], all[n])}
           r == Context!First(MaxChunks, Context!Found)
<1>1. MaxChunks \in Nat /\ Context!Versions \subseteq Nat
  BY DEF Context!Parameters, Context!Versions
<1>2. d \in Seq(Diffs) /\ DOMAIN d = Context!Versions /\ \A w \in Context!Versions : d[w] = Context!Diff(w)
  BY DEF Context!Parameters, Context!Versions, Diffs
<1>3. Context!Changes = what
  BY ChangesFit
<1> HIDE DEF d
<1>4. v10 \cap DOMAIN d = v10
  BY <1>2
<1>5. what \in Seq(Diffs) /\ Len(what) = Cardinality(v10)
  <2>1. what \in Seq(Diffs)
    BY <1>2, ChosenInOrder
  <2>2. Len(what) = Cardinality(v10 \cap DOMAIN d)
    BY <1>2, ChosenLength
  <2> QED BY <1>4, <2>1, <2>2
<1>6. PICK m \in Nat : m = Len(what) /\ DOMAIN what = 1 .. m /\ m <= MaxChunks
  <2> HIDE DEF what
  <2>1. PICK m \in Nat : m = Len(what) /\ DOMAIN what = 1 .. m
    BY <1>5
  <2>2. m <= MaxChunks
    BY <1>5, <2>1
  <2> QED BY <2>1, <2>2
<1>7. PICK f : Places(f, what, d, v10)
  <2>1. \E f : Places(f, Chosen(d, v10), d, v10 \cap DOMAIN d)
    BY <1>2, ChosenInOrder
  <2> QED BY <1>4, <2>1
<1> HIDE DEF what
<1>8. /\ \A i \in 1 .. m : f[i] \in v10 /\ what[i] = d[f[i]]
      /\ \A i, j \in 1 .. m : i < j => f[i] < f[j]
      /\ \A w \in v10 : \E i \in 1 .. m : f[i] = w
  BY <1>6, <1>7 DEF Places
<1>9. PICK n \in 1 .. m : f[n] = v
  BY <1>8
<1>10. what # <<>>
  BY <1>6, <1>9
<1>11. BeginsWith(all, what)
  BY <1>3, <1>10, WhatChangedComesFirst
<1>12. all \in Seq(Fitting)
  BY FoundFits
<1> HIDE DEF all
<1>13. ASSUME NEW j \in 1 .. n - 1 PROVE ~Context!Same(all[j], all[n])
  <2>1. j \in 1 .. m /\ j < n
    BY <1>6
  <2>2. all[j] = Context!Diff(f[j]) /\ all[n] = Context!Diff(f[n])
    BY <1>2, <1>6, <1>8, <1>11, <2>1 DEF BeginsWith
  <2>3. f[j] < f[n] /\ f[j] \in Nat /\ f[n] \in Nat
    BY <1>1, <1>8, <2>1
  <2>4. f[j] # f[n]
    BY <2>3
  <2> QED BY <2>2, <2>4 DEF Context!Same, Context!Diff, PinnedBill
<1>14. n \in DOMAIN all /\ all[n] = Context!Diff(v)
  BY <1>2, <1>6, <1>8, <1>9, <1>11 DEF BeginsWith
<1>15. n \in K \cap DOMAIN all
  BY <1>13, <1>14
<1>16. Context!Found = Chosen(all, K)
  <2>1. all # <<>>
    BY <1>14
  <2>2. Context!Found = Context!Distinct(all)
    BY <2>1 DEF Context!Found, PinnedBill, all
  <2> QED BY <2>2, ContextChosen DEF Context!Distinct
<1> HIDE DEF K
<1>17. PICK i \in 1 .. Len(Chosen(all, K)) : i <= n /\ Chosen(all, K)[i] = all[n]
  BY <1>12, <1>15, ChosenNoLater
<1>18. Context!Found \in Seq(Fitting)
  BY FoundFits
<1>19. i <= MaxChunks
  BY <1>1, <1>6, <1>17
<1>20. i \in DOMAIN r /\ r[i] = Context!Found[i]
  BY <1>1, <1>16, <1>17, <1>18, <1>19, FirstOnes
<1> QED BY <1>14, <1>16, <1>17, <1>20

\* The bill that a general page's question names, as far as the chunks tell.
NotGuessed ==
  LET hits == {i \in DOMAIN v2 : v2[i].type = "bill-text" /\ v2[i].of \in v1.names}
  IN \/ \A i \in hits : v2[i].of = v7
     \/ Context!Cardinality({i \in hits : v2[i].of = v7}) >= LookupK

\* The bill a question names is the one bill of the chunks that were read:
\* every passage is of it, unless LookupK or more of them are.
LEMMA OneOfThem ==
  ASSUME Context!Parameters, IsList(v2), v1.canonical, NEW bill \in Context!NamedBills
  PROVE  LET hits == {i \in DOMAIN v2 : v2[i].type = "bill-text" /\ v2[i].of \in v1.names}
         IN \/ \A i \in hits : v2[i].of = bill
            \/ Context!Cardinality({i \in hits : v2[i].of = bill}) >= LookupK
<1> DEFINE K == {i \in DOMAIN v2 : v2[i].of \in v1.names /\ v2[i].type = "bill-text"}
           c == Chosen(v2, K)
           a == Context!First(LookupK, c)
           bills == {a[i].of : i \in DOMAIN a}
<1>1. LookupK \in Nat /\ v2 \in Seq(Indexed)
  BY DEF Context!Parameters, IsList, Indexed
<1>2. Context!NamedBills = Context!NamedBill(bills)
  BY ContextChosen DEF Context!NamedBills, Context!Ask, Context!Where
<1>3. K = {i \in DOMAIN v2 : v2[i].type = "bill-text" /\ v2[i].of \in v1.names}
  OBVIOUS
<1>4. K \cap DOMAIN v2 = K
  OBVIOUS
<1> HIDE DEF K
<1>5. PICK f : Places(f, c, v2, K)
  <2>1. \E f : Places(f, Chosen(v2, K), v2, K \cap DOMAIN v2)
    BY <1>1, ChosenInOrder
  <2> QED BY <1>4, <2>1
<1>6. c \in Seq(Indexed)
  BY <1>1, ChosenInOrder
<1> HIDE DEF c
<1>7. PICK m \in Nat : m = Len(c) /\ DOMAIN c = 1 .. m
  BY <1>6
<1>8. /\ \A i \in 1 .. m : f[i] \in K /\ c[i] = v2[f[i]]
      /\ \A i, j \in 1 .. m : i < j => f[i] < f[j]
      /\ \A k \in K : \E i \in 1 .. m : f[i] = k
  BY <1>5, <1>7 DEF Places
<1>9. /\ a \in Seq(Indexed)
      /\ \A i \in 1 .. m : i <= LookupK => i \in DOMAIN a /\ a[i] = c[i]
  <2> DEFINE S == Indexed
  <2>i. LookupK \in Int /\ c \in Seq(S)
    BY <1>1, <1>6
  <2> HIDE DEF S
  <2>1. /\ a \in Seq(S)
        /\ \A i \in 1 .. Len(c) : i <= LookupK => i \in DOMAIN a /\ a[i] = c[i]
    BY <2>i, FirstOnes
  <2> HIDE DEF a
  <2> QED BY <1>7, <2>1 DEF S
<1> HIDE DEF a
<1>10. \A x \in bills : x = bill
  <2>1. bill \in bills /\ Cardinality(bills) = 1
    BY <1>2, ContextCount DEF Context!NamedBill
  <2>2. IsFiniteSet(bills)
    <3>1. PICK l \in Nat : DOMAIN a = 1 .. l
      BY <1>9
    <3>2. [i \in 1 .. l |-> a[i].of] \in Surjection(1 .. l, bills)
      BY <3>1 DEF Surjection
    <3> HIDE DEF bills
    <3> QED BY <3>2, FS_Interval, FS_Surjection
  <2> HIDE DEF bills
  <2>3. PICK x : bills = {x}
    BY <2>1, <2>2, FS_Singleton
  <2> QED BY <2>1, <2>3
<1>11. ASSUME NEW i \in 1 .. m, i <= LookupK PROVE v2[f[i]].of = bill
  <2>1. i \in DOMAIN a /\ a[i] = v2[f[i]]
    BY <1>8, <1>9, <1>11
  <2>2. a[i].of \in bills
    BY <2>1
  <2> HIDE DEF bills
  <2> QED BY <1>10, <2>1, <2>2
<1>12. CASE m <= LookupK
  <2>1. \A i \in K : v2[i].of = bill
    BY <1>8, <1>11, <1>12, <1>1
  <2> QED BY <1>3, <2>1
<1>13. CASE m > LookupK
  <2> DEFINE T == {i \in K : v2[i].of = bill}
             g == [i \in 1 .. LookupK |-> f[i]]
  <2>1. \A i \in 1 .. LookupK : i \in 1 .. m /\ i <= LookupK
    BY <1>1, <1>7, <1>13
  <2>2. IsFiniteSet(K)
    BY <1>1, <1>4, ChosenLength
  <2>3. IsFiniteSet(T)
    BY <2>2, FS_Subset
  <2>4. \A i \in 1 .. LookupK : f[i] \in T /\ f[i] \in Nat
    <3>1. K \subseteq Nat
      BY <1>1, <1>4
    <3> QED BY <1>8, <1>11, <2>1, <3>1
  <2>5. ASSUME NEW i \in 1 .. LookupK, NEW j \in 1 .. LookupK, f[i] = f[j] PROVE i = j
    <3>1. ~(i < j) /\ ~(j < i)
      BY <1>8, <2>1, <2>4, <2>5
    <3> QED BY <1>1, <3>1
  <2> HIDE DEF T
  <2>6. g \in Injection(1 .. LookupK, T)
    BY <2>4, <2>5 DEF Injection, IsInjective
  <2> HIDE DEF g
  <2>7. Cardinality(1 .. LookupK) <= Cardinality(T)
    BY <2>3, <2>6, FS_Injection
  <2>8. Cardinality(1 .. LookupK) = LookupK /\ Cardinality(T) \in Nat
    <3>1. Cardinality(1 .. LookupK) = LookupK
      BY <1>1, FS_Interval
    <3> QED BY <2>3, <3>1, FS_CardinalityType
  <2>9. Context!Cardinality(T) >= LookupK
    BY <1>1, <2>7, <2>8, ContextCount
  <2> QED BY <1>3, <2>9 DEF T
<1> QED BY <1>1, <1>7, <1>12, <1>13

-----------------------------------------------------------------------------
\* A bill of the canonical-id index, but for a page without the bill's id.
OfItsBill ==
  v1.canonical /\ Context!Kind = "bill" /\ (v1.page = "bill" => v1.pin)

AsksChanges == "changes" \in v1.asks

\* The queries that are awaited no later than what changed.
UpToChanges == {Context!Waits[i] : i \in 1 .. 7}

\* Before the queries nothing is pinned or read, and nothing is returned
\* before the last of them is in.
NothingEarly ==
  /\ v6 \notin {"releasing", "over"} => v11 = None
  /\ v6 = "asked" => v7 = None
  /\ v6 \in {"asked", "starting"} => \A k \in Context!Queries : v9[k] = "unused"

\* What the filters pin, on the canonical-id index: the bill of the page, or the
\* one its question names; without the page's id, nothing is retrieved.
PinsItsBill ==
  v1.canonical =>
    /\ v1.page = "bill" /\ v1.pin /\ v6 # "asked" => v7 = Subject
    /\ v1.page = "bill" /\ ~v1.pin =>
         v6 \in {"asked", "over"} /\ (v11 # None => v11.chunks = <<>>)
    /\ v1.page = "general" /\ v7 # None => NotGuessed
    /\ NoPersonVotes

\* What changed is awaited if it is asked for.
AwaitsChanges ==
  OfItsBill /\ AsksChanges /\ v6 \in Context!Queries =>
    /\ v9["changes"] \in {"running", "answered"}
    /\ v6 \notin UpToChanges => v9["changes"] = "answered"

\* What is returned.
ReturnsWhatFits ==
  OfItsBill /\ v11 # None =>
    /\ \A i \in DOMAIN v11.chunks : Fits(v11.chunks[i])
    /\ AsksChanges =>
         /\ v9["changes"] = "answered" /\ v11.note # None
         /\ v11.note = "read" /\ Cardinality(v10) <= MaxChunks =>
              \A v \in v10 : \E i \in DOMAIN v11.chunks : v11.chunks[i] = Context!Diff(v)

ContextParts ==
  NothingEarly /\ PinsItsBill /\ AwaitsChanges /\ ReturnsWhatFits

(* What changed is one query, the seventh; whom a person voted with another.*)
LEMMA TheChanges ==
  /\ Context!Waits[7] = "changes" /\ "changes" \in Context!Queries
  /\ "changes" \notin Context!Sent
  /\ \A i \in 1 .. 12 : Context!Waits[i] \in UpToChanges => i <= 7
<1>1. /\ Context!Waits[1] = "text" /\ Context!Waits[2] = "summary"
      /\ Context!Waits[3] = "bill orgs" /\ Context!Waits[4] = "orgs"
      /\ Context!Waits[5] = "person votes" /\ Context!Waits[6] = "votes"
      /\ Context!Waits[7] = "changes" /\ Context!Waits[8] = "fallback"
      /\ Context!Waits[9] = "organization" /\ Context!Waits[10] = "its chunks"
      /\ Context!Waits[11] = "scoped" /\ Context!Waits[12] = "general"
  BY DEF Context!Waits
<1>2. "changes" \in Context!Queries
  <2>1. 7 \in 1 .. 12
    OBVIOUS
  <2> QED BY <1>1, <2>1, QueriesAreNoStages DEF Context!Queries
<1>3. ASSUME NEW i \in 1 .. 12, NEW j \in 1 .. 7, Context!Waits[i] = Context!Waits[j]
      PROVE  i <= 7
  <2>1. \/ i <= 7 \/ i = 8 \/ i = 9 \/ i = 10 \/ i = 11 \/ i = 12
    OBVIOUS
  <2>2. j = 1 \/ j = 2 \/ j = 3 \/ j = 4 \/ j = 5 \/ j = 6 \/ j = 7
    OBVIOUS
  <2> QED BY <1>1, <1>3, <2>1, <2>2
<1>4. "changes" \notin Context!Sent
  BY DEF Context!Sent
<1> QED BY <1>1, <1>2, <1>3, <1>4 DEF UpToChanges

(* Whom a person voted with is a query too.                                *)
LEMMA PersonVotesAreAQuery == "person votes" \in Context!Queries
<1>1. 5 \in 1 .. 12 /\ Context!Waits[5] = "person votes"
  BY DEF Context!Waits
<1> QED BY <1>1, QueriesAreNoStages DEF Context!Queries

(* While it is out, the queries awaited before it lead to it.              *)
LEMMA ChangesAreLater ==
  ASSUME v6 \in UpToChanges, v9[v6] = "answered", v9["changes"] = "running"
  PROVE  7 \in Context!Later(v6)
<1> DEFINE p == Context!Position(v6)
<1>1. p \in 1 .. 12 /\ Context!Waits[p] = v6
  <2>1. \E i \in DOMAIN Context!Waits : Context!Waits[i] = v6
    <3>1. 1 .. 7 \subseteq 1 .. 12
      OBVIOUS
    <3> QED BY <3>1, QueriesAreNoStages DEF UpToChanges
  <2> QED BY <2>1, QueriesAreNoStages DEF Context!Position
<1> HIDE DEF p
<1>2. p <= 7
  BY <1>1, TheChanges
<1>3. p # 7
  BY <1>1, TheChanges
<1>4. Context!Needed("changes")
  BY DEF Context!Needed
<1>5. 7 \in 1 .. 12 /\ 7 > p
  BY <1>1, <1>2, <1>3
<1> QED BY <1>4, <1>5, TheChanges, QueriesAreNoStages DEF Context!Later, p

(* So the query after one of them is one of them.                          *)
LEMMA NextIsNoLater ==
  ASSUME v6 \in UpToChanges, v9[v6] = "answered", v9["changes"] = "running"
  PROVE  Context!Waits[CHOOSE i \in Context!Later(v6) : \A j \in Context!Later(v6) : i <= j]
           \in UpToChanges
<1>1. Context!Later(v6) \subseteq 1 .. 12
  BY QueriesAreNoStages DEF Context!Later
<1>2. 7 \in Context!Later(v6)
  BY ChangesAreLater
<1>3. \E i \in Context!Later(v6) : \A j \in Context!Later(v6) : i <= j
  BY <1>1, <1>2, LeastOfNat
<1> DEFINE next == CHOOSE i \in Context!Later(v6) : \A j \in Context!Later(v6) : i <= j
<1>4. next \in Context!Later(v6) /\ next <= 7
  BY <1>2, <1>3
<1> HIDE DEF next
<1>5. next \in 1 .. 7
  BY <1>1, <1>4
<1> QED BY <1>5 DEF UpToChanges, next

-----------------------------------------------------------------------------
\* Steps that touch none of it.
LEMMA PartsFrame ==
  ASSUME ContextParts, UNCHANGED <<v1, v2, v6, v7, v8, v9, v10, v11>>
  PROVE  ContextParts'
<1>1. (\A c : Fits(c)' = Fits(c)) /\ NotGuessed' = NotGuessed /\ OfItsBill' = OfItsBill
  BY DEF Fits, NotGuessed, OfItsBill, Context!Kind
<1>2. NothingEarly'
  BY DEF ContextParts, NothingEarly
<1>3. PinsItsBill'
  BY <1>1 DEF ContextParts, PinsItsBill, NoPersonVotes
<1>4. AwaitsChanges'
  BY <1>1 DEF ContextParts, AwaitsChanges, AsksChanges
<1>5. ReturnsWhatFits'
  BY DEF ContextParts, ReturnsWhatFits, OfItsBill, Context!Kind, Fits, AsksChanges, Context!Diff
<1> QED BY <1>2, <1>3, <1>4, <1>5 DEF ContextParts

\* Nothing is asked, pinned or returned at first.
LEMMA PartsInit == Context!Init => ContextParts
<1> SUFFICES ASSUME Context!Init PROVE ContextParts
  OBVIOUS
<1>1. /\ v6 = "asked" /\ v7 = None /\ v11 = None
      /\ v9 = [k \in Context!Queries |-> "unused"]
  BY DEF Context!Init
<1>2. NoPersonVotes
  BY <1>1, PersonVotesAreAQuery DEF NoPersonVotes
<1>3. v6 \notin Context!Queries
  BY <1>1, QueriesAreNoStages
<1> QED BY <1>1, <1>2, <1>3 DEF ContextParts, NothingEarly, PinsItsBill, AwaitsChanges, ReturnsWhatFits

\* retrieve, up to its filters.
LEMMA PartsBegin ==
  ASSUME Context!Parameters, RetrievalInv, ContextParts, Context!Begin
  PROVE  ContextParts'
<1>1. /\ v6 = "asked" /\ v7 = None /\ v11 = None
      /\ \A k \in Context!Queries : v9[k] = "unused"
  BY DEF Context!Begin, ContextParts, NothingEarly
<1>2. UNCHANGED <<v1, v2, v3, v4, v5, v8, v9, v10>>
  BY DEF Context!Begin, Context!world
<1>3. \/ v6' = "over" /\ v11' = None
      \/ /\ v6' = "over" /\ v11' = [chunks |-> <<>>, note |-> None]
         /\ v1.canonical /\ (v1.page = "legislator" \/ (v1.page = "bill" /\ ~v1.pin))
      \/ /\ v6' = "starting" /\ v11' = None
         /\ ~(v1.canonical /\ (v1.page = "legislator" \/ (v1.page = "bill" /\ ~v1.pin)))
  BY <1>1 DEF Context!Begin, Context!Ends
<1>4. v1.canonical /\ v1.page = "general" /\ v7' # None => v7' \in Context!NamedBills
  BY <1>1 DEF Context!Begin
<1>5. v1.page = "bill" /\ v1.pin => v7' = Subject
  BY DEF Context!Begin
<1>6. v6' \notin Context!Queries
  BY <1>3, QueriesAreNoStages
<1>7. NothingEarly'
  BY <1>1, <1>2, <1>3 DEF NothingEarly
<1>8. PinsItsBill'
  <2>1. IsList(v2)
    BY DEF RetrievalInv, Context!TypeOK, Context!Parameters, Context!IsList, IsList
  <2>2. v1.canonical /\ v1.page = "general" /\ v7' # None => NotGuessed'
    BY <1>2, <1>4, <2>1, OneOfThem DEF NotGuessed
  <2>3. v1.canonical => NoPersonVotes'
    BY <1>2 DEF ContextParts, PinsItsBill, NoPersonVotes
  <2>4. (v11' # None => v11'.chunks = <<>>) /\ (v1.canonical /\ v1.page = "bill" /\ ~v1.pin => v6' = "over")
    BY <1>3
  <2> QED BY <1>2, <1>5, <2>2, <2>3, <2>4 DEF PinsItsBill
<1>9. AwaitsChanges'
  BY <1>6 DEF AwaitsChanges
<1>10. ReturnsWhatFits'
  BY <1>2, <1>3 DEF ReturnsWhatFits, OfItsBill, Context!Kind
<1> QED BY <1>7, <1>8, <1>9, <1>10 DEF ContextParts

\* The first queries.
LEMMA PartsStartBill ==
  ASSUME Context!Parameters, RetrievalInv, ContextParts, Context!StartBill
  PROVE  ContextParts'
<1>1. /\ v6 = "starting" /\ v11 = None /\ v6' = "text"
      /\ UNCHANGED <<v1, v2, v7, v10, v11>>
  BY DEF Context!StartBill, Context!Starts, Context!world, ContextParts, NothingEarly
<1>2. /\ "text" = Context!Waits[1] /\ "text" \in UpToChanges /\ "text" \in Context!Queries
  <2>1. "text" = Context!Waits[1] /\ 1 \in 1 .. 7 /\ 1 \in 1 .. 12
    BY DEF Context!Waits
  <2> QED BY <2>1, QueriesAreNoStages DEF UpToChanges, Context!Queries
<1>3. v1.canonical => NoPersonVotes'
  BY PersonVotesAreAQuery DEF NoPersonVotes, Context!StartBill, Context!Starts
<1>4. v1.canonical /\ AsksChanges => v9'["changes"] = "running"
  BY TheChanges DEF Context!StartBill, Context!Starts, AsksChanges
<1>5. NothingEarly'
  BY <1>1 DEF NothingEarly
<1>6. PinsItsBill'
  BY <1>1, <1>3, QueriesAreNoStages DEF ContextParts, PinsItsBill, NotGuessed
<1>7. AwaitsChanges'
  BY <1>1, <1>2, <1>4 DEF AwaitsChanges, OfItsBill, AsksChanges
<1>8. ReturnsWhatFits'
  BY <1>1 DEF ReturnsWhatFits
<1> QED BY <1>5, <1>6, <1>7, <1>8 DEF ContextParts

\* The first queries of a page that is of no bill.
LEMMA PartsStartOther ==
  ASSUME Context!Parameters, RetrievalInv, ContextParts, Context!StartOther
  PROVE  ContextParts'
<1>1. /\ v6 = "starting" /\ v11 = None
      /\ v6' \in {"organization", "scoped", "general"}
      /\ UNCHANGED <<v1, v2, v7, v8, v10, v11>> /\ Context!Kind # "bill"
  BY DEF Context!StartOther, Context!Starts, Context!world, ContextParts, NothingEarly
<1>3. v1.canonical => NoPersonVotes'
  BY PersonVotesAreAQuery DEF NoPersonVotes, Context!StartOther, Context!Starts
<1>4. ~OfItsBill'
  BY <1>1 DEF OfItsBill, Context!Kind
<1>5. NothingEarly'
  BY <1>1 DEF NothingEarly
<1>6. PinsItsBill'
  BY <1>1, <1>3 DEF ContextParts, PinsItsBill, NotGuessed
<1>7. AwaitsChanges' /\ ReturnsWhatFits'
  BY <1>4 DEF AwaitsChanges, ReturnsWhatFits
<1> QED BY <1>5, <1>6, <1>7 DEF ContextParts

\* A query's end: it was running.
LEMMA PartsOutcome ==
  ASSUME RetrievalInv, ContextParts, NEW k \in Context!Queries, NEW o,
         Context!Outcome(k, o), UNCHANGED <<v1, v2, v6, v7, v8, v11>>,
         v6 \in Context!Queries => (k = "changes" /\ v1.canonical => o = "answered"),
         k # "changes" => UNCHANGED v10
  PROVE  ContextParts'
<1>1. v9[k] = "running" /\ v9' = [v9 EXCEPT ![k] = o]
  BY DEF Context!Outcome
<1>2. v9 \in [Context!Queries -> {"unused", "running", "answered", "failed", "cancelled"}]
  BY DEF RetrievalInv, QInv
<1>3. \A j \in Context!Queries : v9[j] # "running" => v9'[j] = v9[j]
  BY <1>1, <1>2
<1>4. v1.canonical => NoPersonVotes'
  <2>1. v1.canonical => NoPersonVotes
    BY DEF ContextParts, PinsItsBill
  <2> QED BY <1>3, <2>1, PersonVotesAreAQuery DEF NoPersonVotes
<1>5. v6 \notin {"asked", "starting"}
  BY <1>1 DEF RetrievalInv, QInv
<1>6. (\A c : Fits(c)' = Fits(c)) /\ NotGuessed' = NotGuessed /\ OfItsBill' = OfItsBill
  BY DEF Fits, NotGuessed, OfItsBill, Context!Kind
<1>7. NothingEarly'
  BY <1>5 DEF ContextParts, NothingEarly
<1>8. PinsItsBill'
  BY <1>4, <1>6 DEF ContextParts, PinsItsBill
<1>9. AwaitsChanges'
  <2> SUFFICES ASSUME OfItsBill, AsksChanges, v6 \in Context!Queries
               PROVE  /\ v9'["changes"] \in {"running", "answered"}
                      /\ v6 \notin UpToChanges => v9'["changes"] = "answered"
    BY <1>6 DEF AwaitsChanges, AsksChanges
  <2>1. /\ v9["changes"] \in {"running", "answered"}
        /\ v6 \notin UpToChanges => v9["changes"] = "answered"
    BY DEF ContextParts, AwaitsChanges
  <2>2. CASE k = "changes"
    <3>1. v9'["changes"] = "answered"
      BY <1>1, <1>2, <2>2 DEF OfItsBill
    <3> QED BY <3>1
  <2>3. CASE k # "changes"
    <3>1. v9'["changes"] = v9["changes"]
      BY <1>1, <1>2, <2>3
    <3> QED BY <2>1, <3>1
  <2> QED BY <2>2, <2>3
<1>10. ReturnsWhatFits'
  <2> SUFFICES ASSUME OfItsBill, v11 # None PROVE ReturnsWhatFits'
    BY <1>6 DEF ReturnsWhatFits
  <2>1. \A i \in DOMAIN v11.chunks : Fits(v11.chunks[i])
    BY DEF ContextParts, ReturnsWhatFits
  <2>2. CASE ~AsksChanges
    BY <1>6, <2>1, <2>2 DEF ReturnsWhatFits, AsksChanges
  <2>3. CASE AsksChanges
    <3>1. v9["changes"] = "answered"
      BY <2>3 DEF ContextParts, ReturnsWhatFits
    <3>2. k # "changes" /\ v9'["changes"] = "answered"
      BY <1>1, <1>3, <3>1, TheChanges
    <3>3. v10' = v10
      BY <3>2
    <3> QED BY <1>6, <2>1, <2>3, <3>2, <3>3
            DEF ContextParts, ReturnsWhatFits, AsksChanges, Context!Diff
  <2> QED BY <2>2, <2>3
<1> QED BY <1>7, <1>8, <1>9, <1>10 DEF ContextParts

\* A retrieval that is over, or about to be.
LEMMA PartsEnd ==
  ASSUME ContextParts, UNCHANGED <<v1, v2, v7, v8, v9, v10, v11>>,
         v6 \in Context!Queries \cup {"releasing"}, v6' \in {"releasing", "over"}
  PROVE  ContextParts'
<1>1. (\A c : Fits(c)' = Fits(c)) /\ NotGuessed' = NotGuessed /\ OfItsBill' = OfItsBill
  BY DEF Fits, NotGuessed, OfItsBill, Context!Kind
<1>2. v6 \notin {"asked", "starting", "over"} /\ v6' \notin Context!Queries
  BY QueriesAreNoStages
<1>3. NothingEarly'
  BY <1>2 DEF NothingEarly
<1>4. PinsItsBill'
  BY <1>1, <1>2 DEF ContextParts, PinsItsBill, NoPersonVotes
<1>5. AwaitsChanges'
  BY <1>2 DEF AwaitsChanges
<1>6. ReturnsWhatFits'
  BY DEF ContextParts, ReturnsWhatFits, OfItsBill, Context!Kind, Fits, AsksChanges, Context!Diff
<1> QED BY <1>3, <1>4, <1>5, <1>6 DEF ContextParts

\* While the queries of a bill are awaited, its filters pin it.
LEMMA BillIsPinned ==
  ASSUME Context!Parameters, ContextParts, v6 \in Context!Queries,
         v1.canonical, Context!Kind = "bill"
  PROVE  PinnedBill /\ NoPersonVotes /\ OfItsBill
<1>1. v6 \notin {"asked", "over"}
  BY QueriesAreNoStages
<1>2. v1.page = "bill" => v1.pin /\ v7 = Subject
  BY <1>1 DEF ContextParts, PinsItsBill
<1>3. v7 # None
  BY <1>2 DEF Context!Kind, Context!Parameters
<1> QED BY <1>2, <1>3 DEF PinnedBill, OfItsBill, ContextParts, PinsItsBill

\* The answer that is awaited is in.
LEMMA PartsAwaited ==
  ASSUME Context!Parameters, RetrievalInv, ContextParts, Context!Awaited
  PROVE  ContextParts'
<1>1. v6 \in Context!Queries /\ v9[v6] = "answered" /\ UNCHANGED <<v1, v2, v3, v4, v5, v7, v8, v10>>
  BY DEF Context!Awaited, Context!world
<1>2. (\A c : Fits(c)' = Fits(c)) /\ NotGuessed' = NotGuessed /\ OfItsBill' = OfItsBill
  BY <1>1 DEF Fits, NotGuessed, OfItsBill, Context!Kind
<1>3. v6 \notin {"asked", "starting", "releasing", "over"}
  BY <1>1, QueriesAreNoStages
<1>4. v11 = None
  BY <1>3 DEF ContextParts, NothingEarly
<1>5. CASE Context!Later(v6) = {}
  <2>1. v6' = "releasing" /\ v9' = v9
    BY <1>5 DEF Context!Awaited
  <2>2. v6' \notin Context!Queries
    BY <2>1, QueriesAreNoStages
  <2>3. NothingEarly' /\ AwaitsChanges'
    BY <2>1, <2>2 DEF NothingEarly, AwaitsChanges
  <2>4. PinsItsBill'
    BY <1>1, <1>2, <1>3, <2>1 DEF ContextParts, PinsItsBill, NoPersonVotes
  <2>5. ASSUME OfItsBill PROVE ReturnsWhatFits'
    <3>1. PinnedBill /\ NoPersonVotes
      BY <1>1, <2>5, BillIsPinned DEF OfItsBill
    <3>2. IsList(v2)
      BY DEF RetrievalInv, Context!TypeOK, Context!Parameters, Context!IsList, IsList
    <3> DEFINE shown == Context!First(MaxChunks, Context!Found)
               note == IF v9["changes"] # "answered" \/ ~v1.canonical THEN None
                       ELSE IF v10 = None THEN "unavailable"
                       ELSE IF v10 = {} THEN "none" ELSE "read"
    <3>3. v11' = [chunks |-> shown, note |-> note]
      BY <1>5 DEF Context!Awaited
    <3>4. shown \in Seq(Fitting)
      BY <3>1, <3>2, FoundFits
    <3>5. ASSUME AsksChanges
          PROVE  /\ v9["changes"] = "answered" /\ note # None
                 /\ note = "read" => v10 # None /\ v10 # {}
      <4>1. v9["changes"] = "answered"
        BY <1>1, <1>5, <2>5, <3>5, ChangesAreLater DEF ContextParts, AwaitsChanges
      <4> QED BY <2>5, <4>1 DEF OfItsBill, Context!Parameters
    <3>6. ASSUME AsksChanges, note = "read", Cardinality(v10) <= MaxChunks, NEW v \in v10
          PROVE  \E i \in DOMAIN shown : shown[i] = Context!Diff(v)
      <4>1. v10 \subseteq Context!Versions
        BY <3>5, <3>6 DEF RetrievalInv, Context!TypeOK
      <4>2. ChangesRead
        BY <3>5, <3>6 DEF ChangesRead
      <4>3. v10 # None /\ v10 # {}
        BY <3>5, <3>6
      <4> HIDE DEF shown, note
      <4> QED BY <3>1, <3>2, <3>6, <4>1, <4>2, <4>3, ChangesAreShown DEF shown
    <3> HIDE DEF shown, note
    <3>7. \A i \in DOMAIN shown : Fits(shown[i])
      BY <3>4 DEF Fitting
    <3>8. v11'.chunks = shown /\ v11'.note = note
      BY <3>3
    <3>9. Cardinality(v10') = Cardinality(v10) /\ (\A v : Context!Diff(v)' = Context!Diff(v))
      BY <1>1 DEF Context!Diff
    <3> QED BY <1>1, <1>2, <2>1, <3>5, <3>6, <3>7, <3>8, <3>9 DEF ReturnsWhatFits, AsksChanges
  <2>6. ReturnsWhatFits'
    BY <1>2, <2>5 DEF ReturnsWhatFits
  <2> QED BY <2>3, <2>4, <2>6 DEF ContextParts
<1>6. CASE Context!Later(v6) # {}
  <2> DEFINE i == CHOOSE i \in Context!Later(v6) : \A j \in Context!Later(v6) : i <= j
             next == Context!Waits[i]
  <2>1. /\ v6' = next /\ UNCHANGED v11
        /\ v9' = IF next \in Context!Sent THEN [v9 EXCEPT ![next] = "running"] ELSE v9
    BY <1>6 DEF Context!Awaited
  <2>2. next \in Context!Queries /\ Context!Needed(next)
    <3>1. Context!Later(v6) \subseteq 1 .. 12
      BY QueriesAreNoStages DEF Context!Later
    <3>2. \E l \in Context!Later(v6) : \A j \in Context!Later(v6) : l <= j
      BY <1>6, <3>1, LeastOfNat
    <3>3. i \in Context!Later(v6)
      BY <3>2
    <3> QED BY <3>1, <3>3, QueriesAreNoStages DEF Context!Later, Context!Queries
  <2>3. v9["changes"] = "running" /\ v6 \in UpToChanges => next \in UpToChanges
    BY <1>1, NextIsNoLater
  <2> HIDE DEF next
  <2>4. v9 \in [Context!Queries -> {"unused", "running", "answered", "failed", "cancelled"}]
    BY DEF RetrievalInv, QInv
  <2>5. v9'["changes"] = v9["changes"]
    BY <2>1, <2>4, TheChanges
  <2>6. v1.canonical => NoPersonVotes'
    <3>1. v1.canonical => NoPersonVotes
      BY DEF ContextParts, PinsItsBill
    <3>2. v1.canonical => next # "person votes"
      BY <2>2 DEF Context!Needed
    <3> QED BY <2>1, <2>4, <3>1, <3>2, PersonVotesAreAQuery DEF NoPersonVotes
  <2>7. v6' \notin {"asked", "starting", "releasing", "over"}
    BY <2>1, <2>2, QueriesAreNoStages
  <2>8. NothingEarly'
    BY <1>4, <2>1, <2>7 DEF NothingEarly
  <2>9. PinsItsBill'
    BY <1>1, <1>2, <1>3, <1>4, <2>1, <2>6 DEF ContextParts, PinsItsBill
  <2>10. AwaitsChanges'
    BY <1>1, <1>2, <2>1, <2>3, <2>5 DEF ContextParts, AwaitsChanges, AsksChanges
  <2>11. ReturnsWhatFits'
    BY <1>4, <2>1 DEF ReturnsWhatFits
  <2> QED BY <2>8, <2>9, <2>10, <2>11 DEF ContextParts
<1> QED BY <1>5, <1>6

\* Every step keeps it.
LEMMA PartsNext ==
  ASSUME Context!Parameters, RetrievalInv, ContextParts, [Context!Next]_(Context!vars)
  PROVE  ContextParts'
<1>1. CASE Context!VersionAppears \/ Context!CacheExpires \/ UNCHANGED Context!vars
  <2>1. UNCHANGED <<v1, v2, v6, v7, v8, v9, v10, v11>>
    BY <1>1 DEF Context!VersionAppears, Context!CacheExpires, Context!vars, Context!world
  <2> QED BY <2>1, PartsFrame
<1>2. CASE Context!Begin
  BY <1>2, PartsBegin
<1>3. CASE Context!StartBill
  BY <1>3, PartsStartBill
<1>4. CASE Context!StartOther
  BY <1>4, PartsStartOther
<1>5. CASE Context!ChangesRead
  <2>1. /\ Context!Outcome("changes", "answered") /\ v1.canonical
        /\ UNCHANGED <<v1, v2, v6, v7, v8, v11>>
    BY <1>5 DEF Context!ChangesRead, Context!world
  <2> QED BY <2>1, TheChanges, PartsOutcome
<1>6. CASE Context!Awaited
  BY <1>6, PartsAwaited
<1>7. CASE Context!Fails \/ Context!Released
  <2>1. /\ UNCHANGED <<v1, v2, v7, v8, v9, v10, v11>>
        /\ v6 \in Context!Queries \cup {"releasing"} /\ v6' \in {"releasing", "over"}
    BY <1>7 DEF Context!Fails, Context!Released, Context!world
  <2> QED BY <2>1, PartsEnd
<1>8. ASSUME NEW k \in Context!Queries, Context!QueryEnds(k) PROVE ContextParts'
  <2>1. PICK o : Context!Outcome(k, o)
    BY <1>8 DEF Context!QueryEnds
  <2>2. UNCHANGED <<v1, v2, v6, v7, v8, v10, v11>> /\ (k = "changes" => ~v1.canonical)
    BY <1>8 DEF Context!QueryEnds, Context!world
  <2> QED BY <2>1, <2>2, PartsOutcome
<1>9. ASSUME NEW k \in Context!Queries, Context!Cancelled(k) PROVE ContextParts'
  <2>1. /\ Context!Outcome(k, "cancelled") /\ v6 = "releasing"
        /\ UNCHANGED <<v1, v2, v6, v7, v8, v10, v11>>
    BY <1>9 DEF Context!Cancelled, Context!world
  <2> QED BY <2>1, QueriesAreNoStages, PartsOutcome
<1> QED BY <1>1, <1>2, <1>3, <1>4, <1>5, <1>6, <1>7, <1>8, <1>9 DEF Context!Next

\* With it, what is returned is of the bill that is meant.
LEMMA PartsAreOfItsBill ==
  ASSUME Context!Parameters, RetrievalInv, ContextParts
  PROVE  /\ Context!OneVersionInContext
         /\ Context!NamedBillIsNotGuessed
         /\ Context!ChangesAreAccountedFor
<1>1. ASSUME Context!AboutOneBill, v1.page = "bill" => v1.pin
      PROVE  OfItsBill /\ v11 # None
  BY <1>1 DEF Context!AboutOneBill, Context!Returned, OfItsBill
<1>2. ASSUME Context!AboutOneBill, ~(v1.page = "bill" => v1.pin)
      PROVE  Context!Shown = {}
  BY <1>2 DEF Context!AboutOneBill, Context!Returned, Context!Shown, ContextParts, PinsItsBill
<1>3. Context!OneVersionInContext
  <2>1. CASE Context!AboutOneBill /\ (v1.page = "bill" => v1.pin)
    BY <1>1, <2>1 DEF Context!OneVersionInContext, Context!Shown, ContextParts, ReturnsWhatFits, Fits
  <2>2. CASE ~(v1.page = "bill" => v1.pin)
    BY <1>2, <2>2 DEF Context!OneVersionInContext
  <2> QED BY <2>1, <2>2 DEF Context!OneVersionInContext
<1>4. Context!NamedBillIsNotGuessed
  BY DEF Context!NamedBillIsNotGuessed, Context!Returned, ContextParts, PinsItsBill, NotGuessed
<1>5. Context!ChangesAreAccountedFor
  <2> SUFFICES ASSUME Context!AboutOneBill, AsksChanges, v1.page = "bill" => v1.pin
               PROVE  /\ v11.note # None
                      /\ v11.note = "read" /\ Context!Cardinality(v10) <= MaxChunks =>
                           \A v \in v10 : \E c \in Context!Shown : c.type = "diff" /\ c.version = v
    BY DEF Context!ChangesAreAccountedFor, AsksChanges
  <2>1. /\ v11.note # None
        /\ v11.note = "read" /\ Cardinality(v10) <= MaxChunks =>
             \A v \in v10 : \E i \in DOMAIN v11.chunks : v11.chunks[i] = Context!Diff(v)
    BY <1>1 DEF ContextParts, ReturnsWhatFits
  <2>2. \A v : Context!Diff(v).type = "diff" /\ Context!Diff(v).version = v
    BY DEF Context!Diff
  <2> QED BY <2>1, <2>2, ContextCount DEF Context!Shown
<1> QED BY <1>3, <1>4, <1>5

-----------------------------------------------------------------------------
(* The bill and the person of a message: q is v1, at v2, target v3 and     *)
(* shown v4.                                                               *)

\* A lookup that has not resolved what it asks for asks for nothing yet.
AsksInTurn ==
  \A l \in Bill!Lookups :
    /\ v2[l] \in {"idle", "resolving"} => v4[l] = None
    /\ v2[l] = "asking" => v3[l] \in Bill!Targets
    /\ v4[l] # None => v2[l] = "over" /\ v3[l] \in Bill!Targets

\* Where the live bill and its person come from ...
InfoMeans(t) ==
  /\ t.person = Bill!InfoPerson
  /\ \/ t.bill = "page" /\ v1.page.type = "bill"
     \/ t.bill = "message" /\ v1.message.bill = "short"
     \/ t.bill = "title"
     \/ t.bill = Bill!SaidBill({"visitor"}) /\ v1.message.bill # "short"

\* ... and the bill and the person of the check.
CheckMeans(t) ==
  LET said == Bill!SaidBill({"visitor", "bot"})
  IN /\ t.person = Bill!FirstOf(<<Bill!NamedPerson, Bill!PagePerson,
                                  Bill!SaidPerson({"visitor"}), Bill!SaidPerson({"bot"})>>)
     /\ v1.page.type # "bill" =>
          /\ v1.message.bill # "no" => t.bill = "message"
          /\ v1.message.bill = "no" /\ said # None => t.bill = said

AskedAsMeant ==
  /\ v3["info"] \in Bill!Targets => InfoMeans(v3["info"])
  /\ v3["verify"] \in Bill!Targets => CheckMeans(v3["verify"])

\* What is shown is what was asked for.
ShownAsAsked ==
  \A l \in Bill!Lookups : v4[l] # None =>
    /\ v4[l].bill = v3[l].bill
    /\ v4[l].person = v3[l].person \/ (l = "info" /\ v4[l].person = None)

SubjectInv == Bill!TypeOK /\ AsksInTurn /\ AskedAsMeant /\ ShownAsAsked

(* The first candidate that is something, if there is one.                 *)
LEMMA FirstIsFirst ==
  ASSUME NEW c, DOMAIN c \subseteq Nat
  PROVE  \/ Bill!FirstOf(c) = None /\ \A i \in DOMAIN c : c[i] = None
         \/ \E i \in DOMAIN c : /\ c[i] # None /\ Bill!FirstOf(c) = c[i]
                                /\ \A j \in DOMAIN c : j < i => c[j] = None
<1> DEFINE some == {i \in DOMAIN c : c[i] # None}
<1>1. CASE some = {}
  BY <1>1 DEF Bill!FirstOf
<1>2. CASE some # {}
  <2>1. \E i \in some : \A j \in some : i <= j
    BY <1>2, LeastOfNat
  <2>2. PICK i \in some : /\ \A j \in some : i <= j
                          /\ Bill!FirstOf(c) = c[i]
    BY <1>2, <2>1 DEF Bill!FirstOf
  <2> QED BY <2>2
<1> QED BY <1>1, <1>2

\* The first of a few places that says something, case by case.
LEMMA FirstOfTwo ==
  ASSUME NEW a, NEW b
  PROVE  Bill!FirstOf(<<a, b>>) = IF a # None THEN a ELSE b
<1> DEFINE c == <<a, b>>
<1>1. DOMAIN c = 1 .. 2 /\ c[1] = a /\ c[2] = b
  OBVIOUS
<1> HIDE DEF c
<1> QED BY <1>1, FirstIsFirst DEF c

LEMMA FirstOfThree ==
  ASSUME NEW a, NEW b, NEW d
  PROVE  Bill!FirstOf(<<a, b, d>>) = IF a # None THEN a ELSE IF b # None THEN b ELSE d
<1>1. DOMAIN <<a, b, d>> = 1 .. 3
  OBVIOUS
<1> QED BY <1>1, FirstIsFirst

LEMMA FirstOfFour ==
  ASSUME NEW a, NEW b, NEW d, NEW e
  PROVE  Bill!FirstOf(<<a, b, d, e>>) =
           IF a # None THEN a ELSE IF b # None THEN b ELSE IF d # None THEN d ELSE e
<1>1. DOMAIN <<a, b, d, e>> = 1 .. 4
  OBVIOUS
<1> QED BY <1>1, FirstIsFirst

LEMMA FirstOfFive ==
  ASSUME NEW a, NEW b, NEW d, NEW e, NEW f
  PROVE  Bill!FirstOf(<<a, b, d, e, f>>) =
           IF a # None THEN a ELSE IF b # None THEN b ELSE IF d # None THEN d
           ELSE IF e # None THEN e ELSE f
<1>1. DOMAIN <<a, b, d, e, f>> = 1 .. 5
  OBVIOUS
<1> QED BY <1>1, FirstIsFirst

(* What the history says: the newest of the messages that say it.          *)
LEMMA SaidBillIs ==
  ASSUME Bill!Parameters, NEW speakers
  PROVE  Bill!SaidBill(speakers) =
           IF v1.said["newer"].by \in speakers /\ v1.said["newer"].bill # "no" THEN "newer"
           ELSE IF v1.said["older"].by \in speakers /\ v1.said["older"].bill # "no" THEN "older"
           ELSE None
<1>1. "newer" # None /\ "older" # None
  BY DEF Bill!Parameters, Bill!Bills
<1> QED BY <1>1, FirstOfTwo DEF Bill!SaidBill, Bill!Given

\* The newest mention of a person by these speakers counts.
LEMMA SaidPersonIs ==
  ASSUME Bill!Parameters, NEW speakers
  PROVE  Bill!SaidPerson(speakers) =
           IF v1.said["newer"].by \in speakers /\ v1.said["newer"].person THEN "newer"
           ELSE IF v1.said["older"].by \in speakers /\ v1.said["older"].person THEN "older"
           ELSE None
<1>1. "newer" # None /\ "older" # None
  BY DEF Bill!Parameters, Bill!Bills
<1> QED BY <1>1, FirstOfTwo DEF Bill!SaidPerson, Bill!Given

(* The places that name a bill or a person are told from nothing.          *)
LEMMA Names ==
  ASSUME Bill!Parameters
  PROVE  /\ None \notin Bill!Bills /\ None \notin Bill!Persons
         /\ None \notin Bill!Places /\ None \notin Bill!Sessions
         /\ None # "good" /\ None # TRUE /\ None \notin Bill!Targets
BY DEF Bill!Parameters, Bill!Addresses

\* The person is the page's, else the message's, else of the visitor's mentions.
LEMMA PersonsAreNamed ==
  ASSUME Bill!Parameters
  PROVE  /\ Bill!InfoPerson \in Bill!OrNone(Bill!Persons)
         /\ Bill!InfoPerson =
              IF Bill!PagePerson # None THEN "page" ELSE IF Bill!NamedPerson # None THEN "message"
              ELSE Bill!SaidPerson({"visitor"})
<1>1. Bill!PagePerson \in {"page", None} /\ Bill!NamedPerson \in {"message", None}
  BY DEF Bill!PagePerson, Bill!NamedPerson, Bill!Given
<1>2. Bill!SaidPerson({"visitor"}) \in {"newer", "older", None}
  BY SaidPersonIs
<1> QED BY <1>1, <1>2, FirstOfThree DEF Bill!InfoPerson, Bill!OrNone, Bill!Persons

(* What a message and its page say is of the right kind.                   *)
LEMMA MessageType ==
  ASSUME Bill!Parameters, v1 \in BillQuestions
  PROVE  /\ v1.message.bill \in {"no", "short", "long"} /\ v1.message.person \in BOOLEAN
         /\ v1.message.place \in Bill!OrNone(Bill!Places)
         /\ v1.page.place \in Bill!OrNone(Bill!Places)
         /\ v1.page.session \in Bill!OrNone(Bill!Sessions)
         /\ \A h \in Bill!History : v1.said[h].by \in {"visitor", "bot"}
<1>1. v1 \in [message : Bill!Says, asks : {"votes", "status", "else"}, disputes : BOOLEAN,
              said : [Bill!History -> Bill!Earlier], page : Bill!Page, legacy : BOOLEAN]
  BY DEF Bill!Parameters
<1>2. v1.message \in Bill!Says /\ v1.page \in Bill!Page
      /\ \A h \in Bill!History : v1.said[h] \in Bill!Earlier
  BY <1>1
<1> QED BY <1>2 DEF Bill!Says, Bill!Page, Bill!Earlier

(* The live bill's lookup gives up, or asks for a bill that the message,   *)
(* the visitor before, the page or the title of a bill names.              *)
LEMMA InfoResolves ==
  ASSUME Bill!Parameters, v1 \in BillQuestions, Bill!ResolveInfo
  PROVE  \/ Bill!Over("info")
         \/ \E t \in Bill!Targets :
              Bill!AskFor("info", t) /\ InfoMeans(t)
<1> DEFINE Cms(cms, field) == IF cms = None THEN None ELSE cms[field]
           Named == Bill!Given(v1.message.bill = "short", "message")
           Said == Bill!SaidBill(Bill!InfoSpeakers)
           TheBill(title, cms) ==
             Bill!FirstOf(<<Named, title, Said, Bill!PageBill,
                            Bill!Given(Cms(cms, "bill") = TRUE, "page")>>)
           ThePlace(title, found, cms) ==
             Bill!FirstOf(<<Bill!Given(TheBill(title, cms) \in {"title", Said}, found),
                            Cms(cms, "place"), v1.message.place, v1.page.place, "US">>)
           TheSession(cms) ==
             Bill!FirstOf(<<v1.page.session, Cms(cms, "session"), "number">>)
<1>1. PICK title \in Bill!OrNone({"title"}), found \in Bill!OrNone(Bill!Places),
           cms \in Bill!CmsRecords :
        \/ /\ Cms(cms, "url") = "good"
           /\ \E p \in Bill!Places, s \in Bill!Sessions :
                Bill!AskFor("info", [bill |-> "page", person |-> Bill!InfoPerson,
                                     place |-> p, session |-> s])
        \/ Cms(cms, "url") = "bad" /\ Bill!Over("info")
        \/ /\ Cms(cms, "url") \notin {"good", "bad"}
           /\ IF TheBill(title, cms) = None THEN Bill!Over("info")
              ELSE Bill!AskFor("info", [bill |-> TheBill(title, cms),
                                        person |-> Bill!InfoPerson,
                                        place |-> ThePlace(title, found, cms),
                                        session |-> TheSession(cms)])
  BY DEF Bill!ResolveInfo
<1>2. /\ cms # None => v1.page.type = "bill"
      /\ Cms(cms, "place") \in Bill!OrNone(Bill!Places)
      /\ Cms(cms, "session") \in Bill!OrNone(Bill!Sessions)
  BY DEF Bill!CmsRecords, Bill!OrNone
<1>3. Named \in {"message", None} /\ Bill!PageBill \in {"page", None}
      /\ Bill!Given(Cms(cms, "bill") = TRUE, "page") \in {"page", None}
      /\ Said \in {"newer", "older", None}
  BY SaidBillIs DEF Bill!Given, Bill!PageBill
<1>4. TheBill(title, cms) # None =>
        /\ TheBill(title, cms) \in Bill!Bills
        /\ \/ TheBill(title, cms) = "page" /\ v1.page.type = "bill"
           \/ TheBill(title, cms) = "message" /\ v1.message.bill = "short"
           \/ TheBill(title, cms) = "title"
           \/ TheBill(title, cms) = Said /\ v1.message.bill # "short"
  <2>1. Cms(cms, "bill") = TRUE => cms # None
    BY Names
  <2>2. "page" # None /\ "message" # None /\ "title" # None
    BY Names DEF Bill!Bills
  <2>3. TheBill(title, cms) =
          IF Named # None THEN Named ELSE IF title # None THEN title
          ELSE IF Said # None THEN Said ELSE IF Bill!PageBill # None THEN Bill!PageBill
          ELSE Bill!Given(Cms(cms, "bill") = TRUE, "page")
    BY FirstOfFive
  <2>4. Bill!PageBill # None => v1.page.type = "bill"
    BY DEF Bill!PageBill, Bill!Given
  <2>5. Bill!Given(Cms(cms, "bill") = TRUE, "page") # None => v1.page.type = "bill"
    BY <1>2, <2>1 DEF Bill!Given
  <2>6. Named # None <=> v1.message.bill = "short"
    BY <2>2 DEF Bill!Given
  <2>7. title \in {"title", None}
    BY DEF Bill!OrNone
  <2> HIDE DEF TheBill, Named, Said
  <2> QED BY <1>3, <2>2, <2>3, <2>4, <2>5, <2>6, <2>7 DEF Bill!Bills
<1>5. ThePlace(title, found, cms) \in Bill!Places
  <2>1. Bill!Given(TheBill(title, cms) \in {"title", Said}, found) \in Bill!OrNone(Bill!Places)
    BY DEF Bill!Given, Bill!OrNone
  <2>2. "US" \in Bill!Places
    BY DEF Bill!Places
  <2> HIDE DEF TheBill, Said
  <2> QED BY <1>2, <2>1, <2>2, MessageType, FirstOfFive DEF Bill!OrNone
<1>6. TheSession(cms) \in Bill!Sessions
  <2>1. "number" \in Bill!Sessions
    BY DEF Bill!Sessions
  <2> QED BY <1>2, <2>1, MessageType, FirstOfThree DEF Bill!OrNone
<1>7. Bill!InfoPerson \in Bill!OrNone(Bill!Persons)
  BY PersonsAreNamed
<1>8. CASE Cms(cms, "url") = "good"
  <2>1. PICK p \in Bill!Places, s \in Bill!Sessions :
          Bill!AskFor("info", [bill |-> "page", person |-> Bill!InfoPerson,
                               place |-> p, session |-> s])
    BY <1>1, <1>8
  <2>2. cms # None
    BY <1>8, Names
  <2> DEFINE t == [bill |-> "page", person |-> Bill!InfoPerson, place |-> p, session |-> s]
  <2>3. t \in Bill!Targets /\ t.bill = "page" /\ t.person = Bill!InfoPerson
    BY <1>7 DEF Bill!Targets, Bill!Bills
  <2> HIDE DEF t
  <2> QED BY <1>2, <2>1, <2>2, <2>3 DEF t, InfoMeans
<1>9. CASE Bill!Over("info")
  BY <1>9
<1>10. CASE /\ TheBill(title, cms) # None
            /\ Bill!AskFor("info", [bill |-> TheBill(title, cms),
                                    person |-> Bill!InfoPerson,
                                    place |-> ThePlace(title, found, cms),
                                    session |-> TheSession(cms)])
  <2> DEFINE t == [bill |-> TheBill(title, cms), person |-> Bill!InfoPerson,
                   place |-> ThePlace(title, found, cms), session |-> TheSession(cms)]
  <2>1. t \in Bill!Targets
    <3> HIDE DEF TheBill, ThePlace, TheSession
    <3> QED BY <1>4, <1>5, <1>6, <1>7, <1>10 DEF Bill!Targets
  <2>2. t.bill = TheBill(title, cms) /\ t.person = Bill!InfoPerson
    OBVIOUS
  <2>3. Said = Bill!SaidBill({"visitor"})
    BY DEF Bill!InfoSpeakers
  <2> HIDE DEF TheBill, ThePlace, TheSession, Said
  <2> QED BY <1>4, <1>10, <2>1, <2>2, <2>3 DEF InfoMeans
<1> HIDE DEF TheBill, ThePlace, TheSession
<1> QED BY <1>1, <1>8, <1>9, <1>10

(* The check gives up, or asks for the bill of the page, of the message or *)
(* of the history, in this order, or for one whose title was found.        *)
LEMMA VerifyResolves ==
  ASSUME Bill!Parameters, v1 \in BillQuestions, Bill!ResolveVerify
  PROVE  \/ Bill!Over("verify")
         \/ \E t \in Bill!Targets :
              Bill!AskFor("verify", t) /\ CheckMeans(t)
<1> DEFINE ThePerson == Bill!FirstOf(<<Bill!NamedPerson, Bill!PagePerson,
                             Bill!SaidPerson({"visitor"}), Bill!SaidPerson({"bot"})>>)
           Said == Bill!SaidBill({"visitor", "bot"})
           Named == Bill!Given(v1.message.bill # "no", "message")
           TheBill(title) == Bill!FirstOf(<<Bill!PageBill, Named, Said, title>>)
           ThePlace(title, found) ==
             Bill!FirstOf(<<v1.page.place, Bill!Given(Bill!PageBill = None, v1.message.place),
                            Bill!Given(TheBill(title) = Said \/ TheBill(title) = title, found),
                            "US">>)
           TheSession == Bill!FirstOf(<<v1.page.session, "number">>)
<1> DEFINE Titles == {"title", "title newer", "title older"} \cup {None}
<1>1. PICK title \in Titles,
           found \in Bill!Places \cup {None} :
        IF ThePerson = None \/ TheBill(title) = None THEN Bill!Over("verify")
        ELSE Bill!AskFor("verify", [bill |-> TheBill(title), person |-> ThePerson,
                                    place |-> ThePlace(title, found), session |-> TheSession])
  BY DEF Bill!ResolveVerify, Bill!OrNone
<1>12. Titles \subseteq Bill!OrNone(Bill!Bills)
  BY DEF Bill!OrNone, Bill!Bills
<1> HIDE DEF Titles
<1>2. ThePerson \in Bill!OrNone(Bill!Persons)
  <2>1. Bill!NamedPerson \in {"message", None} /\ Bill!PagePerson \in {"page", None}
    BY DEF Bill!NamedPerson, Bill!PagePerson, Bill!Given
  <2>2. /\ Bill!SaidPerson({"visitor"}) \in {"newer", "older", None}
        /\ Bill!SaidPerson({"bot"}) \in {"newer", "older", None}
    BY SaidPersonIs
  <2>3. ASSUME NEW S, NEW a \in S, NEW b \in S, NEW d \in S, NEW e \in S
        PROVE  Bill!FirstOf(<<a, b, d, e>>) \in S
    BY FirstOfFour
  <2>4. {"message", "page", "newer", "older", None} \subseteq Bill!OrNone(Bill!Persons)
    BY DEF Bill!OrNone, Bill!Persons
  <2> QED BY <2>1, <2>2, <2>3, <2>4
<1>3. /\ TheBill(title) \in Bill!OrNone(Bill!Bills)
      /\ v1.page.type # "bill" =>
           /\ v1.message.bill # "no" => TheBill(title) = "message"
           /\ v1.message.bill = "no" /\ Said # None => TheBill(title) = Said
  <2>1. /\ Bill!PageBill \in {"page", None} /\ Named \in {"message", None}
        /\ Bill!PageBill # None => v1.page.type = "bill"
        /\ v1.message.bill = "no" => Named = None
        /\ v1.message.bill # "no" => Named = "message"
    BY DEF Bill!PageBill, Bill!Given
  <2>2. Said \in {"newer", "older", None}
    BY SaidBillIs
  <2>3. "message" # None
    BY Names DEF Bill!Bills
  <2>4. TheBill(title) = IF Bill!PageBill # None THEN Bill!PageBill
                         ELSE IF Named # None THEN Named
                         ELSE IF Said # None THEN Said ELSE title
    <3> HIDE DEF Named, Said
    <3> QED BY FirstOfFour
  <2>5. title \in Bill!OrNone(Bill!Bills)
    BY <1>12
  <2> HIDE DEF TheBill, Named, Said
  <2> QED BY <2>1, <2>2, <2>3, <2>4, <2>5 DEF Bill!OrNone, Bill!Bills
<1>4. ThePlace(title, found) \in Bill!Places
  <2>1. /\ Bill!Given(Bill!PageBill = None, v1.message.place) \in Bill!OrNone(Bill!Places)
        /\ Bill!Given(TheBill(title) = Said \/ TheBill(title) = title, found)
             \in Bill!OrNone(Bill!Places)
    BY MessageType DEF Bill!Given, Bill!OrNone
  <2>2. "US" \in Bill!Places
    BY DEF Bill!Places
  <2>3. ASSUME NEW a \in Bill!Places \cup {None}, NEW b \in Bill!Places \cup {None},
               NEW d \in Bill!Places \cup {None}
        PROVE  Bill!FirstOf(<<a, b, d, "US">>) \in Bill!Places
    BY <2>2, FirstOfFour
  <2> HIDE DEF TheBill, Said
  <2> QED BY <2>1, <2>3, MessageType DEF Bill!OrNone
<1>5. TheSession \in Bill!Sessions
  <2>1. "number" \in Bill!Sessions
    BY DEF Bill!Sessions
  <2> QED BY <2>1, MessageType, FirstOfTwo DEF Bill!OrNone
<1>6. CASE ThePerson = None \/ TheBill(title) = None
  BY <1>1, <1>6
<1>7. CASE ~(ThePerson = None \/ TheBill(title) = None)
  <2> DEFINE t == [bill |-> TheBill(title), person |-> ThePerson,
                   place |-> ThePlace(title, found), session |-> TheSession]
  <2>1. t \in Bill!Targets /\ t.bill = TheBill(title) /\ t.person = ThePerson
    <3> HIDE DEF TheBill, ThePlace, TheSession, ThePerson
    <3> QED BY <1>2, <1>3, <1>4, <1>5, <1>7 DEF Bill!Targets, Bill!OrNone
  <2>2. Bill!AskFor("verify", t)
    BY <1>1, <1>7
  <2>3. CheckMeans(t)
    <3> HIDE DEF TheBill, t
    <3> QED BY <1>3, <1>7, <2>1 DEF CheckMeans
  <2> HIDE DEF t
  <2> QED BY <2>1, <2>2, <2>3
<1> QED BY <1>6, <1>7

(* No lookup asks for anything before it has resolved what: the lookups are*)
(* as the invariant says whatever each of them does.                       *)
LEMMA SubjectInit ==
  ASSUME Bill!Parameters, Bill!Init
  PROVE  SubjectInv
<1>1. Bill!TypeOK
  BY DEF Bill!Init, Bill!TypeOK, Bill!OrNone
<1>2. AsksInTurn /\ ShownAsAsked
  BY DEF Bill!Init, AsksInTurn, ShownAsAsked, Bill!Lookups
<1>3. v3["info"] \notin Bill!Targets /\ v3["verify"] \notin Bill!Targets
  BY Names DEF Bill!Init, Bill!Lookups
<1> QED BY <1>1, <1>2, <1>3 DEF SubjectInv, AskedAsMeant

(* What a message means does not change.                                   *)
LEMMA MeaningStays ==
  ASSUME v1' = v1, NEW t
  PROVE  InfoMeans(t)' = InfoMeans(t) /\ CheckMeans(t)' = CheckMeans(t)
<1>1. Bill!SaidBill({"visitor"})' = Bill!SaidBill({"visitor"})
  BY DEF Bill!SaidBill, Bill!Given
<1>2. Bill!SaidBill({"visitor", "bot"})' = Bill!SaidBill({"visitor", "bot"})
  BY DEF Bill!SaidBill, Bill!Given
<1>3. Bill!SaidPerson({"visitor"})' = Bill!SaidPerson({"visitor"})
  BY DEF Bill!SaidPerson, Bill!Given
<1>4. Bill!SaidPerson({"bot"})' = Bill!SaidPerson({"bot"})
  BY DEF Bill!SaidPerson, Bill!Given
<1>5. Bill!NamedPerson' = Bill!NamedPerson /\ Bill!PagePerson' = Bill!PagePerson
  BY DEF Bill!NamedPerson, Bill!PagePerson, Bill!Given
<1>6. Bill!InfoPerson' = Bill!InfoPerson
  BY <1>3, <1>5 DEF Bill!InfoPerson
<1>7. InfoMeans(t)' = InfoMeans(t)
  BY <1>1, <1>6 DEF InfoMeans
<1>8. CheckMeans(t)' = CheckMeans(t)
  BY <1>2, <1>3, <1>4, <1>5 DEF CheckMeans
<1> QED BY <1>7, <1>8

\* Every step keeps the lookups of one subject.
LEMMA SubjectNext ==
  ASSUME Bill!Parameters, SubjectInv, [Bill!Next]_(Bill!vars)
  PROVE  SubjectInv'
<1> USE DEF SubjectInv, AsksInTurn, AskedAsMeant, ShownAsAsked, Bill!TypeOK
<1>1. CASE /\ UNCHANGED <<v1, v3, v4>>
           /\ v2' \in [Bill!Lookups -> {"idle", "resolving", "asking", "over"}]
           /\ \A l \in Bill!Lookups : \/ v2'[l] \in {v2[l], "over"}
                                      \/ v2[l] = "idle" /\ v2'[l] = "resolving"
  BY <1>1, MeaningStays
<1>2. CASE Bill!Gather
  BY <1>1, <1>2 DEF Bill!Gather
<1>3. ASSUME NEW l \in Bill!Lookups, NEW t \in Bill!Targets, Bill!AskFor(l, t),
             v2[l] = "resolving", UNCHANGED <<v1, v4>>,
             l = "info" => InfoMeans(t), l = "verify" => CheckMeans(t)
      PROVE  SubjectInv'
  <2>1. /\ v3' = [v3 EXCEPT ![l] = t] /\ v2' = [v2 EXCEPT ![l] = "asking"]
    BY <1>3 DEF Bill!AskFor
  <2>2. Bill!TypeOK' /\ AsksInTurn' /\ ShownAsAsked'
    BY <1>3, <2>1 DEF Bill!OrNone
  <2>3. AskedAsMeant'
    BY <1>3, <2>1, MeaningStays DEF Bill!Lookups
  <2> QED BY <2>2, <2>3
<1>4. CASE Bill!ResolveInfo
  <2>1. v1' = v1 /\ v4' = v4 /\ v2["info"] = "resolving" /\ "info" \in Bill!Lookups
    BY <1>4 DEF Bill!ResolveInfo, Bill!Lookups
  <2>2. CASE Bill!Over("info")
    BY <1>1, <2>1, <2>2 DEF Bill!Over
  <2> QED BY <1>3, <1>4, <2>1, <2>2, InfoResolves
<1>5. CASE Bill!ResolveVerify
  <2>1. v1' = v1 /\ v4' = v4 /\ v2["verify"] = "resolving" /\ "verify" \in Bill!Lookups
    BY <1>5 DEF Bill!ResolveVerify, Bill!Lookups
  <2>2. CASE Bill!Over("verify")
    BY <1>1, <2>1, <2>2 DEF Bill!Over
  <2> QED BY <1>3, <1>5, <2>1, <2>2, VerifyResolves
<1>6. ASSUME NEW l \in Bill!Lookups, Bill!Answered(l) PROVE SubjectInv'
  <2>1. /\ v2[l] = "asking" /\ v2' = [v2 EXCEPT ![l] = "over"] /\ UNCHANGED <<v1, v3>>
        /\ v3[l] \in Bill!Targets
    BY <1>6 DEF Bill!Answered
  <2>2. CASE UNCHANGED v4
    BY <1>1, <2>1, <2>2
  <2> DEFINE Told(who, try) == [bill |-> v3[l].bill, person |-> who, try |-> try]
  <2>3. ASSUME NEW try \in Bill!Tries, NEW who \in {v3[l].person, None},
               who = v3[l].person \/ l = "info", v4' = [v4 EXCEPT ![l] = Told(who, try)]
        PROVE  SubjectInv'
    <3>1. /\ Told(who, try) \in [bill : Bill!Bills, person : Bill!OrNone(Bill!Persons),
                                 try : Bill!Tries]
          /\ Told(who, try).bill = v3[l].bill /\ Told(who, try).person = who
      BY <2>1 DEF Bill!Targets, Bill!OrNone
    <3> HIDE DEF Told
    <3>2. Bill!TypeOK' /\ AsksInTurn' /\ ShownAsAsked'
      BY <2>1, <2>3, <3>1 DEF Bill!OrNone
    <3>3. AskedAsMeant'
      BY <2>1, MeaningStays
    <3> QED BY <3>2, <3>3
  <2>4. \/ \E try \in {1} \cup Bill!OlderSessions(l),
              who \in {v3[l].person} \cup (IF l = "info" THEN {None} ELSE {}) :
             v4' = [v4 EXCEPT ![l] = Told(who, try)]
        \/ v4' = [v4 EXCEPT ![l] = Told(v3[l].person, 0)]
        \/ UNCHANGED v4
    BY <1>6 DEF Bill!Answered
  <2>5. {1} \cup Bill!OlderSessions(l) \subseteq Bill!Tries /\ 0 \in Bill!Tries
    BY DEF Bill!OlderSessions, Bill!Tries
  <2> HIDE DEF Told
  <2> QED BY <2>2, <2>3, <2>4, <2>5
<1>7. ASSUME NEW l \in Bill!Lookups, Bill!Release(l) PROVE SubjectInv'
  BY <1>1, <1>7 DEF Bill!Release
<1>8. CASE UNCHANGED Bill!vars
  BY <1>1, <1>8 DEF Bill!vars
<1> QED BY <1>2, <1>4, <1>5, <1>6, <1>7, <1>8 DEF Bill!Next

(* One subject: the two persons, and the two bills, come from the same     *)
(* places in orders that agree unless the message and its page name two.   *)
LEMMA SubjectIsOne ==
  ASSUME Bill!Parameters, SubjectInv
  PROVE  Bill!OneSubjectPerMessage /\ Bill!BotNamesNothing
<1> USE DEF SubjectInv, AsksInTurn, AskedAsMeant, ShownAsAsked, Bill!TypeOK
<1>1. "info" \in Bill!Lookups /\ "verify" \in Bill!Lookups
  BY DEF Bill!Lookups
<1>2. Bill!NamedPerson = (IF v1.message.person THEN "message" ELSE None)
      /\ Bill!PagePerson = (IF v1.page.type = "legislator" /\ v1.page.id THEN "page" ELSE None)
  BY DEF Bill!NamedPerson, Bill!PagePerson, Bill!Given
<1>3. ASSUME v4["info"] # None, v4["verify"] # None, v4["info"].person # None,
             ~(v1.message.person /\ v1.page.type = "legislator")
      PROVE  v4["info"].person = v4["verify"].person
  <2>1. v4["info"].person = Bill!InfoPerson
    BY <1>1, <1>3 DEF InfoMeans
  <2>2. v4["verify"].person = 
          Bill!FirstOf(<<Bill!NamedPerson, Bill!PagePerson,
                         Bill!SaidPerson({"visitor"}), Bill!SaidPerson({"bot"})>>)
    BY <1>1, <1>3 DEF CheckMeans
  <2>3. Bill!InfoPerson = IF Bill!PagePerson # None THEN "page"
                          ELSE IF Bill!NamedPerson # None THEN "message"
                          ELSE Bill!SaidPerson({"visitor"})
    BY PersonsAreNamed
  <2>4. v4["verify"].person = IF Bill!NamedPerson # None THEN Bill!NamedPerson
                              ELSE IF Bill!PagePerson # None THEN Bill!PagePerson
                              ELSE IF Bill!SaidPerson({"visitor"}) # None
                                     THEN Bill!SaidPerson({"visitor"})
                              ELSE Bill!SaidPerson({"bot"})
    BY <2>2, FirstOfFour
  <2> QED BY <1>2, <1>3, <2>1, <2>3, <2>4
<1>4. ASSUME v4["info"] # None, v4["verify"] # None, v1.page.type # "bill",
             v1.message.bill # "long", v4["info"].bill # "title",
             \A h \in Bill!History : v1.said[h].by = "bot" => v1.said[h].bill = "no"
      PROVE  v4["info"].bill = v4["verify"].bill
  <2>1. v1.message.bill \in {"no", "short"}
    BY <1>4, MessageType
  <2>2. \/ v4["info"].bill = "message" /\ v1.message.bill = "short"
        \/ v4["info"].bill = Bill!SaidBill({"visitor"}) /\ v1.message.bill = "no"
    BY <1>1, <1>4, <2>1 DEF InfoMeans
  <2>3. v4["info"].bill # None
    BY <1>1, <1>4, Names DEF Bill!Targets
  <2>4. Bill!SaidBill({"visitor", "bot"}) = Bill!SaidBill({"visitor"})
    BY <1>4, SaidBillIs DEF Bill!History
  <2>5. /\ v1.message.bill # "no" => v4["verify"].bill = "message"
        /\ v1.message.bill = "no" /\ Bill!SaidBill({"visitor"}) # None =>
             v4["verify"].bill = Bill!SaidBill({"visitor"})
    BY <1>1, <1>4, <2>4 DEF CheckMeans
  <2> QED BY <2>2, <2>3, <2>5
<1>5. Bill!OneSubjectPerMessage
  BY <1>3, <1>4 DEF Bill!OneSubjectPerMessage
<1>6. ASSUME v4["info"] # None, NEW h \in Bill!History,
             h \in {v4["info"].bill, v4["info"].person}
      PROVE  v1.said[h].by = "visitor"
  <2>1. h # None /\ h \in {"newer", "older"}
    BY Names DEF Bill!History, Bill!Bills
  <2>2. /\ Bill!SaidBill({"visitor"}) = h => v1.said[h].by = "visitor"
        /\ Bill!SaidPerson({"visitor"}) = h => v1.said[h].by = "visitor"
    BY <2>1, SaidBillIs, SaidPersonIs
  <2>3. CASE h = v4["info"].bill
    BY <1>1, <1>6, <2>1, <2>2, <2>3 DEF InfoMeans
  <2>4. CASE h = v4["info"].person
    BY <1>1, <1>6, <2>1, <2>2, <2>4, PersonsAreNamed DEF InfoMeans
  <2> QED BY <1>6, <2>3, <2>4
<1>7. Bill!BotNamesNothing
  BY <1>6 DEF Bill!BotNamesNothing
<1> QED BY <1>5, <1>7

-----------------------------------------------------------------------------
(* The vote of a legislator: votes is v1, asked v2, alone v3 and found v4. *)

\* What is found, once it was looked for.
VoteInv ==
  /\ Vote!TypeOK
  /\ v4 # Pending =>
       IF Vote!Matches = {} THEN v4 = None ELSE v4 \in Vote!Best(Vote!Matches)

(* What is compared of two votes is numbers.                               *)
LEMMA VotesHaveRanks ==
  ASSUME Vote!Parameters, v1 \in Records, NEW v \in Vote!All
  PROVE  /\ v \in Nat \X Nat /\ v[1] \in Nat /\ v[2] \in Nat
         /\ Vote!Rank(v) \in Nat /\ v1[v[1]].date \in Nat
<1>1. v1 \in Seq(Vote!RollCalls)
  BY DEF Vote!Parameters
<1>2. PICK i \in DOMAIN v1 : \E j \in DOMAIN v1[i].records : v = <<i, j>>
  BY DEF Vote!All
<1>3. PICK j \in DOMAIN v1[i].records : v = <<i, j>>
  BY <1>2
<1>4. v1[i] \in Vote!RollCalls /\ i \in Nat
  BY <1>1
<1>5. v1[i].records \in Seq(Vote!Recorded) /\ v1[i].date \in Nat /\ v1[i].kind \in Vote!Kinds
  BY <1>4 DEF Vote!RollCalls
<1>6. j \in Nat
  BY <1>5
<1>7. Vote!Rank(v) \in Nat
  BY <1>3, <1>5 DEF Vote!Rank, Vote!Kinds
<1> QED BY <1>3, <1>4, <1>5, <1>6, <1>7

\* There are finitely many votes to choose from.
LEMMA VotesAreFinite ==
  ASSUME Vote!Parameters, v1 \in Records
  PROVE  IsFiniteSet(Vote!All)
<1>1. v1 \in Seq(Vote!RollCalls)
  BY DEF Vote!Parameters
<1> DEFINE n == Len(v1)
           Of(i) == {<<i, j>> : j \in DOMAIN v1[i].records}
<1>2. n \in Nat /\ DOMAIN v1 = 1 .. n
  BY <1>1
<1>3. ASSUME NEW i \in 1 .. n PROVE IsFiniteSet(Of(i))
  <2>1. v1[i].records \in Seq(Vote!Recorded)
    <3>1. v1[i] \in Vote!RollCalls
      BY <1>1, <1>2
    <3> QED BY <3>1 DEF Vote!RollCalls
  <2> DEFINE m == Len(v1[i].records)
             f == [j \in 1 .. m |-> <<i, j>>]
  <2>2. DOMAIN v1[i].records = 1 .. m /\ m \in Nat
    BY <2>1
  <2>3. f \in Surjection(1 .. m, Of(i))
    BY <2>2 DEF Surjection
  <2>4. IsFiniteSet(1 .. m)
    <3> HIDE DEF m
    <3> QED BY <2>2, FS_Interval
  <2> HIDE DEF f, m, Of
  <2> QED BY <2>3, <2>4, FS_Surjection
<1>4. IsFiniteSet({Of(i) : i \in 1 .. n})
  <2> DEFINE f == [i \in 1 .. n |-> Of(i)]
  <2>1. f \in Surjection(1 .. n, {Of(i) : i \in 1 .. n})
    <3> HIDE DEF Of, n
    <3> QED BY DEF Surjection
  <2>2. IsFiniteSet(1 .. n)
    BY <1>2, FS_Interval
  <2> HIDE DEF f, Of, n
  <2> QED BY <2>1, <2>2, FS_Surjection
<1>5. Vote!All = UNION {Of(i) : i \in 1 .. n}
  BY <1>2 DEF Vote!All
<1> HIDE DEF Of, n
<1> QED BY <1>3, <1>4, <1>5, FS_UNION

(* The order of the votes of one search puts one of them first.            *)
LEMMA BestExists ==
  ASSUME Vote!Parameters, v1 \in Records, NEW S, S \subseteq Vote!All, S # {}
  PROVE  Vote!Best(S) # {}
<1> DEFINE Ahead(v, w) == /\ ~Vote!Better(w, v)
                          /\ Vote!Better(v, w) \/ Vote!Before(v, w)
           R == {p \in S \X S : Ahead(p[1], p[2])}
<1>1. IsFiniteSet(S)
  BY VotesAreFinite, FS_Subset
<1>2. ASSUME NEW x \in S, NEW y \in S, x # y PROVE Ahead(x, y) \/ Ahead(y, x)
  <2>1. x[1] # y[1] \/ x[2] # y[2]
    BY <1>2, VotesHaveRanks
  <2> QED BY <2>1, VotesHaveRanks DEF Vote!Better, Vote!Before
<1>3. ASSUME NEW x \in S, NEW y \in S, NEW z \in S, Ahead(x, y), Ahead(y, z)
      PROVE  Ahead(x, z)
  BY <1>3, VotesHaveRanks DEF Vote!Better, Vote!Before
<1>4. \A x, y \in S : <<x, y>> \in R <=> Ahead(x, y)
  <2> HIDE DEF Ahead
  <2> QED OBVIOUS
<1>5. \E x \in S : \A y \in S \ {x} : <<x, y>> \in R
  <2> HIDE DEF Ahead, R
  <2> QED BY <1>1, <1>2, <1>3, <1>4, FirstInOrder
<1>6. \E x \in S : \A y \in S \ {x} : Ahead(x, y)
  <2> HIDE DEF Ahead, R
  <2> QED BY <1>4, <1>5
<1> QED BY <1>6 DEF Vote!Best

(* The votes that match are those of the bill and the question.           *)
LEMMA VotesStay ==
  ASSUME UNCHANGED <<v1, v2, v3>>
  PROVE  Vote!Matches' = Vote!Matches /\ Vote!Best(Vote!Matches)' = Vote!Best(Vote!Matches)
<1>1. v1' = v1 /\ v2' = v2 /\ v3' = v3
  OBVIOUS
<1>2. Vote!Matches' = Vote!Matches
  BY <1>1 DEF Vote!Matches, Vote!All, Vote!Terms, Vote!Words, Vote!Record
<1> QED BY <1>1, <1>2 DEF Vote!Best, Vote!Better, Vote!Before, Vote!Rank

(* The search is one step: whoever has a vote is in it, under his last name*)
(* at least, and the first of the best is found.                           *)
LEMMA VoteIsFound ==
  ASSUME Vote!Parameters, VoteInv, Vote!Find
  PROVE  VoteInv'
<1> USE DEF VoteInv, Vote!TypeOK
<1>1. UNCHANGED <<v1, v2, v3>>
  BY DEF Vote!Find
<1>2. Vote!Matches' = Vote!Matches /\ Vote!Best(Vote!Matches)' = Vote!Best(Vote!Matches)
  BY <1>1, VotesStay
<1>3. CASE Vote!Matches = {}
  BY <1>1, <1>2, <1>3 DEF Vote!Find
<1>4. CASE Vote!Matches # {}
  <2>1. Vote!Best(Vote!Matches) # {} /\ Vote!Matches \subseteq Vote!All
    BY <1>4, BestExists DEF Vote!Matches
  <2>2. v4' \in Vote!Best(Vote!Matches)
    BY <1>4, <2>1 DEF Vote!Find
  <2>3. v4' \in Nat \X Nat
    BY <2>1, <2>2, VotesHaveRanks DEF Vote!Best
  <2> QED BY <1>1, <1>2, <1>4, <2>2, <2>3
<1> QED BY <1>3, <1>4

\* Every step keeps it.
LEMMA VoteInvStep ==
  ASSUME Vote!Parameters, VoteInv, [Vote!Next]_(Vote!vars)
  PROVE  VoteInv'
<1>1. CASE Vote!Next
  BY <1>1, VoteIsFound DEF Vote!Next
<1>2. CASE UNCHANGED Vote!vars
  <2>1. Vote!Matches' = Vote!Matches /\ Vote!Best(Vote!Matches)' = Vote!Best(Vote!Matches)
    BY <1>2, VotesStay DEF Vote!vars
  <2> QED BY <1>2, <2>1 DEF VoteInv, Vote!TypeOK, Vote!vars
<1> QED BY <1>1, <1>2

\* With it, what is found weighs most.
LEMMA FoundIsBest ==
  ASSUME Vote!Parameters, VoteInv
  PROVE  Vote!VoterIsFound
<1> USE DEF VoteInv, Vote!TypeOK
<1>1. Vote!Own \subseteq Vote!Matches
  <2>1. \A v \in Vote!All : v1[v[1]].records[v[2]].person = v2 => v2.last \in Vote!Words(Vote!Record(v))
    BY DEF Vote!Words, Vote!Record
  <2>2. v2.last \in Vote!Terms
    BY DEF Vote!Terms
  <2> QED BY <2>1, <2>2 DEF Vote!Own, Vote!Matches, Vote!Record
<1>2. ASSUME v4 # Pending, Vote!Own # {}
      PROVE  /\ v4 # None
             /\ \A v \in Vote!Own : Vote!Rank(v) <= Vote!Rank(v4)
             /\ \A v \in Vote!Own : Vote!Rank(v) = Vote!Rank(v4) =>
                  v1[v[1]].date <= v1[v4[1]].date
  <2>1. v4 \in Vote!Matches /\ \A w \in Vote!Matches \ {v4} : ~Vote!Better(w, v4)
    BY <1>1, <1>2 DEF Vote!Best
  <2>2. v4 \in Vote!All /\ Vote!Own \subseteq Vote!All
    BY <2>1 DEF Vote!Matches, Vote!Own
  <2>3. v4 # None
    BY <2>2, VotesHaveRanks DEF Vote!Parameters
  <2>4. ASSUME NEW v \in Vote!Own, v # v4
        PROVE  /\ Vote!Rank(v) <= Vote!Rank(v4)
               /\ Vote!Rank(v) = Vote!Rank(v4) => v1[v[1]].date <= v1[v4[1]].date
    <3>1. ~Vote!Better(v, v4)
      BY <1>1, <2>1, <2>4
    <3>2. /\ Vote!Rank(v) \in Nat /\ Vote!Rank(v4) \in Nat
          /\ v1[v[1]].date \in Nat /\ v1[v4[1]].date \in Nat
      BY <2>2, <2>4, VotesHaveRanks
    <3> QED BY <3>1, <3>2 DEF Vote!Better
  <2>5. Vote!Rank(v4) \in Nat /\ v1[v4[1]].date \in Nat
    BY <2>2, VotesHaveRanks
  <2> QED BY <2>3, <2>4, <2>5
<1> QED BY <1>2 DEF Vote!VoterIsFound

-----------------------------------------------------------------------------
(* The parts together                                                      *)

ButtonInv  == part = "button" => CacheInv
BillInv    == part = "bill" => SubjectInv
RequestInv == part = "request" => LookupInv
SearchInv  == part = "vote" => VoteInv
TurnInv    == part = "turn" => RInv
ContextInv == part = "context" => RetrievalInv /\ ContextParts

(* A step of the whole is one of the part, which stays the part it is.     *)
LEMMA StepOfPart ==
  ASSUME [Next]_vars
  PROVE  /\ part' = part
         /\ part = "button" => [Button!Next]_(Button!vars)
         /\ part = "bill" => [Bill!Next]_(Bill!vars)
         /\ part = "request" => [Request!Next]_(Request!vars)
         /\ part = "vote" => [Vote!Next]_(Vote!vars)
         /\ part = "turn" => [Turn!Next]_(Turn!vars)
         /\ part = "context" => [Context!Next]_(Context!vars)
<1>1. CASE Next
  BY <1>1 DEF Next, ButtonStep, BillStep, RequestStep, VoteStep, TurnStep, ContextStep
<1>2. CASE UNCHANGED vars
  BY <1>2 DEF vars, Button!vars, Bill!vars, Request!vars, Vote!vars, Turn!vars, Context!vars
<1> QED BY <1>1, <1>2

\* The invariants of the parts are invariants of the whole.
LEMMA RequestInvariant == Spec => []RequestInv
<1>1. Init => RequestInv
  BY QuestionsAssumption, LookupInit DEF Init, RequestInv, Promise!Parameters
<1>2. RequestInv /\ [Next]_vars => RequestInv'
  BY QuestionsAssumption, StepOfPart, LookupNext DEF RequestInv, Promise!Parameters
<1> QED BY <1>1, <1>2, PTL DEF Spec

LEMMA ButtonInvariant == Spec => []ButtonInv
<1>1. Init => ButtonInv
  BY QuestionsAssumption, CacheInit DEF Init, ButtonInv
<1>2. ButtonInv /\ [Next]_vars => ButtonInv'
  BY QuestionsAssumption, StepOfPart, CacheNext DEF ButtonInv
<1> QED BY <1>1, <1>2, PTL DEF Spec

LEMMA ContextInvariant == Spec => []ContextInv
<1>1. Init => ContextInv
  BY QuestionsAssumption, RetrievalInit, PartsInit DEF Init, ContextInv
<1>2. ContextInv /\ [Next]_vars => ContextInv'
  BY QuestionsAssumption, StepOfPart, RetrievalNext, PartsNext DEF ContextInv
<1> QED BY <1>1, <1>2, PTL DEF Spec

LEMMA BillInvariant == Spec => []BillInv
<1>1. Init => BillInv
  BY QuestionsAssumption, SubjectInit DEF Init, BillInv
<1>2. BillInv /\ [Next]_vars => BillInv'
  BY QuestionsAssumption, StepOfPart, SubjectNext DEF BillInv
<1> QED BY <1>1, <1>2, PTL DEF Spec

LEMMA SearchInvariant == Spec => []SearchInv
<1>1. Init => SearchInv
  BY DEF Init, SearchInv, VoteInv, Vote!Init, Vote!TypeOK
<1>2. SearchInv /\ [Next]_vars => SearchInv'
  BY QuestionsAssumption, StepOfPart, VoteInvStep DEF SearchInv
<1> QED BY <1>1, <1>2, PTL DEF Spec

LEMMA TurnInvariant == Spec => []TurnInv
<1>1. Init => TurnInv
  BY QuestionsAssumption, TurnInvInit DEF Init, TurnInv
<1>2. TurnInv /\ [Next]_vars => TurnInv'
  BY QuestionsAssumption, StepOfPart, TurnInvStep DEF TurnInv
<1> QED BY <1>1, <1>2, PTL DEF Spec

OneOfTheParts == part \in {"button", "bill", "request", "vote", "turn", "context"}

\* A behaviour is of one of the parts.
LEMMA PartInvariant == Spec => []OneOfTheParts
<1>1. Init => OneOfTheParts
  BY DEF Init, OneOfTheParts
<1>2. OneOfTheParts /\ [Next]_vars => OneOfTheParts'
  BY StepOfPart DEF OneOfTheParts
<1> QED BY <1>1, <1>2, PTL DEF Spec

(* Each part keeps its types, for any values of the constants.             *)
THEOREM TypeCorrect == Spec => []TypesOK
<1>1. /\ ButtonInv /\ BillInv /\ RequestInv /\ SearchInv /\ TurnInv /\ ContextInv
      /\ OneOfTheParts
      => TypesOK
  BY DEF ButtonInv, CacheInv, BillInv, SubjectInv, RequestInv, LookupInv, SearchInv,
         VoteInv, TurnInv, RInv, ContextInv, RetrievalInv, OneOfTheParts, TypesOK
<1> QED BY <1>1, ButtonInvariant, BillInvariant, RequestInvariant, SearchInvariant,
           TurnInvariant, ContextInvariant, PartInvariant, PTL

(* ButtonCache, for any number of workers, versions, invalidations under    *)
(* way and requests, with a Redis that may fail at any read, save or        *)
(* delete.  On the legacy index an entry is of an older text only while the *)
(* invalidation for it is on its way, or if the last one went by without    *)
(* clearing it, or if the text changed while it was made; on the canonical  *)
(* index what is served is of the version the request learned, unless that  *)
(* changed while it was made.                                               *)
THEOREM SavedAnswersTheorem == Spec => []SavedAnswersAreFresh
<1>1. ButtonInv => SavedAnswersAreFresh
  BY QuestionsAssumption, CacheIsCurrent DEF ButtonInv, SavedAnswersAreFresh, CacheInv
<1> QED BY <1>1, ButtonInvariant, PTL

(* _fetch_live_bill_info and _verify_legislator_votes: the lookups that run*)
(* side by side are about one bill and one person, and what only the bot   *)
(* said names neither, for any messages and any conversation before them.  *)
THEOREM OneSubjectTheorem == Spec => []OneSubject
<1>1. BillInv => OneSubject
  BY QuestionsAssumption, SubjectIsOne DEF BillInv, OneSubject
<1> QED BY <1>1, BillInvariant, PTL

(* retrieve: a bill of the canonical-id index is answered from one version *)
(* of its text, the bill a question names is not guessed, and what changed *)
(* is told or said to be unavailable, for any index, any questions and any *)
(* limits on what is read.                                                 *)
THEOREM ContextTheorem == Spec => []ContextIsOfItsBill
<1>1. ContextInv => ContextIsOfItsBill
  BY QuestionsAssumption, PartsAreOfItsBill DEF ContextInv, ContextIsOfItsBill
<1> QED BY <1>1, ContextInvariant, PTL

(* find_legislator_in_votes: whoever voted is found, with the vote of his  *)
(* or a namesake that weighs most, for any people and any roll calls.      *)
THEOREM VoterTheorem == Spec => []VoterIsFound
<1>1. SearchInv => VoterIsFound
  BY QuestionsAssumption, FoundIsBest DEF SearchInv, VoterIsFound
<1> QED BY <1>1, SearchInvariant, PTL

(* complete and process_message: what a response of /chat reports as used  *)
(* is true of the answer in it, for any number of rounds and of retries.   *)
THEOREM ReportTheorem == Spec => []ReportIsTrue
<1>1. TurnInv => ReportIsTrue
  BY InvImpliesReport DEF TurnInv, ReportIsTrue
<1> QED BY <1>1, TurnInvariant, PTL

(* get_bill_info's finally and _release: no request to OpenStates, and no  *)
(* query of the index, runs once what it was made for is over, for any     *)
(* number of sessions, any questions and any index.                        *)
THEOREM NothingOutlivesTheorem == Spec => []NothingOutlives
<1>1. RequestInv => (part = "request" => Request!NoRequestOutlivesLookup)
  BY DEF RequestInv, LookupInv
<1>2. ContextInv => (part = "context" => Context!NoQueryOutlivesRetrieval)
  BY DEF ContextInv, RetrievalInv, QInv, Context!NoQueryOutlivesRetrieval
<1>3. RequestInv /\ ContextInv => NothingOutlives
  BY <1>1, <1>2 DEF NothingOutlives
<1> QED BY <1>3, RequestInvariant, ContextInvariant, PTL

(* get_bill_info implements NewestBill: "the newest older session that has *)
(* the bill still wins", for any number of them.                           *)
THEOREM NewestSessionTheorem == Spec => NewestSessionWins
<1> DEFINE view == <<IF part = "request" THEN v1 ELSE {},
                     IF part = "request" THEN Request!answer ELSE Pending>>
<1>1. Init => Promise!Init
  BY DEF Init, Request!Init, Request!answer, Promise!Init, Promise!Sessions,
         Request!Sessions
<1>2. RequestInv /\ [Next]_vars => [Promise!Next]_view
  <2> SUFFICES ASSUME RequestInv, [Next]_vars
               PROVE  [Promise!Next]_view
    OBVIOUS
  <2>1. CASE part = "request"
    <3>1. [Request!Promise!Next]_<<v1, Request!answer>>
      BY <2>1, QuestionsAssumption, StepOfPart, StepIsPromised
         DEF RequestInv, Promise!Parameters
    <3> QED BY <2>1, <3>1, StepOfPart
            DEF Promise!Next, Request!Promise!Next, Promise!Answers,
                Request!Promise!Answers,
                Promise!Newest, Request!Promise!Newest
  <2>2. CASE part # "request"
    BY <2>2, StepOfPart
  <2> QED BY <2>1, <2>2
<1> QED BY <1>1, <1>2, RequestInvariant, PTL DEF Spec, NewestSessionWins, Promise!Spec
=============================================================================
