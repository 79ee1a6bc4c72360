---------------------------- MODULE EmbeddingCache ----------------------------
(***************************************************************************)
(* The vectors of queries kept by services/embeddings.py: one message makes*)
(* several retrieval queries over the same text, and other visitors may ask*)
(* it too, so embed_query keeps the asyncio task per text, running or      *)
(* finished, in order of use.  Callers share a task behind asyncio.shield. *)
(* A request is one call of embed() with its three attempts.               *)
(***************************************************************************)
EXTENDS Naturals, Sequences, FiniteSets, Subsequences

CONSTANTS
  Callers,   \* coroutines that embed a query
  Texts,     \* query texts
  Requests,  \* identities of embed() tasks
  Kept,      \* QUERY_CACHE_MAX
  None       \* a caller that awaits nothing

Parameters == Kept \in Nat \ {0} /\ IsFiniteSet(Requests) /\ None \notin Requests

VARIABLES
  vectors,  \* _query_vectors: [text, request] in order of use
  state,    \* request -> what became of its task
  settled,  \* requests whose done callback has run
  awaits,   \* caller -> the request he awaits
  peak,     \* history: the most requests that ran at once
  spoiled   \* history: a caller was given a request that had failed already

vars == <<vectors, state, settled, awaits, peak, spoiled>>

Running(r) == state[r] = "running"
Over(r)    == state[r] \in {"done", "failed"}
Entries    == [text : Texts, request : Requests]
InUse      == {vectors[i].request : i \in DOMAIN vectors}
                \cup {awaits[c] : c \in Callers} \cup {r \in Requests : Running(r)}

TypeOK ==
  /\ vectors \in Seq(Entries)
  /\ state \in [Requests -> {"unused", "running", "done", "failed"}]
  /\ settled \subseteq Requests
  /\ awaits \in [Callers -> Requests \cup {None}]
  /\ peak \in 0 .. Cardinality(Requests)
  /\ spoiled \in BOOLEAN

Init ==
  /\ vectors = <<>>
  /\ state = [r \in Requests |-> "unused"]
  /\ settled = {}
  /\ awaits = [c \in Callers |-> None]
  /\ peak = 0
  /\ spoiled = FALSE

-----------------------------------------------------------------------------
Without(s, e) == Chosen(s, {i \in DOMAIN s : s[i] # e})

\* Slip: the oldest entries go, whether or not their request still runs.
TrimmedBlindly(s, ended) ==
  SubSeq(s, 1 + (IF Len(s) > Kept THEN Len(s) - Kept ELSE 0), Len(s))

\* _trim: from the oldest on, finished entries go until the bound is met.
Trimmed(s, ended) ==
  LET over == {j \in DOMAIN s : s[j].request \in ended}
      gone == {j \in over : Cardinality({k \in over : k < j}) < Len(s) - Kept}
  IN Chosen(s, DOMAIN s \ gone)

\* embed_query: an entry whose request failed is dropped, not handed out.
Usable(e) == state[e.request] # "failed"

\* embed_query up to the await: join the request of the text, or start one.
\* A request that nothing refers to any more may be used as a new identity.
Ask(c, t) ==
  /\ awaits[c] = None
  /\ LET mine == {vectors[i] : i \in {j \in DOMAIN vectors :
                                        vectors[j].text = t}}
         live == Chosen(vectors, {i \in DOMAIN vectors :
                                   vectors[i].text # t \/ Usable(vectors[i])})
     IN \/ \E e \in mine :
             /\ Usable(e)
             /\ vectors' = Append(Without(vectors, e), e)
             /\ awaits' = [awaits EXCEPT ![c] = e.request]
             /\ spoiled' = (spoiled \/ state[e.request] = "failed")
             /\ UNCHANGED <<state, settled, peak>>
        \/ /\ \A e \in mine : ~Usable(e)
           /\ \E r \in Requests \ InUse :
                LET ended == {q \in Requests \ {r} : Over(q)}
                IN /\ vectors' = Trimmed(Append(live,
                                           [text |-> t, request |-> r]), ended)
                   /\ state' = [state EXCEPT ![r] = "running"]
                   /\ settled' = settled \ {r}
                   /\ awaits' = [awaits EXCEPT ![c] = r]
                   /\ LET now == 1 + Cardinality({q \in Requests : Running(q)})
                      IN peak' = IF now > peak THEN now ELSE peak
           /\ UNCHANGED spoiled

\* The task of embed() ends; its callbacks are scheduled.
RequestEnds(r) ==
  /\ Running(r)
  /\ \E end \in {"done", "failed"} : state' = [state EXCEPT ![r] = end]
  /\ UNCHANGED <<vectors, settled, awaits, peak, spoiled>>

\* _settled: a failed request leaves the cache, if it is still in it.
Settled(r) ==
  /\ Over(r)
  /\ r \notin settled
  /\ settled' = settled \cup {r}
  /\ vectors' = IF state[r] = "failed"
                  THEN Chosen(vectors, {i \in DOMAIN vectors :
                                          vectors[i].request # r})
                  ELSE vectors
  /\ UNCHANGED <<state, awaits, peak, spoiled>>

\* The shield wakes the caller: its callback comes after _settled.
Answered(c) ==
  /\ awaits[c] # None
  /\ awaits[c] \in settled
  /\ awaits' = [awaits EXCEPT ![c] = None]
  /\ UNCHANGED <<vectors, state, settled, peak, spoiled>>

\* The caller's time budget ran out, or his visitor left.
GivesUp(c) ==
  /\ awaits[c] # None
  /\ awaits' = [awaits EXCEPT ![c] = None]
  /\ UNCHANGED <<vectors, state, settled, peak, spoiled>>

Next ==
  \/ \E c \in Callers : (\E t \in Texts : Ask(c, t)) \/ Answered(c) \/ GivesUp(c)
  \/ \E r \in Requests : RequestEnds(r) \/ Settled(r)

Spec == Init /\ [][Next]_vars

-----------------------------------------------------------------------------
(* embed_query and _trim: however many texts are embedded at once, and     *)
(* whoever gives up, a text has one request under way, the one its callers *)
(* share, and the next caller will find it.                                *)
OneRequestPerText ==
  \A r \in Requests : Running(r) =>
    \E i \in DOMAIN vectors :
      /\ vectors[i].request = r
      /\ \A j \in DOMAIN vectors :
           j # i => vectors[j].text # vectors[i].text

(* embed_query and _settled: nobody is given a request that failed before  *)
(* he asked, although its callback may not have run; and what is kept      *)
(* exceeds the bound only by requests that ran at once.                    *)
FailuresAreNotKept ==
  /\ ~spoiled
  /\ Len(vectors) <= (IF peak > Kept THEN peak ELSE Kept)
  /\ \A r \in settled : state[r] = "failed" => r \notin
       {vectors[i].request : i \in DOMAIN vectors}
=============================================================================
