------------------------------- MODULE Retrieval -------------------------------
(***************************************************************************)
(* RetrievalService of core/retrieval.py: which passages of the index a    *)
(* question is answered from.  On the canonical-id index a bill is pinned  *)
(* by its id and one version of its text is read; on the legacy index it is*)
(* pinned by its CMS id or slug.  Queries that need no other's result run  *)
(* together; a failure ends the retrieval, and the queries with it.        *)
(*                                                                         *)
(* The index is a sequence in the order of similarity, the same for every  *)
(* query; `apt` chunks are those a post-filter of the code puts first.     *)
(***************************************************************************)
EXTENDS Integers, FiniteSets, Subsequences

CONSTANTS
  Questions,   \* the messages, with their page
  Indexes,     \* the sequences of chunks to search
  MaxChunks,   \* max_retrieval_chunks
  LookupK,     \* BILL_LOOKUP_TOP_K
  MaxVersion,  \* bound: how many versions the bill gets
  Subject,     \* the bill, legislator or organization of the page
  None

Versions == 1 .. MaxVersion
AllVersions == Versions \cup {0}  \* 0: passages that are of no version

Parameters ==
  /\ MaxVersion \in Nat \ {0} /\ None \notin AllVersions
  /\ MaxChunks \in Nat /\ LookupK \in Nat
  /\ Subject # None /\ None \notin {"unavailable", "none", "read"}
  /\ \A indexed \in Indexes : IsList(indexed)
  /\ \A question \in Questions : question.named = None \/ question.named \subseteq Versions

\* The queries in the order their answers are used; those after the first few
\* are sent when they are needed, the others together at the start.
Waits == <<"text", "summary", "bill orgs", "orgs", "person votes", "votes", "changes",
           "fallback", "organization", "its chunks", "scoped", "general">>
Queries == {Waits[i] : i \in DOMAIN Waits}
Sent == {"person votes", "votes", "fallback", "its chunks"}

VARIABLES
  q,         \* the question
  index,
  newest,    \* the bill's newest version, in api-v3 ...
  archived,  \* ... and those whose text is archived
  cached,    \* get_versions: the current version it remembers (0: nothing)
  at,        \* the query awaited, or the stage
  subject,   \* what the filters pin: Subject, another bill, or None
  scope,     \* _version_scope: the current version, and the versions to read
  task,      \* query -> its state
  changes,   \* the versions whose diff was read, or None: unavailable
  result     \* what is returned: [chunks, note], or None

vars == <<q, index, newest, archived, cached, at, subject, scope, task, changes, result>>
world == <<q, index, newest, archived>>

TypeOK ==
  /\ q \in Questions /\ index \in Indexes
  /\ newest \in Versions /\ archived \subseteq Versions
  /\ cached \in AllVersions \cup {None}
  /\ at \in Queries \cup {"asked", "starting", "releasing", "over"}
  /\ scope.current \in Versions \cup {None} /\ scope.versions \subseteq AllVersions
  /\ task \in [Queries -> {"unused", "running", "answered", "failed", "cancelled"}]
  /\ changes = None \/ changes \subseteq Versions
  /\ result = None \/ DOMAIN result = {"chunks", "note"}

Init ==
  /\ q \in Questions /\ index \in Indexes
  /\ newest = 1 /\ archived \in {{}, {1}}
  /\ cached = 0
  /\ at = "asked"
  /\ subject = None
  /\ scope = [current |-> None, versions |-> AllVersions]
  /\ task = [k \in Queries |-> "unused"]
  /\ changes = {}
  /\ result = None

-----------------------------------------------------------------------------
Min2(a, b) == IF a < b THEN a ELSE b
Max2(a, b) == IF a < b THEN b ELSE a
First(k, s) == SubSeq(s, 1, Min2(k, Len(s)))
Near(s) == Where(s, LAMBDA c : c.near)
Foremost(s) == Where(s, LAMBDA c : c.apt) \o Where(s, LAMBDA c : ~c.apt)

\* vector_store.query: the best k of the chunks that pass the filter.
Ask(k, Filter(_)) == First(k, Where(index, Filter))

\* A general page that names a bill is treated as the bill's.
Kind == IF q.page = "general" /\ subject # None THEN "bill" ELSE q.page

\* _build_filters; the slug of a bill of the legacy index finds summaries only.
Pinned(c) ==
  \/ subject = None
  \/ /\ c.of = subject
     /\ Kind = "bill" /\ ~q.canonical /\ ~q.pin => c.type = "bill"
InScope(c) == c.type = "bill-text" => c.version \in scope.versions

\* _deduplicate: the same words and, on the canonical-id index, of one document.
Same(c, d) == c.words = d.words /\ (q.canonical => c.of = d.of /\ c.version = d.version)
Distinct(s) == Chosen(s, {n \in DOMAIN s : \A j \in 1 .. n - 1 : ~Same(s[j], s[n])})

-----------------------------------------------------------------------------
\* The answers, each cut as the code cuts it.
Text == Near(Ask(MaxChunks, LAMBDA c : Pinned(c) /\ InScope(c) /\ c.type = "bill-text"))
Slots == MaxChunks - Len(Text)
Summary ==
  Near(First(2 * Slots, Ask(2 * MaxChunks, LAMBDA c : Pinned(c) /\ c.type = "bill")))
BillOrgs == Foremost(Near(Ask(3, LAMBDA c : Pinned(c) /\ c.type = "bill")))
Orgs ==
  LET room == Max2(2, MaxChunks - Len(Text) - Len(Summary) - Len(BillOrgs))
  IN Foremost(Near(First(2 * room,
       Ask(2 * Max2(2, MaxChunks), LAMBDA c : c.type = "organization"))))
PersonVotes == Where(Ask(5, LAMBDA c : c.type = "legislator-votes"), LAMBDA c : c.apt)
Votes ==
  LET found == Near(Ask(Max2(5, MaxChunks), LAMBDA c :
                          c.type = "bill-votes" /\ (subject # None => c.of = subject)))
  IN IF q.follows = "no" THEN found ELSE Foremost(found)

\* What changed: the stored diffs, or on the legacy index the changelog.  The
\* chunks a diff is split into, of the same version, count as one.
Diff(v) == [type |-> "diff", of |-> subject, version |-> v, words |-> "diff",
            near |-> TRUE, apt |-> TRUE]
Changes ==
  IF q.canonical
    THEN IF changes = None THEN <<>>
         ELSE Chosen([v \in Versions |-> Diff(v)], changes)
    ELSE Near(Ask(3, LAMBDA c : c.type = "changelog" /\ c.of = subject))

Used(k, s) == IF task[k] = "answered" THEN s ELSE <<>>

\* What the question asks about comes first.
Combined ==
  LET text == Used("text", Text)
      summary == IF Slots > 0 THEN Used("summary", Summary) ELSE <<>>
      orgs == Used("orgs", Orgs)
      billOrgs == Used("bill orgs", BillOrgs)
      votes == Used("votes", Votes)
      ofPerson == Used("person votes", PersonVotes)
      what == Used("changes", Changes)
  IN IF what # <<>>                       THEN what \o text \o summary \o votes \o orgs
     ELSE IF votes \o ofPerson # <<>>     THEN ofPerson \o votes \o text \o summary \o orgs
     ELSE IF billOrgs \o orgs # <<>>      THEN billOrgs \o orgs \o summary \o text \o votes
     ELSE text \o summary \o votes \o orgs

\* Slip: the last resort is any passage of the bill.
FallbackAny == Near(Ask(2 * MaxChunks, Pinned))
\* Nothing of the types asked for: any type, of the same versions.
Fallback == Near(Ask(2 * MaxChunks, LAMBDA c : Pinned(c) /\ InScope(c)))

\* An organization: its passages, then those of the document of the best one.
OrgPinned(c) == Pinned(c) \/ (Kind = "legislator" /\ q.pin)
Organization ==
  Near(Ask(MaxChunks, LAMBDA c : OrgPinned(c) /\ c.type = "organization"))
ItsChunks ==
  Ask(5, LAMBDA c : c.type = "organization" /\ c.of = Organization[1].of)
OrgChunks ==
  Organization \o Where(Used("its chunks", ItsChunks), LAMBDA c :
                    \A i \in DOMAIN Organization : c # Organization[i])
OrgRoom == MaxChunks - Len(OrgChunks)

AsksOrganization == Kind = "organization" \/ (Kind # "bill" /\ q.orgWords)

\* A general page that names a jurisdiction has its bills' text, and no other's.
Scoping == q.scoped /\ Kind = "general" /\ ~AsksOrganization
General == Ask(2 * MaxChunks, LAMBDA c :
             Pinned(c) /\ (Scoping => c.type \notin {"bill-text", "bill-votes"}))
Scoped == Ask(MaxChunks, LAMBDA c : c.type = "bill-text" /\ c.local)

Found ==
  IF Kind = "bill" THEN
    IF Combined # <<>> THEN Distinct(Combined) ELSE Distinct(Used("fallback", Fallback))
  ELSE IF AsksOrganization THEN
    Distinct(OrgChunks \o (IF OrgRoom > 0 THEN Near(First(2 * OrgRoom, General)) ELSE <<>>))
  ELSE Distinct(Near(Used("scoped", Scoped) \o General))

-----------------------------------------------------------------------------
\* api-v3 gets another version, archived or not (yet).
VersionAppears ==
  /\ newest < MaxVersion
  /\ newest' = newest + 1
  /\ archived' \in {archived, archived \cup {newest + 1}}
  /\ UNCHANGED <<q, index, cached, at, subject, scope, task, changes, result>>

\* CACHE_TTL_SECONDS, or FAILURE_TTL_SECONDS.
CacheExpires ==
  /\ cached # 0
  /\ cached' = 0
  /\ UNCHANGED <<world, at, subject, scope, task, changes, result>>

Ends(r) == result' = r /\ at' = "over"

\* _lookup_ocd_bill_context: no guess among several.
NamedBill(bills) == IF Cardinality(bills) = 1 THEN bills ELSE {}

\* The bill a general page's question names, if it is found: by jurisdiction and
\* session on the canonical-id index, by number alone on the legacy one.
NamedBills ==
  LET hits == Ask(LookupK, LAMBDA c : c.of \in q.names /\ c.type = "bill-text")
  IN IF q.canonical THEN NamedBill({hits[i].of : i \in DOMAIN hits}) ELSE q.names

\* retrieve, up to its filters.
Begin ==
  /\ at = "asked"
  /\ LET asksName == q.page = "general" /\ q.names # {}
         pages == IF q.page # "general" /\ (q.pin \/ q.slug) THEN {Subject} ELSE {None}
     IN \/ /\ subject' \in
                IF ~asksName THEN pages
                ELSE IF NamedBills = {} THEN {None}
                ELSE NamedBills \cup (IF q.canonical THEN {} ELSE {None})
           /\ IF q.canonical /\ (q.page = "legislator" \/ (q.page = "bill" /\ ~q.pin))
                THEN Ends([chunks |-> <<>>, note |-> None])
                ELSE at' = "starting" /\ UNCHANGED result
        \/ asksName /\ Ends(None) /\ UNCHANGED subject
  /\ UNCHANGED <<world, cached, scope, task, changes>>

\* current_version: none, while the newest is not archived.
Current == IF newest \in archived THEN newest ELSE None

Starts(set, first) ==
  /\ task' = [k \in Queries |-> IF k \in set THEN "running" ELSE "unused"]
  /\ at' = first

\* _version_scope of a bill, then the queries whose inputs are known.
StartBill ==
  /\ at = "starting" /\ Kind = "bill"
  /\ \E current \in IF cached # 0 THEN {cached} ELSE {Current, None} :
       IF q.canonical
         THEN /\ cached' = current
              /\ scope' = [current |-> current,
                           versions |-> IF q.named # None THEN q.named
                                        ELSE IF current # None THEN {current} ELSE AllVersions]
         ELSE UNCHANGED <<cached, scope>>
  /\ Starts({"text", "summary"}
              \cup (IF "orgs" \in q.asks THEN {"bill orgs", "orgs"} ELSE {})
              \cup (IF "changes" \in q.asks /\ (q.canonical \/ q.pin) THEN {"changes"} ELSE {}),
            "text")
  /\ UNCHANGED <<world, subject, changes, result>>

StartOther ==
  /\ at = "starting" /\ Kind # "bill"
  /\ IF AsksOrganization THEN Starts({"organization", "general"}, "organization")
     ELSE IF Scoping THEN Starts({"scoped", "general"}, "scoped")
     ELSE Starts({"general"}, "general")
  /\ UNCHANGED <<world, cached, subject, scope, changes, result>>

Outcome(k, o) == task[k] = "running" /\ task' = [task EXCEPT ![k] = o]

\* get_diffs, live: of the versions named, or of the current one.
ChangesRead ==
  /\ q.canonical
  /\ Outcome("changes", "answered")
  /\ LET chosen == IF q.named # None THEN q.named \cap archived ELSE {newest} \cap archived
     IN changes' \in {None}
                       \cup SUBSET {v \in chosen : v = 1 \/ v - 1 \in archived}
  /\ UNCHANGED <<world, cached, at, subject, scope, result>>

QueryEnds(k) ==
  /\ k = "changes" => ~q.canonical
  /\ \E o \in {"answered", "failed"} : Outcome(k, o)
  /\ UNCHANGED <<world, cached, at, subject, scope, changes, result>>

\* Whether a query's answer is needed, once those before it are in.
Needed(k) ==
  CASE k = "summary" -> task[k] # "unused" /\ Slots > 0
    [] k = "person votes" -> Kind = "bill" /\ ~q.canonical /\ q.follows = "cached"
    [] k = "votes" -> Kind = "bill" /\ ~q.canonical /\ ("votes" \in q.asks \/ q.follows # "no")
    [] k = "fallback" -> Kind = "bill" /\ Combined = <<>>
    [] k = "its chunks" -> task["organization"] = "answered" /\ Organization # <<>>
    [] k = "general" -> task[k] # "unused" /\ (AsksOrganization => OrgRoom > 0)
    [] OTHER -> task[k] # "unused"

Position(k) == CHOOSE i \in DOMAIN Waits : Waits[i] = k
Later(k) == {i \in DOMAIN Waits : i > Position(k) /\ Needed(Waits[i])}

\* The query awaited is answered: on to the next one that is needed.
Awaited ==
  /\ at \in Queries /\ task[at] = "answered"
  /\ IF Later(at) = {}
       THEN /\ at' = "releasing"
            /\ result' = [chunks |-> First(MaxChunks, Found),
                          note |-> IF task["changes"] # "answered" \/ ~q.canonical THEN None
                                   ELSE IF changes = None THEN "unavailable"
                                   ELSE IF changes = {} THEN "none" ELSE "read"]
            /\ UNCHANGED task
       ELSE LET next == Waits[CHOOSE i \in Later(at) : \A j \in Later(at) : i <= j]
            IN /\ at' = next
               /\ task' = IF next \in Sent THEN [task EXCEPT ![next] = "running"] ELSE task
               /\ UNCHANGED result
  /\ UNCHANGED <<world, cached, subject, scope, changes>>

\* The caller gives up; that a query failed is seen when it is awaited (of
\* _query_together at once), and ends the retrieval like that.
Fails ==
  /\ at \in Queries
  /\ at' = "releasing"
  /\ UNCHANGED <<world, cached, subject, scope, task, changes, result>>

Cancelled(k) ==
  /\ at = "releasing"
  /\ Outcome(k, "cancelled")
  /\ UNCHANGED <<world, cached, at, subject, scope, changes, result>>

\* Slip: cancelled, and not waited for.
ReleasedAtOnce ==
  /\ at = "releasing" /\ at' = "over"
  /\ UNCHANGED <<world, cached, subject, scope, task, changes, result>>
\* _release: the queries nobody waits for any more are cancelled and waited for.
Released ==
  /\ at = "releasing" /\ at' = "over"
  /\ \A k \in Queries : task[k] # "running"
  /\ UNCHANGED <<world, cached, subject, scope, task, changes, result>>

Next ==
  \/ VersionAppears \/ CacheExpires \/ Begin \/ StartBill \/ StartOther
  \/ ChangesRead \/ Awaited \/ Fails \/ Released
  \/ \E k \in Queries : QueryEnds(k) \/ Cancelled(k)

Spec == Init /\ [][Next]_vars

-----------------------------------------------------------------------------
Returned == at = "over" /\ result # None
Shown == {result.chunks[i] : i \in DOMAIN result.chunks}
AboutOneBill == Returned /\ q.canonical /\ Kind = "bill"

(* "One version of the text is in context instead of every version blended *)
(* together" (_version_scope), and "the version scope stays" in the last   *)
(* resort: whatever a bill's question asks, no text of another version, and*)
(* but for organizations nothing of another bill, is in its answer.        *)
OneVersionInContext ==
  AboutOneBill =>
    \A c \in Shown :
      /\ c.type # "organization" => c.of = subject
      /\ c.type = "bill-text" => c.version \in scope.versions

(* _lookup_ocd_bill_context: "when the identifier matches more than one    *)
(* bill, no guess is made", as far as BILL_LOOKUP_TOP_K chunks can tell.   *)
NamedBillIsNotGuessed ==
  Returned /\ q.canonical /\ q.page = "general" /\ subject # None =>
    LET hits == {i \in DOMAIN index : index[i].type = "bill-text" /\ index[i].of \in q.names}
    IN \/ \A i \in hits : index[i].of = subject
       \/ Cardinality({i \in hits : index[i].of = subject}) >= LookupK

(* _live_version_diffs: "so the answer says it cannot show the change      *)
(* instead of guessing": who asks what changed is told that nothing could  *)
(* be read, or has every comparison the note says was read, unless more    *)
(* than MaxChunks were (of comparisons that take one chunk each: a longer  *)
(* one fills several); a page without the bill's id retrieves nothing.     *)
ChangesAreAccountedFor ==
  AboutOneBill /\ "changes" \in q.asks /\ (q.page = "bill" => q.pin) =>
    /\ result.note # None
    /\ result.note = "read" /\ Cardinality(changes) <= MaxChunks =>
         \A v \in changes : \E c \in Shown : c.type = "diff" /\ c.version = v

(* _release: "none outlives the retrieval", however it ends.               *)
NoQueryOutlivesRetrieval ==
  at = "over" => \A k \in Queries : task[k] # "running"
=============================================================================
