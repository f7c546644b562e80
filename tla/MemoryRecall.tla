----------------------------- MODULE MemoryRecall -----------------------------
(***************************************************************************)
(* What the conversation memory keeps, and what it finds again.            *)
(*                                                                         *)
(* Keeping: an exchange is scored when it is saved, the score sets how     *)
(* many days it stays, and the maintainer deletes what is overdue.  The    *)
(* desktop application and the command line (scripts/ai.py) post their     *)
(* exchanges to the memory server; when it hears nothing good within ten   *)
(* seconds, the command line saves its own.  Whether that is the project   *)
(* the server saves to depends on where the two run: it is when neither is *)
(* in a container, or when DEFAULT_PROJECT_ID is set for both, and not     *)
(* when the server in its container has one for all.                       *)
(*                                                                         *)
(* Finding: text search asks SQLite; vector search asks the embedding      *)
(* service and then Qdrant; hybrid search asks both.  The server has a     *)
(* switch, _vector_enabled, that a first connection that fails turns off.  *)
(* One of two servers has the port of the memory:                          *)
(*   service   services/memory-service, hybrid search, background tasks    *)
(*             that embed, no recovery of the switch;                      *)
(*   gateway   services/api-gateway, plain vector search, no such tasks,   *)
(*             and a health check that turns the switch on again.          *)
(*                                                                         *)
(* The writers that bring embeddings to Qdrant are MemorySync's; here they *)
(* take one step, which also says what the payload of the point lacks.     *)
(* Conversations of all projects are numbered together.                    *)
(***************************************************************************)
EXTENDS Integers, Sequences, FiniteSets, FiniteSetsExt

CONSTANTS
    Exchanges,          \* questions and answers to be saved
    Direct,             \* those of the desktop application and of other callers of the API;
                        \* the others are the command line's
    Features,           \* Features[e]: what e may be like, as far as its score depends on it
    Searches,           \* searches that can run at a time
    Limit,              \* how many conversations a search returns at most
    Days,               \* the days on which something happens
    MaxOutages          \* bound on the outages of Qdrant

Marks == {"none", "important", "saved"}

AllFeatures ==
    [high : 0..4, low : 0..3, answer : {"short", "plain", "long", "very long"},
     code : BOOLEAN, codeModel : BOOLEAN, mark : Marks, longQuery : BOOLEAN]

ASSUME RecallAssumption ==
    /\ IsFiniteSet(Exchanges)
    /\ Direct \subseteq Exchanges
    /\ Features \in [Exchanges -> SUBSET AllFeatures]
    /\ \A e \in Exchanges \ Direct : \A f \in Features[e] : f.mark = "none"
    /\ Limit \in Nat \ {0}
    /\ Days \subseteq Nat /\ 0 \in Days
    /\ MaxOutages \in Nat

VARIABLES
    server,     \* "service" or "gateway"
    shared,     \* the command line saves to the project of the server
    day,        \* today
    feature,    \* feature[e]: what exchange e is like
    conv,       \* the conversations saved, in order
    kept,       \* those of them that are still in a table conversations
    client,     \* client[e]: "waiting" | "saved" | "lost", what the command line knows of its own
    request,    \* request[e]: "sent" | "answered"
    payloads,   \* payloads[i]: "none", or the payload has a timestamp, or it has not
    enabled,    \* _vector_enabled
    connected,  \* _qdrant_client is not None
    qdrant,     \* Qdrant answers
    outages,    \* how often it stopped to
    search      \* search[q]: where a search stands, and what it was given

saving == <<server, shared, feature, conv, client, request>>
switches == <<enabled, connected>>
outside == <<qdrant, outages>>
recallVars == <<day, saving, kept, payloads, switches, outside, search>>

MaxRows == 2 * Cardinality(Exchanges) - Cardinality(Direct)

\* What the text search found, what Qdrant found, and what the caller is given.
SearchInfo ==
    [at : {"idle", "embedding", "answered"},
     text : SUBSET (1..MaxRows), hits : SUBSET (1..MaxRows), answer : SUBSET (1..MaxRows)]
IdleSearch == [at |-> "idle", text |-> {}, hits |-> {}, answer |-> {}]

RecallTypeOK ==
    /\ server \in {"service", "gateway"}
    /\ shared \in BOOLEAN
    /\ day \in Days
    /\ \A e \in Exchanges : feature[e] \in Features[e]
    /\ Len(conv) <= MaxRows
    /\ kept \subseteq DOMAIN conv
    /\ client \in [Exchanges -> {"waiting", "saved", "lost"}]
    /\ request \in [Exchanges -> {"sent", "answered"}]
    /\ payloads \in [1..MaxRows -> {"none", "timed", "untimed"}]
    /\ enabled \in BOOLEAN /\ connected \in BOOLEAN
    /\ qdrant \in BOOLEAN /\ outages \in 0..MaxOutages
    /\ search \in [Searches -> SearchInfo]

RecallInit ==
    /\ server \in {"service", "gateway"}
    /\ shared \in BOOLEAN
    /\ day = 0
    /\ feature \in [Exchanges -> UNION {Features[e] : e \in Exchanges}]
    /\ \A e \in Exchanges : feature[e] \in Features[e]
    /\ conv = <<>>
    /\ kept = {}
    /\ client = [e \in Exchanges |-> "waiting"]
    /\ request = [e \in Exchanges |-> "sent"]
    /\ payloads = [i \in 1..MaxRows |-> "none"]
    /\ enabled = TRUE
    /\ connected = FALSE
    /\ qdrant = TRUE
    /\ outages = 0
    /\ search = [q \in Searches |-> IdleSearch]

-----------------------------------------------------------------------------
(* The score of a conversation, and the days it buys.                      *)

Bonus(b) == IF b THEN 1 ELSE 0

LengthBonus(answer) ==
    CASE answer = "short" -> -1
      [] answer = "plain" -> 0
      [] answer = "long"  -> 1
      [] OTHER            -> 2

Unmarked(f) ==
    5 + Min({f.high, 3}) - Min({f.low, 2}) + LengthBonus(f.answer)
      + Bonus(f.code) + Bonus(f.codeModel)

\* Faulty variant: the mark is one more bonus.
ImportanceAdded(f) ==
    LET marked == CASE f.mark = "saved"     -> Unmarked(f) + 5
                    [] f.mark = "important" -> Max({Unmarked(f), 8})
                    [] OTHER                -> Unmarked(f)
    IN  Max({1, Min({10, marked + Bonus(f.longQuery)})})

\* calculate_importance_score: keywords, length, code; then the user's own mark; then the
\* length of the question; then the bounds.
Importance(f) ==
    LET marked == CASE f.mark = "saved"     -> 10
                    [] f.mark = "important" -> Max({Unmarked(f), 8})
                    [] OTHER                -> Unmarked(f)
    IN  Max({1, Min({10, marked + Bonus(f.longQuery)})})

\* IMPORTANCE_LEVELS: days for the scores 1 to 10.
TTL == <<0, 3, 7, 14, 30, 30, 90, 180, 365, -1>>

\* No expires_at without a positive number of days: the lowest score is kept for ever, as
\* the highest is.
Never == 0
ExpiresAt(score) == IF TTL[score] > 0 THEN day + TTL[score] ELSE Never

-----------------------------------------------------------------------------
(* Saving and deleting.                                                    *)

Tick(d) ==
    /\ d > day
    /\ day' = d
    /\ UNCHANGED <<saving, kept, payloads, switches, outside, search>>

\* save_conversation, called by the server or by the command line.
Save(e, saver) ==
    /\ conv' = Append(conv, [exchange |-> e, saver |-> saver, since |-> day,
                             expires |-> ExpiresAt(Importance(feature[e]))])
    /\ kept' = kept \cup {Len(conv) + 1}

\* The server saves and answers whether or not somebody still waits for it.  A request
\* that is refused, or whose transaction fails, stays "sent".
ServerSaves(e) ==
    /\ request[e] = "sent"
    /\ Save(e, "server")
    /\ request' = [request EXCEPT ![e] = "answered"]
    /\ UNCHANGED <<server, shared, day, feature, client, payloads, switches, outside, search>>

HearSaved(e) ==
    /\ e \notin Direct
    /\ client[e] = "waiting"
    /\ request[e] = "answered"
    /\ client' = [client EXCEPT ![e] = "saved"]
    /\ UNCHANGED <<server, shared, day, feature, conv, request, kept, payloads, switches, outside, search>>

\* Faulty variant: who gave up asks the server again.
SaveLocallyOrRetry(e) ==
    /\ e \notin Direct
    /\ client[e] = "waiting"
    /\ request' = [request EXCEPT ![e] = "sent"]
    /\ Len(conv) < MaxRows
    /\ UNCHANGED <<server, shared, day, feature, conv, client, kept, payloads, switches, outside, search>>

\* Ten seconds passed or the answer was an error: the local fallback, which may fail too.
\* The request is not taken back.
SaveLocally(e) ==
    /\ e \notin Direct
    /\ client[e] = "waiting"
    /\ \/ Save(e, "client") /\ client' = [client EXCEPT ![e] = "saved"]
       \/ client' = [client EXCEPT ![e] = "lost"] /\ UNCHANGED <<conv, kept>>
    /\ UNCHANGED <<server, shared, day, feature, request, payloads, switches, outside, search>>

\* The maintainer goes through the databases of all projects.
Overdue == {i \in kept : conv[i].expires # Never /\ conv[i].expires <= day}

\* Points stay in Qdrant.
Cleanup ==
    /\ Overdue # {}
    /\ kept' = kept \ Overdue
    /\ UNCHANGED <<day, saving, payloads, switches, outside, search>>

-----------------------------------------------------------------------------
(* The vector side.                                                        *)

StopQdrant ==
    /\ qdrant
    /\ outages < MaxOutages
    /\ qdrant' = FALSE
    /\ outages' = outages + 1
    /\ UNCHANGED <<day, saving, kept, payloads, switches, search>>

StartQdrant ==
    /\ ~qdrant
    /\ qdrant' = TRUE
    /\ UNCHANGED <<outages, day, saving, kept, payloads, switches, search>>

\* _get_qdrant_client: only a process that has no client yet tests the connection, and it
\* keeps the client it could not use.
Connect ==
    /\ connected' = (connected \/ enabled)
    /\ enabled' = (enabled /\ (connected \/ qdrant))

\* The collection can be asked: the switch was on, and Qdrant answers.
Reached == enabled /\ qdrant

\* get_project_id, for the one who saves.
Project(i) == IF conv[i].saver = "server" \/ shared THEN "server" ELSE "own"

Searchable == {i \in kept : Project(i) = "server"}

\* _store_conversation_vectors, by a background task of the memory service.  Only this
\* writer puts a timestamp into the payload.
StoreVectors(i) ==
    /\ server = "service"
    /\ i \in Searchable
    /\ enabled
    /\ Connect
    /\ payloads' = IF Reached THEN [payloads EXCEPT ![i] = "timed"] ELSE payloads
    /\ UNCHANGED <<day, saving, kept, outside, search>>

\* Batch and maintainer.
SyncVectors(i) ==
    /\ i \in Searchable
    /\ qdrant
    /\ payloads' = [payloads EXCEPT ![i] = "untimed"]
    /\ UNCHANGED <<day, saving, kept, switches, outside, search>>

\* Faulty variant: a process that has a client is not helped.
TryRecoveryUnconnected ==
    /\ qdrant /\ ~connected
    /\ enabled' = TRUE

\* try_vector_recovery: the collection is there, or can be created.
TryRecovery ==
    /\ qdrant
    /\ enabled' = TRUE

\* The gateway's health check, and its recovery endpoint.
Recover ==
    /\ server = "gateway"
    /\ ~enabled
    /\ TryRecovery
    /\ UNCHANGED <<day, saving, kept, payloads, connected, outside, search>>

\* The server's process is restarted and forgets its searches.
Restart ==
    /\ connected
    /\ enabled' = TRUE
    /\ connected' = FALSE
    /\ search' = [q \in Searches |-> IF search[q].at = "embedding" THEN IdleSearch ELSE search[q]]
    /\ UNCHANGED <<day, saving, kept, payloads, outside>>

-----------------------------------------------------------------------------
(* Searching.                                                              *)

UpTo(n, S) == {T \in SUBSET S : Cardinality(T) <= n}

\* What the query matches is any set; the limit may cut any of it, for the ranking adds
\* importance to a bm25 that is lower the better.  An error finds nothing.
TextHits == UpTo(Limit, Searchable)

Begin(q, text) ==
    search' = [search EXCEPT ![q] = [at |-> "embedding", text |-> text, hits |-> {}, answer |-> {}]]

Answer(q, text, hits, found) ==
    search' = [search EXCEPT ![q] =
                  [at |-> "answered", text |-> text, hits |-> hits, answer |-> found]]

\* Text only: asked for so, or the memory service's switch is off.
SearchText(q) ==
    /\ search[q].at # "embedding"
    /\ \E T \in TextHits : Answer(q, T, {}, T)
    /\ UNCHANGED <<day, saving, kept, payloads, switches, outside>>

\* hybrid_search_conversations reads the text hits before it waits for the embedding.
SearchHybrid(q) ==
    /\ search[q].at # "embedding"
    /\ server = "service" /\ enabled
    /\ \E T \in TextHits : Begin(q, T)
    /\ UNCHANGED <<day, saving, kept, payloads, switches, outside>>

\* The gateway gives nothing at all while the switch is off, and says so to nobody.
SearchVectors(q) ==
    /\ search[q].at # "embedding"
    /\ server = "gateway"
    /\ IF enabled THEN Begin(q, {}) ELSE Answer(q, {}, {}, {})
    /\ UNCHANGED <<day, saving, kept, payloads, switches, outside>>

\* Any points may be similar enough to the query.
VectorHits == UpTo(Limit, {i \in DOMAIN payloads : payloads[i] # "none"})

\* vector_search_conversations: one hit without a timestamp, and there are none.
Readable(hits) == IF \E i \in hits : payloads[i] = "untimed" THEN {} ELSE hits

\* Faulty variant: what was found by meaning may push out what was found by words.
MergedByChance(text, hits) ==
    {A \in SUBSET (text \cup hits) : Cardinality(A) = Min({Limit, Cardinality(text \cup hits)})}

\* Text hits score 1.0, which no similarity exceeds, and come first in a stable sort.
Merged(text, hits) ==
    {A \in SUBSET (text \cup hits) :
        /\ Cardinality(A) = Min({Limit, Cardinality(text \cup hits)})
        /\ text \subseteq A}

\* The embedding is there: from here to the end the process does not wait.
AskQdrant(q) ==
    /\ search[q].at = "embedding"
    /\ Connect
    /\ \E hits \in IF Reached THEN VectorHits ELSE {{}} :
          \E found \in Merged(search[q].text, Readable(hits)) :
              Answer(q, search[q].text, hits, found)
    /\ UNCHANGED <<day, saving, kept, payloads, outside>>

EmbeddingFails(q) ==
    /\ search[q].at = "embedding"
    /\ Answer(q, search[q].text, {}, search[q].text)
    /\ UNCHANGED <<day, saving, kept, payloads, switches, outside>>

-----------------------------------------------------------------------------
Saving(e) == ServerSaves(e) \/ HearSaved(e) \/ SaveLocally(e)

Searching(q) ==
    \/ SearchText(q) \/ SearchHybrid(q) \/ SearchVectors(q)
    \/ AskQdrant(q) \/ EmbeddingFails(q)

RecallNext ==
    \/ \E d \in Days : Tick(d)
    \/ \E e \in Exchanges : Saving(e)
    \/ Cleanup
    \/ StopQdrant \/ StartQdrant
    \/ \E i \in kept : StoreVectors(i) \/ SyncVectors(i)
    \/ Recover \/ Restart
    \/ \E q \in Searches : Searching(q)

\* Qdrant is restarted, and Docker asks the gateway for its health every 30 seconds.
RecallFairness == WF_recallVars(StartQdrant) /\ WF_recallVars(Recover)

RecallSpec == RecallInit /\ [][RecallNext]_recallVars /\ RecallFairness

-----------------------------------------------------------------------------
(* Properties.                                                             *)

\* What the user marked as saved is never deleted, and what was marked as important not
\* before half a year has passed, whatever else the score found to say against it.
KeptForItsWorth ==
    \A i \in DOMAIN conv \ kept :
        LET mark == feature[conv[i].exchange].mark
        IN  /\ mark # "saved"
            /\ mark = "important" => day >= conv[i].since + 180

\* An exchange whose saver was answered too late is stored a second time, by the other one
\* of server and command line, and never a third time.  The two copies only come to lie in
\* one project where the two share it; and whoever was told that an exchange was saved
\* finds it somewhere.
StoredOnceByEach ==
    /\ \A i, j \in DOMAIN conv :
          i # j /\ conv[i].exchange = conv[j].exchange =>
              /\ conv[i].saver # conv[j].saver
              /\ Project(i) = Project(j) => shared
    /\ \A e \in Exchanges :
          client[e] = "saved" => \E i \in DOMAIN conv : conv[i].exchange = e

\* Vector search comes back in the gateway once Qdrant is up to stay.
VectorReturns == server = "gateway" => <>[]enabled

\* A vector side that is slow, off, gone or cannot read its own payloads costs a searcher
\* none of the text hits read before it was asked.
TextHitsSurvive ==
    \A q \in Searches : search[q].at = "answered" => search[q].text \subseteq search[q].answer

\* Behind the gateway vector search gives nothing that was not found by words, however
\* much was synchronised: no writer there puts a timestamp into a payload, and the search
\* reads one of each hit.  VectorHitsArrive below is what the guide expects instead.
GatewayFindsNothing ==
    server = "gateway" => \A q \in Searches : search[q].answer \subseteq search[q].text

-----------------------------------------------------------------------------
(* What the documentation says, and the code does not do.                  *)

\* docs/MEMORY_SYSTEM_GUIDE.md, on the gateway's search: results by similarity of meaning.
\* What Qdrant found is what the caller gets.
VectorHitsArrive ==
    server = "gateway" => \A q \in Searches :
        search[q].at = "answered" => search[q].hits \subseteq search[q].answer

\* docs/MEMORY_SYSTEM.md, level 1: greetings and tests are deleted at once.  What is as
\* trivial as an exchange can be is due as soon as it is saved.
TrivialIsOverdue ==
    \A i \in kept :
        LET f == feature[conv[i].exchange]
        IN  f = [high |-> 0, low |-> 3, answer |-> "short", code |-> FALSE,
                 codeModel |-> FALSE, mark |-> "none", longQuery |-> FALSE]
            => i \in Overdue
=============================================================================
