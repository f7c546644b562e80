------------------------------ MODULE RagService ------------------------------
(***************************************************************************)
(* The RAG service (services/rag/app.py, services/rag/database.py): one    *)
(* collection of points in Qdrant, the cache of answers and the metadata   *)
(* of documents in SQLite, and the coroutines of /index and /query.  A     *)
(* coroutine gives way only where it awaits the embedding service or the   *)
(* language model; what lies between two awaits is one step.               *)
(*                                                                         *)
(* The module has one collection and one question.  Answers to different   *)
(* questions and different collections share nothing but the points.       *)
(***************************************************************************)
EXTENDS RagText, FiniteSets

CONSTANTS
    Docs,           \* documents on disk
    Dirs,           \* what /index can be asked for, each a sequence of documents
    Texts,          \* Texts[d]: the texts document d has one after the other
    Models,         \* embedding models
    Dim,            \* Dim[m]: length of their vectors
    Calls,          \* coroutines
    Batch,          \* chunks that are embedded in one request

    Ttl,            \* how long an answer is cached (6 hours)
    MaxAnswer,      \* longest time from a search to the answer (RAG_LLM_TIMEOUT)
    NoEntry,        \* nothing is cached; no metadata
    MaxUploads,     \* bound on the uploads
    MaxReloads,     \* bound on the exchanges of the embedding model
    MaxRestarts,    \* bound on the restarts of the service
    MaxTime         \* bound on the time

ASSUME RagAssumption ==
    /\ \A dir \in Dirs : dir \in Seq(Docs)
    /\ \A d \in Docs : Texts[d] \in Seq(Seq(Nat)) /\ Texts[d] # <<>>
    /\ Dim \in [Models -> Nat \ {0}]
    /\ Batch \in Nat \ {0}
    /\ {Ttl, MaxAnswer, MaxUploads, MaxReloads, MaxRestarts, MaxTime} \subseteq Nat

VARIABLES
    now,            \* the time
    disk,           \* disk[d]: which of its texts document d has now
    serving,        \* the model of the embedding service
    reloads,        \* how often it was exchanged
    exchanged,      \* one of another dimension was ever put in its place
    size,           \* dimension of the collection, 0 while there is none
    points,         \* the points with the ids 0, 1, ...
    uploads,        \* number of uploads so far
    uploaded,       \* uploaded[d]: the latest one that held d, 0 for none
    torn,           \* the documents whose latest upload did not get to their metadata
    refused,        \* Qdrant has refused vectors for their length
    embedDim,       \* EMBED_DIM, 0 for None
    cache,          \* the cached answer: [searched, expires] or NoEntry
    meta,           \* meta[d]: the upload the metadata of d is about, 0 without metadata
    step,           \* step[c]: what coroutine c awaits
    docs,           \* docs[c]: the texts an /index has read: [doc, text] each
    sent,           \* sent[c]: how many of their chunks are embedded so far
    vecs,           \* vecs[c]: the models that embedded them
    searched,       \* searched[c]: when a /query searched
    restarts        \* number of restarts

embedding == <<serving, reloads, exchanged>>
collection == <<size, points, uploads, uploaded, torn, refused>>
coroutines == <<step, docs, sent, vecs, searched>>
vars == <<now, disk, serving, reloads, exchanged, size, points, uploads, uploaded, torn, refused,
          embedDim, cache, meta, step, docs, sent, vecs, searched, restarts>>

(* A row of query_cache, and what document_metadata has of each document. *)
Entry == [searched : Nat, expires : Nat]
Metadata == [Docs -> 0..MaxUploads]

(* The chunks of every text there is. *)
ChunksOf == [d \in Docs |-> [t \in DOMAIN Texts[d] |-> Chunks(Texts[d][t])]]

(* The payloads of an /index: the chunks of all documents, in the order of the
   documents; a payload's place is its point id. *)
Payloads(ds) ==
    FlattenSeq([i \in DOMAIN ds |->
        [k \in DOMAIN ChunksOf[ds[i].doc][ds[i].text] |->
            [doc |-> ds[i].doc, text |-> ds[i].text, chunk |-> k]]])

DocsIn(payloads) == {payloads[i].doc : i \in DOMAIN payloads}

Init ==
    /\ now = 0
    /\ disk = [d \in Docs |-> 1]
    /\ serving \in Models
    /\ reloads = 0
    /\ exchanged = FALSE
    /\ size = 0
    /\ points = <<>>
    /\ uploads = 0
    /\ uploaded = [d \in Docs |-> 0]
    /\ torn = {}
    /\ refused = FALSE
    /\ embedDim \in {0, Dim[serving]}
    /\ cache = NoEntry
    /\ meta = [d \in Docs |-> 0]
    /\ step = [c \in Calls |-> "idle"]
    /\ docs = [c \in Calls |-> <<>>]
    /\ sent = [c \in Calls |-> 0]
    /\ vecs = [c \in Calls |-> {}]
    /\ searched = [c \in Calls |-> 0]
    /\ restarts = 0

Goto(c, s) == step' = [step EXCEPT ![c] = s]

(* The end of a coroutine, with an answer or with an error. *)
Leave(c) ==
    /\ Goto(c, "idle")
    /\ docs' = [docs EXCEPT ![c] = <<>>]
    /\ sent' = [sent EXCEPT ![c] = 0]
    /\ vecs' = [vecs EXCEPT ![c] = {}]
    /\ searched' = [searched EXCEPT ![c] = 0]

(* A mutant: the collection is made for the model the service was set up with. *)
MadeForDefault(dim) == size' = IF size = 0 THEN Dim[CHOOSE m \in Models : TRUE] ELSE size

(* _ensure_collection: a collection that is there is left as it is. *)
EnsureCollection(dim) == size' = IF size = 0 THEN dim ELSE size

-------------------------------------------------------------------------------
(* POST /index *)

(* With the dimension known the collection is made and the documents are cut.
   Without a chunk the call is over, else the first batch is sent. *)
BeginIndexing(c, ds, dim) ==
    /\ EnsureCollection(dim)
    /\ docs' = [docs EXCEPT ![c] = IF Payloads(ds) = <<>> THEN <<>> ELSE ds]
    /\ Goto(c, IF Payloads(ds) = <<>> THEN "idle" ELSE "embed")

(* _read_documents reads the files; without one the call is over. *)
Index(c, dir) ==
    /\ step[c] = "idle"
    /\ uploads < MaxUploads
    /\ dir # <<>>
    /\ LET ds == [i \in DOMAIN dir |-> [doc |-> dir[i], text |-> disk[dir[i]]]]
       IN IF embedDim # 0
          THEN BeginIndexing(c, ds, embedDim)
          ELSE /\ docs' = [docs EXCEPT ![c] = ds]
               /\ Goto(c, "probe")
               /\ UNCHANGED size
    /\ UNCHANGED <<now, disk, embedding, points, uploads, uploaded, torn, refused, embedDim, cache,
                   meta, sent, vecs, searched, restarts>>

(* The dimension of one vector becomes EMBED_DIM, whatever it is by now. *)
IndexProbed(c) ==
    /\ step[c] = "probe"
    /\ embedDim' = Dim[serving]
    /\ BeginIndexing(c, docs[c], Dim[serving])
    /\ UNCHANGED <<now, disk, embedding, points, uploads, uploaded, torn, refused, cache, meta,
                   sent, vecs, searched, restarts>>

Left(c) == Len(Payloads(docs[c])) - sent[c]

(* The answer to a batch that is not the last one, by whatever model serves. *)
EmbedBatch(c) ==
    /\ step[c] = "embed"
    /\ Left(c) > Batch
    /\ sent' = [sent EXCEPT ![c] = @ + Batch]
    /\ vecs' = [vecs EXCEPT ![c] = @ \cup {serving}]
    /\ UNCHANGED <<now, disk, embedding, collection, embedDim, cache, meta, step, docs, searched,
                   restarts>>

(* Point ids start at 0 in every call. *)
Overlay(new, old) == new \o SubSeq(old, Len(new) + 1, Len(old))

(* What _upsert_points does with the vectors of all batches: Qdrant takes them
   all, or none if one has not the length the collection was made for. *)
Fits(models) == \A m \in models : Dim[m] = size

Upsert(c) ==
    LET payloads == Payloads(docs[c])
        new == [i \in DOMAIN payloads |->
                   [doc |-> payloads[i].doc, text |-> payloads[i].text,
                    chunk |-> payloads[i].chunk, upload |-> uploads + 1]]
    IN /\ points' = Overlay(new, points)
       /\ uploads' = uploads + 1
       /\ uploaded' = [d \in Docs |-> IF d \in DocsIn(payloads) THEN uploads + 1 ELSE uploaded[d]]

(* A mutant: a row that is there is kept. *)
MetadataOnce(c, written) ==
    LET present == DocsIn(Payloads(docs[c]))
    IN /\ written \subseteq present
       /\ \E n \in 0..Len(docs[c]) : written = present \cap {docs[c][i].doc : i \in 1..n}
       /\ meta' = [d \in Docs |-> IF d \in written /\ meta[d] = 0 THEN uploads + 1 ELSE meta[d]]
       /\ torn' = (torn \ written) \cup (present \ written)

(* The metadata rows of the documents with chunks are written one by one; an
   error, or the death of the service, leaves out the last ones. *)
WriteMetadata(c, written) ==
    LET present == DocsIn(Payloads(docs[c]))
    IN /\ written \subseteq present
       /\ \E n \in 0..Len(docs[c]) : written = present \cap {docs[c][i].doc : i \in 1..n}
       /\ meta' = [d \in Docs |-> IF d \in written THEN uploads + 1 ELSE meta[d]]
       /\ torn' = (torn \ written) \cup (present \ written)

(* The answer to the last batch, the upload and the metadata, in one go: the
   upload is repeated without giving way. *)
Upload(c) ==
    /\ step[c] = "embed"
    /\ Left(c) <= Batch
    /\ uploads < MaxUploads
    /\ Fits(vecs[c] \cup {serving})
    /\ Upsert(c)
    /\ \E written \in SUBSET Docs : WriteMetadata(c, written)
    /\ Leave(c)
    /\ UNCHANGED <<now, disk, embedding, size, refused, embedDim, cache, restarts>>

UploadRefused(c) ==
    /\ step[c] = "embed"
    /\ Left(c) <= Batch
    /\ ~Fits(vecs[c] \cup {serving})
    /\ refused' = TRUE
    /\ Leave(c)
    /\ UNCHANGED <<now, disk, embedding, size, points, uploads, uploaded, torn, embedDim, cache,
                   meta, restarts>>

-------------------------------------------------------------------------------
(* POST /query *)

(* get_cached_query finds the row and it has not expired. *)
Usable == cache # NoEntry /\ cache.expires > now

(* The question is not answered from the cache. *)
Query(c) ==
    /\ step[c] = "idle"
    /\ ~Usable
    /\ IF embedDim # 0
       THEN EnsureCollection(embedDim) /\ Goto(c, "embedQuestion")
       ELSE Goto(c, "queryProbe") /\ UNCHANGED size
    /\ UNCHANGED <<now, disk, embedding, points, uploads, uploaded, torn, refused, embedDim, cache,
                   meta, docs, sent, vecs, searched, restarts>>

QueryProbed(c) ==
    /\ step[c] = "queryProbe"
    /\ embedDim' = Dim[serving]
    /\ EnsureCollection(Dim[serving])
    /\ Goto(c, "embedQuestion")
    /\ UNCHANGED <<now, disk, embedding, points, uploads, uploaded, torn, refused, cache, meta,
                   docs, sent, vecs, searched, restarts>>

(* The question is embedded; the search follows without giving way, and the
   language model is asked. *)
Search(c) ==
    /\ step[c] = "embedQuestion"
    /\ Fits({serving})
    /\ searched' = [searched EXCEPT ![c] = now]
    /\ Goto(c, "answer")
    /\ UNCHANGED <<now, disk, embedding, collection, embedDim, cache, meta, docs, sent, vecs,
                   restarts>>

SearchRefused(c) ==
    /\ step[c] = "embedQuestion"
    /\ ~Fits({serving})
    /\ refused' = TRUE
    /\ Leave(c)
    /\ UNCHANGED <<now, disk, embedding, size, points, uploads, uploaded, torn, embedDim, cache,
                   meta, restarts>>

(* A mutant: the entry lives for the default of cache_query, 24 hours. *)
CacheForDefault(c) == cache' = [searched |-> searched[c], expires |-> now + 4 * Ttl]

(* cache_query: INSERT OR REPLACE of the question's row. *)
CacheAnswer(c) == cache' = [searched |-> searched[c], expires |-> now + Ttl]

(* The language model has answered: the answer replaces what is cached. *)
Answer(c) ==
    /\ step[c] = "answer"
    /\ CacheAnswer(c)
    /\ Leave(c)
    /\ UNCHANGED <<now, disk, embedding, collection, embedDim, meta, restarts>>

-------------------------------------------------------------------------------
(* POST /prewarm *)
Prewarm(c) ==
    /\ step[c] = "idle"
    /\ embedDim = 0
    /\ Goto(c, "prewarmProbe")
    /\ UNCHANGED <<now, disk, embedding, collection, embedDim, cache, meta, docs, sent, vecs,
                   searched, restarts>>

Prewarmed(c) ==
    /\ step[c] = "prewarmProbe"
    /\ embedDim' = Dim[serving]
    /\ Leave(c)
    /\ UNCHANGED <<now, disk, embedding, collection, cache, meta, restarts>>

(* What is awaited fails or times out, or Qdrant does not answer. *)
Fail(c) ==
    /\ step[c] # "idle"
    /\ Leave(c)
    /\ UNCHANGED <<now, disk, embedding, collection, embedDim, cache, meta, restarts>>

(* DELETE /cache *)
ClearCache ==
    /\ cache # NoEntry
    /\ cache' = NoEntry
    /\ UNCHANGED <<now, disk, embedding, collection, embedDim, meta, coroutines, restarts>>

(* cleanup_expired_cache, of POST /optimize *)
Optimize ==
    /\ cache # NoEntry
    /\ cache.expires < now
    /\ cache' = NoEntry
    /\ UNCHANGED <<now, disk, embedding, collection, embedDim, meta, coroutines, restarts>>

(* The service dies and comes up again: what its coroutines held is gone, and
   the startup handler asks for the dimension once. *)
Restart ==
    /\ restarts < MaxRestarts
    /\ restarts' = restarts + 1
    /\ embedDim' \in {0, Dim[serving]}
    /\ step' = [c \in Calls |-> "idle"]
    /\ docs' = [c \in Calls |-> <<>>]
    /\ sent' = [c \in Calls |-> 0]
    /\ vecs' = [c \in Calls |-> {}]
    /\ searched' = [c \in Calls |-> 0]
    /\ UNCHANGED <<now, disk, embedding, collection, cache, meta>>

-------------------------------------------------------------------------------
(* Around the service: an author saves a document, an operator exchanges the
   embedding model, time passes. *)
Edit(d) ==
    /\ disk[d] < Len(Texts[d])
    /\ disk' = [disk EXCEPT ![d] = @ + 1]
    /\ UNCHANGED <<now, embedding, collection, embedDim, cache, meta, coroutines, restarts>>

Reload(m) ==
    /\ reloads < MaxReloads
    /\ m # serving
    /\ serving' = m
    /\ reloads' = reloads + 1
    /\ exchanged' = (exchanged \/ Dim[m] # Dim[serving])
    /\ UNCHANGED <<now, disk, collection, embedDim, cache, meta, coroutines, restarts>>

(* _llm_answer has its timeout: an answer takes no longer. *)
MayTakeLonger(c) == step[c] = "answer" => now - searched[c] < MaxAnswer

Tick ==
    /\ now < MaxTime
    /\ \A c \in Calls : MayTakeLonger(c)
    /\ now' = now + 1
    /\ UNCHANGED <<disk, embedding, collection, embedDim, cache, meta, coroutines, restarts>>

IndexCall(c) ==
    \/ \E dir \in Dirs : Index(c, dir)
    \/ IndexProbed(c) \/ EmbedBatch(c) \/ Upload(c) \/ UploadRefused(c)

QueryCall(c) == Query(c) \/ QueryProbed(c) \/ Search(c) \/ SearchRefused(c) \/ Answer(c)

Next ==
    \/ \E c \in Calls : IndexCall(c) \/ QueryCall(c) \/ Prewarm(c) \/ Prewarmed(c) \/ Fail(c)
    \/ ClearCache \/ Optimize \/ Restart \/ Tick
    \/ \E d \in Docs : Edit(d)
    \/ \E m \in Models : Reload(m)

Spec == Init /\ [][Next]_vars

-------------------------------------------------------------------------------
TypeOK ==
    /\ now \in 0..MaxTime
    /\ disk \in [Docs -> Nat]
    /\ serving \in Models
    /\ {size, embedDim} \subseteq {Dim[m] : m \in Models} \cup {0}
    /\ points \in Seq([doc : Docs, text : Nat, chunk : Nat, upload : 1..MaxUploads])
    /\ uploads \in 0..MaxUploads
    /\ {uploaded, meta} \subseteq Metadata
    /\ torn \subseteq Docs
    /\ cache = NoEntry \/ cache \in Entry
    /\ step \in [Calls -> {"idle", "probe", "embed", "queryProbe", "embedQuestion", "answer",
                            "prewarmProbe"}]
    /\ sent \in [Calls -> Nat]
    /\ vecs \in [Calls -> SUBSET Models]
    /\ searched \in [Calls -> 0..MaxTime]
    /\ restarts \in 0..MaxRestarts

Latest == {i \in DOMAIN points : points[i].upload = uploads}

(* The place-th word of a sentence of the document of point i is in a chunk of
   the latest upload. *)
InLatest(i, sentence, place) ==
    \E j \in Latest :
        LET p == points[j]
        IN  /\ p.doc = points[i].doc
            /\ <<sentence, place>> \in ToSet(ChunksOf[p.doc][p.text][p.chunk])

(* The points of the latest upload hold every word that the splitting of its
   documents keeps, and each of their chunks is where it belongs.  What of a
   sentence lies past MaxChars is in no chunk at all: LongOnesAreSliced, below,
   is what the splitting is said to do with it. *)
LatestIsWhole ==
    \A i \in Latest :
        LET text == Texts[points[i].doc][points[i].text]
        IN \A s \in DOMAIN text : \A p \in 1..Smaller(text[s], MaxChars) : InLatest(i, s, p)

(* The metadata of a document is about the latest upload that held it, unless
   an error or a crash came between the upload and its row; it never runs
   ahead of the points. *)
MetadataFollows ==
    \A d \in Docs : meta[d] <= uploaded[d] /\ (d \notin torn => meta[d] = uploaded[d])

(* An answer that may be given from the cache rests on a search that is not
   older than the time to live and the longest answer, however many queries
   for the same question overlap and overwrite each other's answers. *)
UsableIsRecent == Usable => now - cache.searched < Ttl + MaxAnswer

(* Qdrant refuses vectors only if an embedding model of another dimension came
   into service: the dimension measured once fits until then. *)
RefusedOnlyAfterExchange == refused => exchanged
-------------------------------------------------------------------------------
(* The docstring of _split_sentences_ko: what is too long is sliced again, at
   a fixed width.  No word of a document of the latest upload is left out,
   however long its sentence is. *)
LongOnesAreSliced ==
    \A i \in Latest :
        LET text == Texts[points[i].doc][points[i].text]
        IN \A s \in DOMAIN text : \A p \in 1..text[s] : InLatest(i, s, p)
===============================================================================
