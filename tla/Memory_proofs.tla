-------------------------- MODULE Memory_proofs --------------------------
(***************************************************************************)
(* Theorems about the conversation memory.                                 *)
(*                                                                         *)
(* About MemorySync, for any number of writers, conversations and restored *)
(* backups and any size of a batch: what a row says of its conversation is *)
(* true.                                                                   *)
(*                                                                         *)
(* About MemoryRecall, for any exchanges, whatever they are like, and any  *)
(* searches and days: what is kept, what is kept twice, and what is found. *)
(* That nothing is deleted too early rests on when each conversation       *)
(* expires (WorthItsDays), which comes out of the arithmetic of the score; *)
(* that nobody saves an exchange twice, on where the two who save one      *)
(* stand (SavedBy); and that the gateway's vector search finds nothing by   *)
(* meaning, on whose payloads are in the collection (NothingTimed).        *)
(***************************************************************************)
EXTENDS MemorySync, MemoryRecall, FiniteSetTheorems, TLAPS

Statuses == {"none", "pending", "synced", "failed"}

\* What a writer is about to mark as synced was uploaded.
Uploaded == \A w \in Writers : stage[w] = "marking" => hand[w] \subseteq points

IInv ==
    /\ MemoryTypeOK
    /\ SyncedIsIndexed
    /\ Uploaded
    /\ RowsHaveConversations
    /\ OnlyRestoredForgotten

-----------------------------------------------------------------------------
(* What the helpers do to the state of the writers and to the rows.        *)

WritersOK ==
    /\ kind \in [Writers -> Kinds \cup {"none"}]
    /\ stage \in [Writers -> {"idle", "embedding", "uploading", "marking", "failing"}]
    /\ hand \in [Writers -> SUBSET Conversations]
    /\ todo \in [Writers -> SUBSET Conversations]

\* What a writer selects are conversations.
LEMMA SelectedStored ==
    ASSUME NEW k, NEW S \in Selections(k)
    PROVE  S \subseteq stored
BY DEF Selections, Queued

\* A writer that takes up something else marks nothing, and the others do not notice.
LEMMA Becoming ==
    ASSUME WritersOK, Uploaded, NEW w \in Writers, NEW k \in Kinds \cup {"none"},
           NEW s \in {"idle", "embedding", "uploading", "failing"},
           NEW S \in SUBSET Conversations, NEW rest \in SUBSET Conversations,
           points \subseteq points', Become(w, k, s, S, rest)
    PROVE  WritersOK' /\ Uploaded'
BY DEF WritersOK, Uploaded, Become

\* The same for a writer that goes on to its next item, or returns.
LEMMA Proceeding ==
    ASSUME WritersOK, Uploaded, NEW w \in Writers, NEW k \in Kinds \cup {"none"},
           NEW S \in SUBSET Conversations,
           points \subseteq points', Proceed(w, k, S)
    PROVE  WritersOK' /\ Uploaded'
<1>1. CASE S = {}
  BY <1>1, Becoming DEF Proceed, Return
<1>2. CASE S # {}
  <2>1. PICK c \in S : Become(w, k, "embedding", {c}, S \ {c})
    BY <1>2 DEF Proceed
  <2> QED BY <2>1, Becoming
<1> QED BY <1>1, <1>2

\* A writer that makes its next request keeps what it has in hand.
LEMMA Going ==
    ASSUME WritersOK, Uploaded, NEW w \in Writers,
           NEW s \in {"idle", "embedding", "uploading", "marking", "failing"},
           s = "marking" => hand[w] \subseteq points',
           points \subseteq points', Advance(w, s)
    PROVE  WritersOK' /\ Uploaded'
BY DEF WritersOK, Uploaded, Advance

\* An UPDATE neither makes a row nor loses one.
LEMMA Updating ==
    ASSUME row \in [Conversations -> Statuses], NEW s \in {"synced", "failed"}, NEW S,
           SetStatus(S, s)
    PROVE  /\ row' \in [Conversations -> Statuses]
           /\ \A c \in Conversations : row'[c] = "none" <=> row[c] = "none"
           /\ \A c \in Conversations :
                 row'[c] = "synced" => row[c] = "synced" \/ (c \in S /\ s = "synced")
BY DEF SetStatus, Statuses

-----------------------------------------------------------------------------
(* The invariant.                                                          *)

LEMMA InitInv == MemoryInit => IInv
BY MemoryAssumption DEF MemoryInit, IInv, MemoryTypeOK, SyncedIsIndexed, Uploaded, RowsHaveConversations,
   OnlyRestoredForgotten, Conversations, Kinds

\* The part of the invariant that speaks of tables and backups.
TablesOK ==
    /\ saved \in 0..MaxConversations
    /\ stored \subseteq 1..saved
    /\ expired \subseteq stored
    /\ row \in [Conversations -> Statuses]
    /\ vectors \subseteq Conversations
    /\ points \subseteq Conversations
    /\ tasks \in 0..saved
    /\ backup \subseteq 1..saved
    /\ imports \in 0..MaxImports
    /\ SyncedIsIndexed
    /\ RowsHaveConversations
    /\ OnlyRestoredForgotten

LEMMA Parts == IInv <=> TablesOK /\ WritersOK /\ Uploaded
BY DEF IInv, MemoryTypeOK, TablesOK, WritersOK, Statuses

LEMMA PartsNext == IInv' <=> TablesOK' /\ WritersOK' /\ Uploaded'
BY DEF IInv, MemoryTypeOK, TablesOK, WritersOK, Statuses

LEMMA SavedAreConversations == TablesOK => stored \subseteq Conversations
BY MemoryAssumption DEF TablesOK, Conversations

\* Steps that leave the writers alone.
LEMMA StoreStep ==
    ASSUME IInv, UNCHANGED <<points, writing>>,
           \/ SaveConversation
           \/ \E c \in Conversations : Expire(c)
           \/ ApiCleanup \/ MaintainerCleanup
           \/ ExportBackup \/ ImportBackup
    PROVE  IInv'
<1> TablesOK /\ WritersOK /\ Uploaded
  BY Parts
<1>1. WritersOK' /\ Uploaded'
  BY DEF WritersOK, Uploaded, writing
<1> SUFFICES TablesOK'
  BY <1>1, PartsNext
<1>2. CASE SaveConversation
  BY <1>2, MemoryAssumption DEF SaveConversation, ScheduleEmbedding, TablesOK, Conversations, SyncedIsIndexed,
     RowsHaveConversations, OnlyRestoredForgotten, Statuses
<1>3. CASE \E c \in Conversations : Expire(c)
  BY <1>3 DEF Expire, tables, TablesOK, SyncedIsIndexed, RowsHaveConversations,
     OnlyRestoredForgotten
<1>4. CASE ApiCleanup \/ MaintainerCleanup
  <2>1. DeleteExpired /\ UNCHANGED <<saved, points, tasks, backup, imports>>
    BY <1>4 DEF ApiCleanup, MaintainerCleanup
  <2>2. row' \in [Conversations -> Statuses]
    BY <2>1 DEF DeleteExpired, TablesOK, Statuses
  <2>3. \A c \in Conversations : row'[c] = IF c \in stored' THEN row[c] ELSE "none"
    BY <2>1 DEF DeleteExpired
  <2>4. /\ stored' \subseteq stored /\ vectors' \subseteq vectors /\ expired' = {}
    BY <2>1 DEF DeleteExpired
  <2>5. SyncedIsIndexed' /\ RowsHaveConversations'
    BY <2>1, <2>3 DEF TablesOK, SyncedIsIndexed, RowsHaveConversations
  <2>6. OnlyRestoredForgotten'
    BY <2>1, <2>3, <2>4, SavedAreConversations DEF TablesOK, OnlyRestoredForgotten
  <2> QED BY <2>1, <2>2, <2>4, <2>5, <2>6 DEF TablesOK
<1>5. CASE ExportBackup
  BY <1>5 DEF ExportBackup, tables, TablesOK, SyncedIsIndexed, RowsHaveConversations,
     OnlyRestoredForgotten
<1>6. CASE ImportBackup
  <2>1. /\ UNCHANGED <<saved, points, tasks, backup>>
        /\ imports' \in 0..MaxImports
    BY <1>6, MemoryAssumption DEF ImportBackup, TablesOK
  <2>2. CASE /\ stored' = backup /\ expired' = expired \cap backup /\ vectors' = {}
             /\ row' = [c \in Conversations |-> "none"]
    <3>1. row' \in [Conversations -> Statuses] /\ \A c \in Conversations : row'[c] = "none"
      BY <2>2 DEF Statuses
    <3>2. SyncedIsIndexed' /\ RowsHaveConversations' /\ OnlyRestoredForgotten'
      BY <2>1, <2>2, <3>1 DEF SyncedIsIndexed, RowsHaveConversations, OnlyRestoredForgotten
    <3> QED BY <2>1, <2>2, <3>1, <3>2 DEF TablesOK
  <2>3. CASE stored' = stored \cup backup /\ UNCHANGED <<expired, row, vectors>>
    <3>1. SyncedIsIndexed' /\ RowsHaveConversations' /\ OnlyRestoredForgotten'
      BY <2>1, <2>3
      DEF TablesOK, SyncedIsIndexed, RowsHaveConversations, OnlyRestoredForgotten
    <3> QED BY <2>1, <2>3, <3>1 DEF TablesOK
  <2> QED BY <1>6, <2>2, <2>3 DEF ImportBackup
<1> QED BY <1>2, <1>3, <1>4, <1>5, <1>6

\* A writer that begins.
LEMMA SelectStep ==
    ASSUME IInv, NEW w \in Writers, Select(w)
    PROVE  IInv'
<1> TablesOK /\ WritersOK /\ Uploaded
  BY Parts
<1>1. \A k : \A S \in Selections(k) : S \in SUBSET Conversations
  BY SelectedStored, SavedAreConversations
<1>2. CASE ProcessPending(w)
  <2>1. PICK S \in Selections("background") : Proceed(w, "background", S)
    BY <1>2 DEF ProcessPending
  <2>2. WritersOK' /\ Uploaded'
    BY <2>1, <1>1, <1>2, Proceeding DEF ProcessPending, Kinds
  <2>3. TablesOK'
    BY <1>2 DEF ProcessPending, tables, TablesOK, SyncedIsIndexed, RowsHaveConversations,
       OnlyRestoredForgotten
  <2> QED BY <2>2, <2>3, PartsNext
<1>3. ASSUME UNCHANGED <<tables, points, others>> PROVE TablesOK'
  BY <1>3 DEF tables, others, TablesOK, SyncedIsIndexed, RowsHaveConversations,
     OnlyRestoredForgotten
<1>5. CASE BatchSync(w)
  <2>1. PICK S \in Selections("batch") : Become(w, "batch", "embedding", S, {})
    BY <1>5 DEF BatchSync
  <2>2. WritersOK' /\ Uploaded'
    BY <2>1, <1>1, <1>5, Becoming DEF BatchSync, Kinds
  <2> QED BY <2>2, <1>3, <1>5, PartsNext DEF BatchSync
<1>6. CASE SyncToQdrant(w)
  <2>1. PICK S \in Selections("maintainer") : Become(w, "maintainer", "uploading", S, {})
    BY <1>6 DEF SyncToQdrant
  <2>2. WritersOK' /\ Uploaded'
    BY <2>1, <1>1, <1>6, Becoming DEF SyncToQdrant, Kinds
  <2> QED BY <2>2, <1>3, <1>6, PartsNext DEF SyncToQdrant
<1> QED BY <1>2, <1>5, <1>6 DEF Select

\* A writer that goes on.
LEMMA ContinueStep ==
    ASSUME IInv, NEW w \in Writers, Continue(w)
    PROVE  IInv'
<1> TablesOK /\ WritersOK /\ Uploaded
  BY Parts
<1>t. kind[w] \in Kinds \cup {"none"} /\ hand[w] \in SUBSET Conversations
      /\ todo[w] \in SUBSET Conversations
  BY DEF WritersOK
<1>b. Become(w, kind[w], "failing", hand[w], todo[w]) => Advance(w, "failing")
  BY DEF WritersOK, Become, Advance
<1>n. ASSUME UNCHANGED <<tables, points, others>> PROVE TablesOK'
  BY <1>n DEF tables, others, TablesOK, SyncedIsIndexed, RowsHaveConversations,
     OnlyRestoredForgotten
<1>p. ASSUME UNCHANGED <<tables, others>>, points \subseteq points', points' \subseteq Conversations
      PROVE  TablesOK'
  BY <1>p DEF tables, others, TablesOK, SyncedIsIndexed, RowsHaveConversations,
     OnlyRestoredForgotten
<1>g. ASSUME points \subseteq points',
             Advance(w, "failing") \/ Proceed(w, kind[w], todo[w])
      PROVE  WritersOK' /\ Uploaded'
  BY <1>g, <1>t, Going, Proceeding
<1>1. CASE Embed(w)
  <2>1. WritersOK' /\ Uploaded'
    BY <1>1, Going DEF Embed
  <2> QED BY <2>1, <1>1, <1>n, PartsNext DEF Embed
<1>2. CASE EmbedFails(w)
  <2>1. WritersOK' /\ Uploaded'
    BY <1>2, <1>g DEF EmbedFails
  <2> QED BY <2>1, <1>2, <1>n, PartsNext DEF EmbedFails
<1>3. CASE Upload(w)
  <2>1. points \subseteq points' /\ hand[w] \subseteq points' /\ points' \subseteq Conversations
    BY <1>3, <1>t DEF Upload, TablesOK
  <2>2. WritersOK' /\ Uploaded'
    BY <1>3, <2>1, Going DEF Upload
  <2> QED BY <2>1, <2>2, <1>3, <1>p, PartsNext DEF Upload
<1>4. CASE UploadFails(w)
  <2>1. points \subseteq points' /\ points' \subseteq Conversations
    BY <1>4, <1>t DEF UploadFails, TablesOK
  <2>2. WritersOK' /\ Uploaded'
    BY <1>4, <2>1, <1>g DEF UploadFails, GiveUp
  <2> QED BY <2>1, <2>2, <1>4, <1>p, PartsNext DEF UploadFails, GiveUp
<1>5. CASE Mark(w)
  <2>1. WritersOK' /\ Uploaded'
    BY <1>5, <1>g DEF Mark
  <2>2. /\ row' \in [Conversations -> Statuses]
        /\ \A c \in Conversations : row'[c] = "none" <=> row[c] = "none"
        /\ \A c \in Conversations : row'[c] = "synced" => row[c] = "synced" \/ c \in hand[w]
    BY <1>5, Updating DEF Mark, TablesOK
  <2>3. hand[w] \subseteq points
    BY <1>5 DEF Mark, Uploaded
  <2>4. vectors' \subseteq Conversations
    BY <1>5, <1>t DEF Mark, TablesOK
  <2>5. UNCHANGED <<stored, points, saved, expired, tasks, backup, imports>>
    BY <1>5 DEF Mark, others
  <2>6. SyncedIsIndexed'
    BY <2>2, <2>3, <2>5 DEF SyncedIsIndexed, TablesOK
  <2>7. RowsHaveConversations' /\ OnlyRestoredForgotten'
    BY <2>2, <2>5, SavedAreConversations DEF RowsHaveConversations, OnlyRestoredForgotten, TablesOK
  <2>8. TablesOK'
    BY <2>2, <2>4, <2>5, <2>6, <2>7 DEF TablesOK
  <2> QED BY <2>1, <2>8, PartsNext
<1>6. CASE MarkFails(w)
  <2>1. WritersOK' /\ Uploaded'
    BY <1>6, <1>g DEF MarkFails, GiveUp
  <2> QED BY <2>1, <1>6, <1>n, PartsNext DEF MarkFails, GiveUp
<1>7. CASE MarkFailed(w)
  <2>1. WritersOK' /\ Uploaded'
    BY <1>7, <1>g DEF MarkFailed
  <2>2. /\ row' \in [Conversations -> Statuses]
        /\ \A c \in Conversations : row'[c] = "none" <=> row[c] = "none"
        /\ \A c \in Conversations : row'[c] = "synced" => row[c] = "synced"
    BY <1>7, Updating DEF MarkFailed, TablesOK
  <2>3. UNCHANGED <<stored, vectors, points, saved, expired, tasks, backup, imports>>
    BY <1>7 DEF MarkFailed, others
  <2>4. SyncedIsIndexed' /\ RowsHaveConversations' /\ OnlyRestoredForgotten'
    BY <2>2, <2>3, SavedAreConversations
    DEF SyncedIsIndexed, RowsHaveConversations, OnlyRestoredForgotten, TablesOK
  <2>5. TablesOK'
    BY <2>2, <2>3, <2>4 DEF TablesOK
  <2> QED BY <2>1, <2>5, PartsNext
<1> QED BY <1>1, <1>2, <1>3, <1>4, <1>5, <1>6, <1>7 DEF Continue

\* A process that dies.
LEMMA DieStep ==
    ASSUME IInv, NEW k \in Kinds, Die(k)
    PROVE  IInv'
<1> TablesOK /\ WritersOK /\ Uploaded
  BY Parts
<1>1. WritersOK' /\ Uploaded'
  BY DEF Die, WritersOK, Uploaded
<1>2. TablesOK'
  BY DEF Die, tables, TablesOK, SyncedIsIndexed, RowsHaveConversations,
     OnlyRestoredForgotten
<1> QED BY <1>1, <1>2, PartsNext

LEMMA StepInv == IInv /\ [MemoryNext]_memoryVars => IInv'
<1> SUFFICES ASSUME IInv, [MemoryNext]_memoryVars PROVE IInv'
  OBVIOUS
<1>1. CASE UNCHANGED memoryVars
  BY <1>1 DEF memoryVars, IInv, MemoryTypeOK, SyncedIsIndexed, Uploaded, RowsHaveConversations,
     OnlyRestoredForgotten
<1>2. CASE \/ SaveConversation
           \/ \E c \in Conversations : Expire(c)
           \/ ApiCleanup \/ MaintainerCleanup
           \/ ExportBackup \/ ImportBackup
  <2>1. UNCHANGED <<points, writing>>
    BY <1>2 DEF SaveConversation, ScheduleEmbedding, Expire, ApiCleanup, MaintainerCleanup, ExportBackup,
       ImportBackup
  <2> QED BY <2>1, <1>2, StoreStep
<1>3. ASSUME NEW w \in Writers, Select(w) \/ Continue(w) PROVE IInv'
  BY <1>3, SelectStep, ContinueStep
<1>4. ASSUME NEW k \in Kinds, Die(k) PROVE IInv'
  BY <1>4, DieStep
<1> QED BY <1>1, <1>2, <1>3, <1>4 DEF MemoryNext, Requests

LEMMA Invariance == MemorySpec => []IInv
BY InitInv, StepInv, PTL DEF MemorySpec

-----------------------------------------------------------------------------
(* What it means.                                                          *)

\* Every variable keeps its type: only saved conversations are stored, exported and
\* scheduled for an embedding.
THEOREM TypeCorrect == MemorySpec => []MemoryTypeOK
BY Invariance, PTL DEF IInv

\* However writers of all kinds overlap, fail and die, a row that says synced
\* (scripts/memory_system.py:829, :1363, :1473, memory_maintainer.py) has its point.
THEOREM SyncedRowsAreIndexed == MemorySpec => []SyncedIsIndexed
BY Invariance, PTL DEF IInv

\* Neither cleanup nor restore nor a late writer leaves a row without its conversation.
THEOREM NoOrphans == MemorySpec => []RowsHaveConversations
BY Invariance, PTL DEF IInv

\* What has no row, and so will never be embedded, came out of a backup.
THEOREM ForgottenWereRestored == MemorySpec => []OnlyRestoredForgotten
BY Invariance, PTL DEF IInv

\* A writer that read a row before it was deleted does not bring it back.
THEOREM DeletedRowsStayGone == MemorySpec => RowsStayGone
<1>1. ASSUME IInv, [MemoryNext]_memoryVars, NEW c \in 1..saved, row[c] = "none"
      PROVE  row'[c] = "none"
  <2> c \in Conversations /\ row \in [Conversations -> Statuses] /\ saved \in Nat
    BY <1>1, MemoryAssumption DEF IInv, MemoryTypeOK, Statuses, Conversations
  <2>1. ASSUME NEW S, NEW s \in {"synced", "failed"}, SetStatus(S, s)
        PROVE  row'[c] = "none"
    BY <1>1, <2>1, Updating
  <2>2. CASE SaveConversation
    BY <1>1, <2>2 DEF SaveConversation, ScheduleEmbedding
  <2>3. CASE ImportBackup \/ ApiCleanup \/ MaintainerCleanup
    BY <1>1, <2>3 DEF ImportBackup, ApiCleanup, MaintainerCleanup, DeleteExpired
  <2>4. ASSUME NEW w \in Writers, Mark(w) \/ MarkFailed(w) PROVE row'[c] = "none"
    BY <1>1, <2>1, <2>4 DEF Mark, MarkFailed
  <2>5. CASE UNCHANGED row
    BY <1>1, <2>5
  <2>6. ASSUME NEW w \in Writers, Select(w) \/ Continue(w) PROVE row'[c] = "none"
    <3>1. CASE UNCHANGED tables
      BY <3>1, <2>5 DEF tables
    <3> QED BY <2>6, <2>4, <3>1
        DEF Select, ProcessPending, BatchSync, SyncToQdrant, Continue, Embed,
            EmbedFails, Upload, UploadFails, MarkFails, GiveUp
  <2> QED BY <1>1, <2>2, <2>3, <2>5, <2>6
      DEF MemoryNext, Requests, memoryVars, Expire, ExportBackup, Die, tables
<1>2. IInv /\ [MemoryNext]_memoryVars => [\A c \in 1..saved : row[c] = "none" => row'[c] = "none"]_memoryVars
  BY <1>1
<1> QED BY <1>2, Invariance, PTL DEF MemorySpec, RowsStayGone

-----------------------------------------------------------------------------
(* What the memory keeps and finds.                                        *)

Conversation == [exchange : Exchanges, saver : {"server", "client"}, since : Nat, expires : Nat]

KeepingTyped ==
    /\ server \in {"service", "gateway"}
    /\ day \in Nat
    /\ \A e \in Exchanges : feature[e] \in AllFeatures
    /\ conv \in Seq(Conversation)
    /\ kept \subseteq DOMAIN conv
    /\ client \in [Exchanges -> {"waiting", "saved", "lost"}]
    /\ request \in [Exchanges -> {"sent", "answered"}]

FindingTyped ==
    /\ payloads \in [1..MaxRows -> {"none", "timed", "untimed"}]
    /\ search \in [Searches -> SearchInfo]

\* How long a conversation stays that is marked so.
Stay(mark) == IF mark = "important" THEN 180 ELSE 3

\* Neither server nor command line saves an exchange twice, and what is reported is saved.
OncePerSaver ==
    /\ \A i, j \in DOMAIN conv :
          conv[i].exchange = conv[j].exchange /\ conv[i].saver = conv[j].saver => i = j
    /\ \A e \in Exchanges :
          client[e] = "saved" => \E i \in DOMAIN conv : conv[i].exchange = e

\* When a conversation expires, if it does, and that none is deleted before.
WorthItsDays ==
    /\ \A i \in DOMAIN conv :
          LET mark == feature[conv[i].exchange].mark
          IN  conv[i].expires # Never =>
                 mark # "saved" /\ conv[i].expires >= conv[i].since + Stay(mark)
    /\ \A i \in DOMAIN conv \ kept : conv[i].expires # Never /\ conv[i].expires <= day

\* Who still may save an exchange has not done so, and only the command line saves its own.
SavedBy ==
    /\ \A i \in DOMAIN conv :
          /\ conv[i].saver = "server" => request[conv[i].exchange] = "answered"
          /\ conv[i].saver = "client" =>
                 client[conv[i].exchange] = "saved" /\ conv[i].exchange \notin Direct
    /\ \A e \in Exchanges :
          request[e] = "answered" => \E i \in DOMAIN conv : conv[i].exchange = e

\* Behind the gateway no payload has a timestamp.
NothingTimed == server = "gateway" => \A i \in DOMAIN payloads : payloads[i] # "timed"

\* What the properties about searches say together.
SearchesFair == TextHitsSurvive /\ GatewayFindsNothing

KeepingInv == KeepingTyped /\ WorthItsDays /\ SavedBy /\ OncePerSaver
FindingInv == FindingTyped /\ NothingTimed /\ SearchesFair

-----------------------------------------------------------------------------
(* The score of a conversation, and the days it buys.                      *)

LEMMA MaxOfTwo ==
    ASSUME NEW a \in Int, NEW b \in Int
    PROVE  Max({a, b}) = IF a >= b THEN a ELSE b
<1> DEFINE m == IF a >= b THEN a ELSE b
<1>1. m \in {a, b} /\ \A y \in {a, b} : m >= y
  OBVIOUS
<1>2. \A x \in {a, b} : (\A y \in {a, b} : x >= y) => x = m
  OBVIOUS
<1> HIDE DEF m
<1>3. Max({a, b}) = m
  BY <1>1, <1>2 DEF Max
<1> QED BY <1>3 DEF m

LEMMA MinOfTwo ==
    ASSUME NEW a \in Int, NEW b \in Int
    PROVE  Min({a, b}) = IF a <= b THEN a ELSE b
<1> DEFINE m == IF a <= b THEN a ELSE b
<1>1. m \in {a, b} /\ \A y \in {a, b} : m <= y
  OBVIOUS
<1>2. \A x \in {a, b} : (\A y \in {a, b} : x <= y) => x = m
  OBVIOUS
<1> HIDE DEF m
<1>3. Min({a, b}) = m
  BY <1>1, <1>2 DEF Min
<1> QED BY <1>3 DEF m

\* A score lies between 1 and 10, and a mark is stronger than all that speaks against it
\* (calculate_importance_score).
THEOREM ScoresOfMarks ==
    ASSUME NEW f \in AllFeatures
    PROVE  /\ Importance(f) \in 1..10
           /\ f.mark = "saved" => Importance(f) = 10
           /\ f.mark = "important" => Importance(f) >= 8
<1> DEFINE u == Unmarked(f)
           marked == CASE f.mark = "saved"     -> 10
                       [] f.mark = "important" -> Max({u, 8})
                       [] OTHER                -> u
           b == Bonus(f.longQuery)
<1>1. f.high \in Int /\ f.low \in Int /\ f.mark \in Marks
  <2>1. f.high \in 0..4
    BY DEF AllFeatures
  <2>2. f.low \in 0..3
    BY DEF AllFeatures
  <2>3. f.mark \in Marks
    BY DEF AllFeatures
  <2> QED BY <2>1, <2>2, <2>3
<1>2. Min({f.high, 3}) \in Int /\ Min({f.low, 2}) \in Int
  BY <1>1, MinOfTwo
<1>3. LengthBonus(f.answer) \in Int /\ Bonus(f.code) \in Int /\ Bonus(f.codeModel) \in Int
  BY DEF LengthBonus, Bonus
<1>4. u \in Int
  BY <1>2, <1>3 DEF Unmarked
<1>5. b \in 0..1
  BY DEF Bonus
<1> HIDE DEF u, b
<1>6. Max({u, 8}) = IF u >= 8 THEN u ELSE 8
  BY <1>4, MaxOfTwo
<1>7. /\ marked \in Int
      /\ f.mark = "saved" => marked = 10
      /\ f.mark = "important" => marked >= 8
  BY <1>1, <1>4, <1>6
<1> HIDE DEF marked
<1> DEFINE least == IF 10 <= marked + b THEN 10 ELSE marked + b
<1>8. Min({10, marked + b}) = least
  BY <1>5, <1>7, MinOfTwo
<1>9. least \in Int
  BY <1>5, <1>7
<1>10. Max({1, least}) = IF 1 >= least THEN 1 ELSE least
  BY <1>9, MaxOfTwo
<1>11. Importance(f) = Max({1, least})
  BY <1>8 DEF Importance, marked, u, b
<1> QED BY <1>5, <1>7, <1>10, <1>11

\* No day of the table is shorter than what a mark promises.
LEMMA DaysOfScores ==
    ASSUME day \in Nat, NEW f \in AllFeatures
    PROVE  LET until == ExpiresAt(Importance(f))
           IN  /\ until \in Nat
               /\ until # Never => f.mark # "saved" /\ until >= day + Stay(f.mark)
<1> DEFINE s == Importance(f)
<1>1. /\ s \in 1..10
      /\ f.mark = "saved" => s = 10
      /\ f.mark = "important" => s >= 8
  BY ScoresOfMarks
<1> HIDE DEF s
<1>2. /\ TTL[s] \in Int
      /\ s = 10 => TTL[s] = -1
      /\ s >= 8 => TTL[s] >= 180 \/ TTL[s] = -1
      /\ TTL[s] > 0 => TTL[s] >= 3
  BY <1>1 DEF TTL
<1>3. ExpiresAt(s) = IF TTL[s] > 0 THEN day + TTL[s] ELSE 0
  BY DEF ExpiresAt, Never
<1>4. /\ ExpiresAt(s) \in Nat
      /\ ExpiresAt(s) # Never => f.mark # "saved" /\ ExpiresAt(s) >= day + Stay(f.mark)
  BY <1>1, <1>2, <1>3 DEF Stay, Never
<1> QED BY <1>4 DEF s

-----------------------------------------------------------------------------
(* Keeping and finding touch one another nowhere but in what is kept.      *)

keeping == <<saving, kept, day>>
finding == <<server, payloads, search>>

LEMMA RecallConstants ==
    /\ MaxRows \in Int
    /\ Days \subseteq Nat
    /\ \A e \in Exchanges : Features[e] \subseteq AllFeatures
<1>1. IsFiniteSet(Direct) /\ IsFiniteSet(Exchanges)
  BY RecallAssumption, FS_Subset
<1>2. Cardinality(Direct) \in Nat /\ Cardinality(Exchanges) \in Nat
  BY <1>1, FS_CardinalityType
<1>3. MaxRows \in Int
  BY <1>2 DEF MaxRows
<1> QED BY <1>3, RecallAssumption

LEMMA Divided ==
    ASSUME [RecallNext]_recallVars
    PROVE  /\ \/ \E d \in Days : Tick(d)
              \/ \E e \in Exchanges : Saving(e)
              \/ Cleanup
              \/ UNCHANGED keeping
           /\ \/ \E i \in kept : StoreVectors(i) \/ SyncVectors(i)
              \/ Restart
              \/ \E q \in Searches : Searching(q)
              \/ UNCHANGED finding
<1> USE DEF keeping, finding, saving, outside, switches
<1>1. CASE UNCHANGED recallVars
  BY <1>1 DEF recallVars
<1>2. CASE \E d \in Days : Tick(d)
  BY <1>2 DEF Tick
<1>3. CASE \E e \in Exchanges : Saving(e)
  <2>1. UNCHANGED finding
    BY <1>3 DEF Saving, ServerSaves, HearSaved, SaveLocally
  <2> QED BY <1>3, <2>1
<1>4. CASE Cleanup
  BY <1>4 DEF Cleanup
<1>5. CASE StopQdrant \/ StartQdrant \/ Recover
  BY <1>5 DEF StopQdrant, StartQdrant, Recover
<1>6. CASE \E i \in kept : StoreVectors(i) \/ SyncVectors(i)
  <2>1. UNCHANGED keeping
    BY <1>6 DEF StoreVectors, SyncVectors
  <2> QED BY <1>6, <2>1
<1>7. CASE Restart
  BY <1>7 DEF Restart
<1>8. CASE \E q \in Searches : Searching(q)
  <2>1. UNCHANGED keeping
    BY <1>8 DEF Searching, SearchText, SearchHybrid, SearchVectors, AskQdrant, EmbeddingFails
  <2> QED BY <1>8, <2>1
<1> QED BY <1>1, <1>2, <1>3, <1>4, <1>5, <1>6, <1>7, <1>8 DEF RecallNext

-----------------------------------------------------------------------------
(* Keeping.                                                                *)

LEMMA KeepingInit == RecallInit => KeepingInv
<1> SUFFICES ASSUME RecallInit PROVE KeepingInv
  OBVIOUS
<1>1. KeepingTyped
  BY RecallConstants DEF RecallInit, KeepingTyped
<1>2. DOMAIN conv = {}
  BY DEF RecallInit
<1> QED BY <1>1, <1>2 DEF RecallInit, KeepingInv, WorthItsDays, SavedBy, OncePerSaver

LEMMA ConversationsTyped ==
    KeepingTyped => \A i \in DOMAIN conv : conv[i].exchange \in Exchanges /\ conv[i].expires \in Nat
<1> SUFFICES ASSUME KeepingTyped, NEW i \in DOMAIN conv
             PROVE  conv[i].exchange \in Exchanges /\ conv[i].expires \in Nat
  OBVIOUS
<1>1. conv \in Seq(Conversation)
  BY DEF KeepingTyped
<1>2. conv[i] \in Conversation
  BY <1>1
<1> QED BY <1>2 DEF Conversation

\* save_conversation puts one more conversation behind the others.
LEMMA SavingOne ==
    ASSUME KeepingTyped, NEW e \in Exchanges, NEW saver \in {"server", "client"},
           Save(e, saver)
    PROVE  LET n == Len(conv) + 1
           IN  /\ n \in Nat /\ n \notin DOMAIN conv
               /\ conv' \in Seq(Conversation) /\ DOMAIN conv' = DOMAIN conv \cup {n}
               /\ \A i \in DOMAIN conv : conv'[i] = conv[i]
               /\ conv'[n] = [exchange |-> e, saver |-> saver, since |-> day,
                              expires |-> ExpiresAt(Importance(feature[e]))]
               /\ kept' = kept \cup {n}
<1> DEFINE until == ExpiresAt(Importance(feature[e]))
           c == [exchange |-> e, saver |-> saver, since |-> day, expires |-> until]
<1>1. until \in Nat
  BY DaysOfScores DEF KeepingTyped
<1> HIDE DEF until
<1>2. c \in Conversation
  BY <1>1 DEF KeepingTyped, Conversation
<1>3. conv' = Append(conv, c) /\ kept' = kept \cup {Len(conv) + 1}
  BY DEF Save, until
<1> HIDE DEF c
<1>4. conv \in Seq(Conversation)
  BY DEF KeepingTyped
<1>5. /\ Len(conv) \in Nat /\ DOMAIN conv = 1..Len(conv)
      /\ conv' \in Seq(Conversation) /\ Len(conv') = Len(conv) + 1
      /\ \A i \in 1..Len(conv) : conv'[i] = conv[i]
      /\ conv'[Len(conv) + 1] = c
  BY <1>2, <1>3, <1>4
<1>6. DOMAIN conv' = 1..(Len(conv) + 1)
  BY <1>5
<1> QED BY <1>3, <1>5, <1>6 DEF c, until

\* A conversation that is saved will stay as long as it is worth.
LEMMA SavingKeepsWorth ==
    ASSUME KeepingInv, NEW e \in Exchanges, NEW saver \in {"server", "client"},
           Save(e, saver), UNCHANGED <<day, feature>>
    PROVE  WorthItsDays'
<1> DEFINE n == Len(conv) + 1
           until == ExpiresAt(Importance(feature[e]))
<1>1. /\ n \notin DOMAIN conv /\ DOMAIN conv' = DOMAIN conv \cup {n}
      /\ \A i \in DOMAIN conv : conv'[i] = conv[i]
      /\ conv'[n] = [exchange |-> e, saver |-> saver, since |-> day, expires |-> until]
      /\ kept' = kept \cup {n}
  BY SavingOne DEF KeepingInv
<1>2. until # Never => feature[e].mark # "saved" /\ until >= day + Stay(feature[e].mark)
  BY DaysOfScores DEF KeepingInv, KeepingTyped
<1> HIDE DEF n, until
<1>3. ASSUME NEW i \in DOMAIN conv', conv'[i].expires # Never
      PROVE  LET mark == feature[conv'[i].exchange].mark
             IN  mark # "saved" /\ conv'[i].expires >= conv'[i].since + Stay(mark)
  <2>1. CASE i = n
    BY <1>1, <1>2, <1>3, <2>1
  <2>2. CASE i # n
    BY <1>1, <1>3, <2>2 DEF KeepingInv, WorthItsDays
  <2> QED BY <2>1, <2>2
<1>4. ASSUME NEW i \in DOMAIN conv' \ kept'
      PROVE  conv'[i].expires # Never /\ conv'[i].expires <= day
  BY <1>1 DEF KeepingInv, WorthItsDays
<1> QED BY <1>3, <1>4 DEF WorthItsDays

\* The server saves what it has not saved, and so does the command line.
LEMMA SavingKeepsSaved ==
    ASSUME KeepingInv, NEW e \in Exchanges, NEW saver \in {"server", "client"},
           Save(e, saver),
           \/ /\ saver = "server" /\ request[e] = "sent"
              /\ request' = [request EXCEPT ![e] = "answered"] /\ UNCHANGED client
           \/ /\ saver = "client" /\ client[e] = "waiting" /\ e \notin Direct
              /\ client' = [client EXCEPT ![e] = "saved"] /\ UNCHANGED request
    PROVE  SavedBy' /\ OncePerSaver'
<1> DEFINE n == Len(conv) + 1
           c == [exchange |-> e, saver |-> saver, since |-> day,
                 expires |-> ExpiresAt(Importance(feature[e]))]
<1>0. c.exchange = e /\ c.saver = saver
  OBVIOUS
<1>1. /\ n \notin DOMAIN conv /\ DOMAIN conv' = DOMAIN conv \cup {n}
      /\ \A i \in DOMAIN conv : conv'[i] = conv[i]
      /\ conv'[n].exchange = e /\ conv'[n].saver = saver
  <2> HIDE DEF c
  <2>1. /\ n \notin DOMAIN conv /\ DOMAIN conv' = DOMAIN conv \cup {n}
        /\ \A i \in DOMAIN conv : conv'[i] = conv[i]
        /\ conv'[n] = c
    BY SavingOne DEF KeepingInv, c
  <2> QED BY <1>0, <2>1
<1> HIDE DEF n
<1>2. \A i \in DOMAIN conv : conv[i].exchange \in Exchanges
  BY ConversationsTyped DEF KeepingInv
<1>3. \A i \in DOMAIN conv : ~(conv[i].exchange = e /\ conv[i].saver = saver)
  BY DEF KeepingInv, SavedBy
<1>4. /\ client \in [Exchanges -> {"waiting", "saved", "lost"}]
      /\ request \in [Exchanges -> {"sent", "answered"}]
  BY DEF KeepingInv, KeepingTyped
<1>5. \A i \in DOMAIN conv' :
          /\ conv'[i].saver = "server" => request'[conv'[i].exchange] = "answered"
          /\ conv'[i].saver = "client" =>
                 client'[conv'[i].exchange] = "saved" /\ conv'[i].exchange \notin Direct
  BY <1>1, <1>2, <1>4 DEF KeepingInv, SavedBy
<1>6. \A x \in Exchanges :
          request'[x] = "answered" \/ client'[x] = "saved" =>
              \E i \in DOMAIN conv' : conv'[i].exchange = x
  <2> SUFFICES ASSUME NEW x \in Exchanges, request'[x] = "answered" \/ client'[x] = "saved"
               PROVE  \E i \in DOMAIN conv' : conv'[i].exchange = x
    OBVIOUS
  <2>1. CASE x = e
    BY <1>1, <2>1
  <2>2. CASE x # e
    <3>1. request[x] = "answered" \/ client[x] = "saved"
      BY <1>4, <2>2
    <3>2. PICK i \in DOMAIN conv : conv[i].exchange = x
      BY <3>1 DEF KeepingInv, SavedBy, OncePerSaver
    <3> QED BY <1>1, <3>2
  <2> QED BY <2>1, <2>2
<1>7. \A i, j \in DOMAIN conv' :
          conv'[i].exchange = conv'[j].exchange /\ conv'[i].saver = conv'[j].saver => i = j
  BY <1>1, <1>3 DEF KeepingInv, OncePerSaver
<1> QED BY <1>5, <1>6, <1>7 DEF SavedBy, OncePerSaver

LEMMA KeepingStep == KeepingInv /\ [RecallNext]_recallVars => KeepingInv'
<1> SUFFICES ASSUME KeepingInv, [RecallNext]_recallVars PROVE KeepingInv'
  OBVIOUS
<1> USE DEF KeepingInv
<1>1. CASE UNCHANGED keeping
  BY <1>1 DEF keeping, saving, KeepingTyped, WorthItsDays, SavedBy, OncePerSaver
<1>2. ASSUME NEW d \in Days, Tick(d) PROVE KeepingInv'
  <2>1. day' \in Nat /\ day < day' /\ UNCHANGED <<saving, kept>>
    BY <1>2, RecallConstants DEF Tick
  <2>2. \A i \in DOMAIN conv : conv[i].expires \in Nat
    BY ConversationsTyped
  <2>3. KeepingTyped'
    BY <2>1 DEF saving, KeepingTyped
  <2>4. WorthItsDays'
    BY <2>1, <2>2 DEF saving, KeepingTyped, WorthItsDays
  <2> QED BY <2>1, <2>3, <2>4 DEF saving, SavedBy, OncePerSaver
<1>3. ASSUME NEW e \in Exchanges, Saving(e) PROVE KeepingInv'
  <2>1. CASE ServerSaves(e)
    <3>1. /\ Save(e, "server") /\ request[e] = "sent"
          /\ request' = [request EXCEPT ![e] = "answered"]
          /\ UNCHANGED <<server, shared, day, feature, client>>
      BY <2>1 DEF ServerSaves
    <3>2. conv' \in Seq(Conversation) /\ kept' \subseteq DOMAIN conv'
      BY <3>1, SavingOne DEF KeepingTyped
    <3>3. KeepingTyped'
      BY <3>1, <3>2 DEF KeepingTyped
    <3> QED BY <3>1, <3>3, SavingKeepsWorth, SavingKeepsSaved
  <2>2. CASE HearSaved(e)
    <3>1. /\ request[e] = "answered" /\ client' = [client EXCEPT ![e] = "saved"]
          /\ UNCHANGED <<server, shared, day, feature, conv, request, kept>>
      BY <2>2 DEF HearSaved
    <3>2. KeepingTyped' /\ WorthItsDays'
      BY <3>1 DEF KeepingTyped, WorthItsDays
    <3>3. \A i \in DOMAIN conv : conv[i].exchange \in Exchanges
      BY ConversationsTyped
    <3>4. \A x \in Exchanges : client'[x] = "saved" => client[x] = "saved" \/ x = e
      BY <3>1 DEF KeepingTyped
    <3>5. \A x \in Exchanges : client[x] = "saved" => client'[x] = "saved"
      BY <3>1 DEF KeepingTyped
    <3>6. SavedBy'
      BY <3>1, <3>3, <3>5 DEF SavedBy
    <3>7. OncePerSaver'
      BY <3>1, <3>4 DEF SavedBy, OncePerSaver
    <3> QED BY <3>2, <3>6, <3>7
  <2>3. CASE SaveLocally(e) /\ ~(client' = [client EXCEPT ![e] = "lost"] /\ UNCHANGED <<conv, kept>>)
    <3>1. /\ Save(e, "client") /\ client[e] = "waiting" /\ e \notin Direct
          /\ client' = [client EXCEPT ![e] = "saved"]
          /\ UNCHANGED <<server, shared, day, feature, request>>
      BY <2>3 DEF SaveLocally
    <3>2. conv' \in Seq(Conversation) /\ kept' \subseteq DOMAIN conv'
      BY <3>1, SavingOne DEF KeepingTyped
    <3>3. KeepingTyped'
      BY <3>1, <3>2 DEF KeepingTyped
    <3> QED BY <3>1, <3>3, SavingKeepsWorth, SavingKeepsSaved
  <2>4. CASE SaveLocally(e) /\ client' = [client EXCEPT ![e] = "lost"] /\ UNCHANGED <<conv, kept>>
    <3>1. /\ client[e] = "waiting" /\ client' = [client EXCEPT ![e] = "lost"]
          /\ UNCHANGED <<server, shared, day, feature, request, conv, kept>>
      BY <2>4 DEF SaveLocally
    <3>2. KeepingTyped' /\ WorthItsDays'
      BY <3>1 DEF KeepingTyped, WorthItsDays
    <3>3. \A i \in DOMAIN conv : conv[i].exchange \in Exchanges
      BY ConversationsTyped
    <3>4. \A x \in Exchanges : client'[x] = "saved" <=> client[x] = "saved"
      BY <3>1 DEF KeepingTyped
    <3>5. SavedBy' /\ OncePerSaver'
      BY <3>1, <3>3, <3>4 DEF SavedBy, OncePerSaver
    <3> QED BY <3>2, <3>5
  <2> QED BY <1>3, <2>1, <2>2, <2>3, <2>4 DEF Saving
<1>4. CASE Cleanup
  <2>1. kept' = kept \ Overdue /\ UNCHANGED <<day, saving>>
    BY <1>4 DEF Cleanup
  <2>2. KeepingTyped'
    BY <2>1 DEF saving, KeepingTyped
  <2>3. WorthItsDays'
    BY <2>1 DEF saving, Overdue, WorthItsDays, KeepingTyped
  <2> QED BY <2>1, <2>2, <2>3 DEF saving, SavedBy, OncePerSaver
<1> QED BY <1>1, <1>2, <1>3, <1>4, Divided

-----------------------------------------------------------------------------
(* Finding.                                                                *)

LEMMA FindingInit == RecallInit => FindingInv
<1> SUFFICES ASSUME RecallInit PROVE FindingInv
  OBVIOUS
<1>1. IdleSearch \in SearchInfo /\ IdleSearch.at = "idle" /\ IdleSearch.answer = {}
  BY DEF IdleSearch, SearchInfo
<1>2. /\ payloads = [i \in 1..MaxRows |-> "none"]
      /\ search = [q \in Searches |-> IdleSearch]
  BY DEF RecallInit
<1> QED BY <1>1, <1>2 DEF FindingInv, FindingTyped, NothingTimed, SearchesFair, TextHitsSurvive, GatewayFindsNothing

\* A search that gives way or answers, and keeps the promise.
LEMMA SearchOn ==
    ASSUME FindingInv, NEW q \in Searches, NEW at \in {"embedding", "answered"},
           NEW text \in SUBSET (1..MaxRows), NEW hits \in SUBSET (1..MaxRows),
           NEW found \in SUBSET (1..MaxRows),
           at = "answered" => text \subseteq found,
           server = "gateway" => found \subseteq text,
           search' = [search EXCEPT ![q] =
                         [at |-> at, text |-> text, hits |-> hits, answer |-> found]],
           UNCHANGED <<server, payloads>>
    PROVE  FindingInv'
<1> DEFINE r == [at |-> at, text |-> text, hits |-> hits, answer |-> found]
<1>1. r \in SearchInfo /\ r.at = at /\ r.text = text /\ r.answer = found
  BY DEF SearchInfo
<1> HIDE DEF r
<1>2. search' = [search EXCEPT ![q] = r]
  BY DEF r
<1>3. search' \in [Searches -> SearchInfo]
  BY <1>1, <1>2 DEF FindingInv, FindingTyped
<1>4. search'[q] = r /\ \A p \in Searches \ {q} : search'[p] = search[p]
  BY <1>2 DEF FindingInv, FindingTyped
<1>5. SearchesFair'
  BY <1>1, <1>4 DEF FindingInv, SearchesFair, TextHitsSurvive, GatewayFindsNothing
<1> QED BY <1>3, <1>5 DEF FindingInv, FindingTyped, NothingTimed

LEMMA TextHitsAreRows ==
    KeepingTyped /\ Len(conv) <= MaxRows => \A T \in TextHits : T \in SUBSET (1..MaxRows)
<1> SUFFICES ASSUME KeepingTyped, Len(conv) <= MaxRows, NEW T \in TextHits
             PROVE  T \in SUBSET (1..MaxRows)
  OBVIOUS
<1>1. T \subseteq DOMAIN conv
  BY DEF KeepingTyped, TextHits, UpTo, Searchable
<1>2. DOMAIN conv = 1..Len(conv) /\ Len(conv) \in Nat
  BY DEF KeepingTyped
<1>3. \A i \in 1..Len(conv) : i \in 1..MaxRows
  BY <1>2, RecallConstants
<1> QED BY <1>1, <1>2, <1>3

\* All hits are rows, and behind the gateway none can be read.
LEMMA HitsOfVectors ==
    ASSUME FindingInv, NEW hits \in VectorHits
    PROVE  /\ hits \in SUBSET (1..MaxRows)
           /\ Readable(hits) \in SUBSET (1..MaxRows)
           /\ server = "gateway" => Readable(hits) = {}
<1>1. hits \subseteq 1..MaxRows /\ \A i \in hits : payloads[i] # "none"
  BY DEF VectorHits, UpTo, FindingInv, FindingTyped
<1>2. \A i \in hits : payloads[i] \in {"timed", "untimed"}
  BY <1>1 DEF FindingInv, FindingTyped
<1>3. server = "gateway" => Readable(hits) = {}
  BY <1>1, <1>2 DEF Readable, FindingInv, FindingTyped, NothingTimed
<1> QED BY <1>1, <1>3 DEF Readable

LEMMA FindingStep ==
    KeepingTyped /\ Len(conv) <= MaxRows /\ FindingInv /\ [RecallNext]_recallVars => FindingInv'
<1> SUFFICES ASSUME KeepingTyped, Len(conv) <= MaxRows, FindingInv, [RecallNext]_recallVars
             PROVE  FindingInv'
  OBVIOUS
<1> USE DEF saving
<1>1. CASE UNCHANGED finding
  BY <1>1 DEF finding, FindingInv, FindingTyped, NothingTimed, SearchesFair, TextHitsSurvive, GatewayFindsNothing
<1>2. ASSUME NEW i \in kept, StoreVectors(i) \/ SyncVectors(i) PROVE FindingInv'
  <2>1. /\ UNCHANGED <<server, search>>
        /\ \/ payloads' = payloads
           \/ payloads' = [payloads EXCEPT ![i] = "untimed"]
           \/ server = "service" /\ payloads' = [payloads EXCEPT ![i] = "timed"]
    <3>1. CASE StoreVectors(i)
      BY <3>1 DEF StoreVectors
    <3>2. CASE SyncVectors(i)
      BY <3>2 DEF SyncVectors
    <3> QED BY <1>2, <3>1, <3>2
  <2>2. FindingTyped' /\ NothingTimed'
    BY <2>1 DEF FindingInv, FindingTyped, NothingTimed
  <2> QED BY <2>1, <2>2 DEF FindingInv, SearchesFair, TextHitsSurvive, GatewayFindsNothing
<1>3. CASE Restart
  <2>1. /\ UNCHANGED <<server, payloads>>
        /\ search' = [q \in Searches |->
                         IF search[q].at = "embedding" THEN IdleSearch ELSE search[q]]
    BY <1>3 DEF Restart
  <2>2. IdleSearch \in SearchInfo /\ IdleSearch.at = "idle" /\ IdleSearch.answer = {}
    BY DEF IdleSearch, SearchInfo
  <2> QED BY <2>1, <2>2 DEF FindingInv, FindingTyped, NothingTimed, SearchesFair, TextHitsSurvive, GatewayFindsNothing
<1>4. ASSUME NEW q \in Searches, Searching(q) PROVE FindingInv'
  <2>1. UNCHANGED <<server, payloads>>
    BY <1>4 DEF Searching, SearchText, SearchHybrid, SearchVectors, AskQdrant, EmbeddingFails
  <2>2. /\ search[q].text \in SUBSET (1..MaxRows) /\ {} \in SUBSET (1..MaxRows)
        /\ server \in {"service", "gateway"}
    BY DEF FindingInv, FindingTyped, SearchInfo, KeepingTyped
  <2>3. CASE SearchText(q)
    <3>1. PICK T \in TextHits : Answer(q, T, {}, T)
      BY <2>3 DEF SearchText
    <3> QED BY <2>1, <2>2, <3>1, TextHitsAreRows, SearchOn DEF Answer
  <2>4. CASE SearchHybrid(q)
    <3>1. PICK T \in TextHits : Begin(q, T)
      BY <2>4 DEF SearchHybrid
    <3>2. server = "service"
      BY <2>4 DEF SearchHybrid
    <3> QED BY <2>1, <2>2, <3>1, <3>2, TextHitsAreRows, SearchOn DEF Begin
  <2>5. CASE SearchVectors(q)
    <3>1. Begin(q, {}) \/ Answer(q, {}, {}, {})
      BY <2>5 DEF SearchVectors
    <3>2. CASE Begin(q, {})
      BY <2>1, <2>2, <3>2, SearchOn DEF Begin
    <3>3. CASE Answer(q, {}, {}, {})
      BY <2>1, <2>2, <3>3, SearchOn DEF Answer
    <3> QED BY <3>1, <3>2, <3>3
  <2>6. CASE AskQdrant(q)
    <3>1. PICK hits \in (IF Reached THEN VectorHits ELSE {{}}) :
              \E found \in Merged(search[q].text, Readable(hits)) :
                  Answer(q, search[q].text, hits, found)
      BY <2>6 DEF AskQdrant
    <3>2. PICK found \in Merged(search[q].text, Readable(hits)) :
              Answer(q, search[q].text, hits, found)
      BY <3>1
    <3>3. /\ hits \in SUBSET (1..MaxRows) /\ Readable(hits) \in SUBSET (1..MaxRows)
          /\ server = "gateway" => Readable(hits) = {}
      <4>1. CASE hits \in VectorHits
        BY <4>1, HitsOfVectors
      <4>2. CASE hits = {}
        BY <4>2 DEF Readable
      <4> QED BY <3>1, <4>1, <4>2
    <3>4. found \subseteq search[q].text \cup Readable(hits) /\ search[q].text \subseteq found
      BY <3>2 DEF Merged
    <3> QED BY <2>1, <2>2, <3>2, <3>3, <3>4, SearchOn DEF Answer
  <2>7. CASE EmbeddingFails(q)
    <3>1. Answer(q, search[q].text, {}, search[q].text)
      BY <2>7 DEF EmbeddingFails
    <3> QED BY <2>1, <2>2, <3>1, SearchOn DEF Answer
  <2> QED BY <1>4, <2>3, <2>4, <2>5, <2>6, <2>7 DEF Searching
<1> QED BY <1>1, <1>2, <1>3, <1>4, Divided

\* Everything else the type invariant says.
Switches ==
    /\ shared \in BOOLEAN
    /\ day \in Days
    /\ \A e \in Exchanges : feature[e] \in Features[e]
    /\ enabled \in BOOLEAN /\ connected \in BOOLEAN
    /\ qdrant \in BOOLEAN /\ outages \in 0..MaxOutages

LEMMA SwitchesInit == RecallInit => Switches
<1> SUFFICES ASSUME RecallInit PROVE Switches
  OBVIOUS
<1>1. 0 \in Days /\ MaxOutages \in Nat
  BY RecallAssumption
<1>2. 0 \in 0..MaxOutages
  BY <1>1
<1> QED BY <1>1, <1>2 DEF RecallInit, Switches

LEMMA SwitchesStep == Switches /\ [RecallNext]_recallVars => Switches'
<1> SUFFICES ASSUME Switches, [RecallNext]_recallVars PROVE Switches'
  OBVIOUS
<1> USE DEF Switches, saving, switches, outside
<1>1. CASE UNCHANGED recallVars
  BY <1>1 DEF recallVars
<1>2. ASSUME NEW d \in Days, Tick(d) PROVE Switches'
  BY <1>2 DEF Tick
<1>3. ASSUME NEW e \in Exchanges, Saving(e) PROVE Switches'
  BY <1>3 DEF Saving, ServerSaves, HearSaved, SaveLocally
<1>4. CASE Cleanup
  BY <1>4 DEF Cleanup
<1>5. CASE StopQdrant \/ StartQdrant
  <2>1. MaxOutages \in Nat
    BY RecallAssumption
  <2>2. outages < MaxOutages => outages + 1 \in 0..MaxOutages
    BY <2>1
  <2> QED BY <1>5, <2>2 DEF StopQdrant, StartQdrant
<1>6. ASSUME NEW i \in kept, StoreVectors(i) \/ SyncVectors(i) PROVE Switches'
  BY <1>6 DEF StoreVectors, SyncVectors, Connect
<1>7. CASE Recover \/ Restart
  BY <1>7 DEF Recover, Restart, TryRecovery
<1>8. ASSUME NEW q \in Searches, Searching(q) PROVE Switches'
  BY <1>8 DEF Searching, SearchText, SearchHybrid, SearchVectors, AskQdrant, EmbeddingFails, Connect
<1> QED BY <1>1, <1>2, <1>3, <1>4, <1>5, <1>6, <1>7, <1>8 DEF RecallNext

\* An exchange has at most one row that the server saved, and one of the command line's at
\* most another one that the command line saved.
LEMMA RowsFit == KeepingInv => Len(conv) <= MaxRows
<1> SUFFICES ASSUME KeepingInv PROVE Len(conv) <= MaxRows
  OBVIOUS
<1> DEFINE Served == Exchanges \X {"server"}
           Own == (Exchanges \ Direct) \X {"client"}
           place == [i \in DOMAIN conv |-> <<conv[i].exchange, conv[i].saver>>]
<1>1. /\ IsFiniteSet(Exchanges) /\ IsFiniteSet(Direct) /\ IsFiniteSet(Exchanges \ Direct)
      /\ Cardinality(Exchanges) \in Nat /\ Cardinality(Direct) \in Nat
      /\ Cardinality(Exchanges \ Direct) = Cardinality(Exchanges) - Cardinality(Direct)
  <2>1. IsFiniteSet(Exchanges) /\ Direct \subseteq Exchanges
    BY RecallAssumption
  <2>2. IsFiniteSet(Direct) /\ IsFiniteSet(Exchanges \ Direct)
    BY <2>1, FS_Subset
  <2>3. Exchanges \cap Direct = Direct
    BY <2>1
  <2>4. Cardinality(Exchanges \ Direct) = Cardinality(Exchanges) - Cardinality(Exchanges \cap Direct)
    BY <2>1, FS_Difference
  <2> QED BY <2>1, <2>2, <2>3, <2>4, FS_CardinalityType
<1>2. /\ IsFiniteSet(Served) /\ Cardinality(Served) = Cardinality(Exchanges)
      /\ IsFiniteSet(Own) /\ Cardinality(Own) = Cardinality(Exchanges \ Direct)
  <2>1. \A x : IsFiniteSet({x}) /\ Cardinality({x}) = 1
    BY FS_Singleton
  <2>2. /\ IsFiniteSet(Served)
        /\ Cardinality(Served) = Cardinality(Exchanges) * Cardinality({"server"})
    BY <1>1, <2>1, FS_Product
  <2>3. /\ IsFiniteSet(Own)
        /\ Cardinality(Own) = Cardinality(Exchanges \ Direct) * Cardinality({"client"})
    BY <1>1, <2>1, FS_Product
  <2>4. Cardinality(Exchanges \ Direct) \in Nat
    BY <1>1, FS_CardinalityType
  <2> HIDE DEF Served, Own
  <2>5. Cardinality(Exchanges) * 1 = Cardinality(Exchanges)
    BY <1>1
  <2>6. Cardinality(Exchanges \ Direct) * 1 = Cardinality(Exchanges \ Direct)
    BY <2>4
  <2> QED BY <2>1, <2>2, <2>3, <2>5, <2>6
<1>3. Served \cap Own = {}
  OBVIOUS
<1>4. \A i \in DOMAIN conv : <<conv[i].exchange, conv[i].saver>> \in Served \cup Own
  <2> SUFFICES ASSUME NEW i \in DOMAIN conv
               PROVE  <<conv[i].exchange, conv[i].saver>> \in Served \cup Own
    OBVIOUS
  <2>1. conv \in Seq(Conversation)
    BY DEF KeepingInv, KeepingTyped
  <2>2. conv[i] \in Conversation
    BY <2>1
  <2>3. conv[i].exchange \in Exchanges /\ conv[i].saver \in {"server", "client"}
    BY <2>2 DEF Conversation
  <2>4. conv[i].saver = "client" => conv[i].exchange \notin Direct
    BY DEF KeepingInv, SavedBy
  <2> QED BY <2>3, <2>4
<1>5. \A i, j \in DOMAIN conv : place[i] = place[j] => i = j
  BY DEF KeepingInv, OncePerSaver
<1> HIDE DEF Served, Own
<1>6. place \in [DOMAIN conv -> Served \cup Own]
  BY <1>4
<1> HIDE DEF place
<1>7. place \in Injection(DOMAIN conv, Served \cup Own)
  BY <1>5, <1>6 DEF Injection, IsInjective
<1>8. /\ IsFiniteSet(Served \cup Own)
      /\ Cardinality(Served \cup Own) = Cardinality(Served) + Cardinality(Own)
  <2>1. IsFiniteSet(Served \cup Own)
    BY <1>2, FS_Union
  <2>2. Cardinality(Served \cup Own) =
            Cardinality(Served) + Cardinality(Own) - Cardinality(Served \cap Own)
    BY <1>2, FS_Union
  <2>3. Cardinality(Served \cap Own) = 0
    BY <1>3, FS_EmptySet
  <2>4. Cardinality(Served) \in Nat /\ Cardinality(Own) \in Nat
    BY <1>2, FS_CardinalityType
  <2> QED BY <2>1, <2>2, <2>3, <2>4
<1>9. Cardinality(DOMAIN conv) <= Cardinality(Served \cup Own)
  BY <1>7, <1>8, FS_Injection
<1>10. Cardinality(DOMAIN conv) = Len(conv) /\ Len(conv) \in Nat
  <2>1. DOMAIN conv = 1..Len(conv) /\ Len(conv) \in Nat
    BY DEF KeepingInv, KeepingTyped
  <2>2. Cardinality(1..Len(conv)) = IF 1 > Len(conv) THEN 0 ELSE Len(conv) - 1 + 1
    BY <2>1, FS_Interval
  <2> QED BY <2>1, <2>2
<1> QED BY <1>1, <1>2, <1>8, <1>9, <1>10 DEF MaxRows

LEMMA RecallInvariance == RecallSpec => [](KeepingInv /\ FindingInv /\ Switches)
<1>1. KeepingInv => KeepingTyped /\ Len(conv) <= MaxRows
  BY RowsFit DEF KeepingInv
<1> QED BY <1>1, KeepingInit, KeepingStep, FindingInit, FindingStep, SwitchesInit, SwitchesStep, PTL
           DEF RecallSpec

-----------------------------------------------------------------------------
\* The variables keep their types; in particular there are never more rows than one per
\* exchange and another one per exchange of the command line.
THEOREM RecallTypes == RecallSpec => []RecallTypeOK
<1>1. KeepingInv /\ FindingInv /\ Switches => RecallTypeOK
  BY RowsFit DEF KeepingInv, KeepingTyped, FindingInv, FindingTyped, Switches, RecallTypeOK
<1> QED BY <1>1, RecallInvariance, PTL

\* What the user marked as saved is never deleted, and what was marked as important not
\* before half a year is over (calculate_importance_score, save_conversation, the
\* maintainer's cleanup_expired_conversations).
THEOREM WorthIsKept == RecallSpec => []KeptForItsWorth
<1>1. KeepingInv => KeptForItsWorth
  <2> SUFFICES ASSUME KeepingInv, NEW i \in DOMAIN conv \ kept
               PROVE  LET mark == feature[conv[i].exchange].mark
                      IN  /\ mark # "saved"
                          /\ mark = "important" => day >= conv[i].since + 180
    BY DEF KeptForItsWorth
  <2>1. conv[i] \in Conversation
    <3>1. conv \in Seq(Conversation)
      BY DEF KeepingInv, KeepingTyped
    <3> QED BY <3>1
  <2>2. conv[i].since \in Nat /\ conv[i].expires \in Nat /\ day \in Nat
    BY <2>1 DEF Conversation, KeepingInv, KeepingTyped
  <2> QED BY <2>2 DEF KeepingInv, WorthItsDays, Stay
<1> QED BY <1>1, RecallInvariance, PTL

\* However late the server's answer is, an exchange is stored once by the server and once
\* by the command line at most; the two copies lie in one project only where the two share
\* it; and who is told that his exchange is saved finds it (save_conversation_to_memory,
\* its fallback, and get_project_id).
THEOREM CopiesOfAnExchange == RecallSpec => []StoredOnceByEach
<1>1. KeepingInv => StoredOnceByEach
  <2> SUFFICES ASSUME KeepingInv PROVE StoredOnceByEach
    OBVIOUS
  <2>1. \A i \in DOMAIN conv : conv[i].saver \in {"server", "client"}
    <3> SUFFICES ASSUME NEW i \in DOMAIN conv PROVE conv[i].saver \in {"server", "client"}
      OBVIOUS
    <3>1. conv \in Seq(Conversation)
      BY DEF KeepingInv, KeepingTyped
    <3>2. conv[i] \in Conversation
      BY <3>1
    <3> QED BY <3>2 DEF Conversation
  <2>2. \A i, j \in DOMAIN conv :
            i # j /\ conv[i].exchange = conv[j].exchange => conv[i].saver # conv[j].saver
    BY DEF KeepingInv, OncePerSaver
  <2>3. \A i, j \in DOMAIN conv :
            conv[i].saver # conv[j].saver /\ Project(i) = Project(j) => shared
    BY <2>1 DEF Project
  <2> QED BY <2>2, <2>3 DEF StoredOnceByEach, KeepingInv, OncePerSaver
<1> QED BY <1>1, RecallInvariance, PTL

\* Vector search costs nobody a text hit (hybrid_search_conversations).
THEOREM TextHitsAreKept == RecallSpec => []TextHitsSurvive
<1>1. FindingInv => TextHitsSurvive
  BY DEF FindingInv, SearchesFair
<1> QED BY <1>1, RecallInvariance, PTL

\* Behind the gateway vector search adds nothing to the text hits, for any number of
\* searches, any limit, and whatever the writers bring to Qdrant: why VectorHitsArrive
\* cannot hold there (vector_search_conversations, build_qdrant_payload).
THEOREM NothingByMeaning == RecallSpec => []GatewayFindsNothing
<1>1. FindingInv => GatewayFindsNothing
  BY DEF FindingInv, SearchesFair
<1> QED BY <1>1, RecallInvariance, PTL

=============================================================================
