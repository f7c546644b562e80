------------------------------- MODULE RagText -------------------------------
(***************************************************************************)
(* How the RAG service cuts a document into chunks (services/rag/app.py).  *)
(* A text is the sequence of the lengths of its sentences; a word stands   *)
(* for a character and is the pair of its sentence and its place in it.    *)
(***************************************************************************)
EXTENDS Integers, Sequences, SequencesExt

CONSTANTS
    MinSize,    \* the least size of a chunk, 8 words in the code
    ChunkSize,  \* RAG_CHUNK_SIZE
    Overlap,    \* RAG_CHUNK_OVERLAP
    MaxChars    \* longest sentence that is kept whole

ASSUME RagTextAssumption ==
    /\ MinSize \in Nat \ {0}
    /\ ChunkSize \in Nat
    /\ Overlap \in Nat
    /\ MaxChars \in Nat \ {0}

Larger(a, b) == IF a >= b THEN a ELSE b
Smaller(a, b) == IF a <= b THEN a ELSE b

(* _split_sentences_ko joins short sentences, which changes no word, and keeps
   of a long one only its beginning. *)
KeptWords(text) ==
    LET heads == [s \in 1..Len(text) |-> [p \in 1..Smaller(text[s], MaxChars) |-> <<s, p>>]]
    IN FlattenSeq(heads)

Size == Larger(MinSize, ChunkSize)
Step == Larger(1, Size - Smaller(Overlap, ChunkSize - MinSize))

(* A mutant: the loop stops one chunk early, and a text shorter than a chunk
   has none. *)
StopsEarly(n) == {k \in 1..n : (k - 1) * Step + Size <= n}

(* The iterations of the loop of _sliding_chunks, of which the k-th begins at
   the word (k - 1) * Step of n.  It ends with the first chunk that reaches
   the end of the words. *)
Iterations(n) ==
    {k \in 1..n : (k - 1) * Step < n /\ (k = 1 \/ (k - 2) * Step + Size < n)}

(* The chunks of a text, each the sequence of its words. *)
Chunks(text) ==
    LET words == KeptWords(text)
    IN [k \in Iterations(Len(words)) |->
           SubSeq(words, (k - 1) * Step + 1, Smaller(Len(words), (k - 1) * Step + Size))]
=============================================================================
