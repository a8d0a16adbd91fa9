--------------------------- MODULE RepositoryIndex ---------------------------
(***************************************************************************)
(* Indexing a repository and searching the index: RepositoryWalker         *)
(* (rag/safety.py), RepositoryIngestor (rag/ingestion.py),                 *)
(* RepositoryIndexer.build (rag/pipeline.py) over LexicalIndex             *)
(* (rag/index.py) and SemanticIndex (rag/embeddings.py), and               *)
(* HybridRetriever (rag/retrieval.py).                                     *)
(*                                                                         *)
(* A build walks the whole repository before it reads the first file, and  *)
(* the repository is a working copy that changes at any time.  Files are   *)
(* numbered in walk order.  Of a file the model keeps why the walker may   *)
(* deny it, its size and a version that every change increases; of a       *)
(* document its one chunk, named by file and version.                      *)
(***************************************************************************)
EXTENDS Integers, Sequences, FiniteSets, FiniteSetsExt, SequencesExt

CONSTANTS NumFiles,       \* names of the repository
          Converted,      \* names that end in .pdf, .docx or .pptx
          MaxSize,        \* bound: size of a file
          MaxFileBytes, MaxIndexBytes, MaxFiles,  \* IndexLimits
          TopK,           \* results asked for
          MaxChanges,     \* bound: changes of the working copy
          MaxBuilds,      \* bound: builds of the index
          MaxFaults       \* bound: errors of the encoder or of SQLite

ASSUME LimitsAssumption ==
  /\ NumFiles \in Nat \ {0} /\ Converted \subseteq 1..NumFiles /\ MaxSize \in Nat
  /\ MaxFileBytes \in Nat \ {0} /\ MaxIndexBytes \in Nat \ {0} /\ MaxFiles \in Nat \ {0}
  /\ TopK \in 1..100
  /\ MaxChanges \in Nat /\ MaxBuilds \in Nat /\ MaxFaults \in Nat

Names == 1..NumFiles

(* A name that is absent, denied by its name, suffix or link, binary, not   *)
(* UTF-8 or beyond the converter, or text.                                  *)
FileKind == {"absent", "denied", "binary", "broken", "text"}
File == {f \in [kind : FileKind, size : 0..MaxSize, version : 0..MaxChanges] :
           f.kind \in {"absent", "denied"} => f.size = 0}

(* The walker takes no document for binary, and of an empty one the         *)
(* converter makes no text.                                                 *)
Contents(n) == {f \in File : IF n \in Converted
                             THEN f.kind # "binary" /\ (f.kind = "text" => f.size > 0)
                             ELSE f.kind \in {"binary", "broken"} => f.size > 0}

Chunk == [file : Names, version : 0..MaxChanges]
ChunkOf(n, f) == [file |-> n, version |-> f.version]

VARIABLES
  repository, \* repository[n]: the file n now
  pc,         \* "idle", "walk", "read", "encode", "replace", "install"
  names,      \* the names os.walk listed and the walker has not looked at
  accepted,   \* WalkReport.files: name and size, in order, not yet read
  total,      \* WalkReport.total_bytes
  skipped,    \* names the walker skipped, by reason
  documents,  \* IngestionReport.documents: chunk and bytes read
  failures,   \* IngestionReport.failures: names
  lexical,    \* chunks of the lexical index
  semantic,   \* chunks of the semantic index
  results,    \* the last search: what both indexes ranked, and the selection
  before,     \* history: repository and indexes when the last build began
  whole,      \* history: the chunks of the last build that succeeded
  raised,     \* history: where the last build raised, or "none"
  changes, builds, faults

walk == <<names, accepted, total, skipped>>
ingestion == <<documents, failures>>
indexes == <<lexical, semantic>>
history == <<before, whole, raised>>
bounds == <<changes, builds, faults>>
vars == <<repository, pc, walk, ingestion, indexes, results, history, bounds>>

Reasons == {"denied", "unreadable", "oversized_file", "max_index_bytes", "binary", "max_files"}
NoResults == [lexical |-> <<>>, semantic |-> <<>>, boosted |-> {}, selected |-> <<>>]

TypeOK ==
  /\ repository \in [Names -> File]
  /\ pc \in {"idle", "walk", "read", "encode", "replace", "install"}
  /\ names \subseteq Names
  /\ accepted \in Seq([name : Names, size : 0..MaxSize])
  /\ total \in 0..MaxIndexBytes
  /\ skipped \in [Reasons -> SUBSET Names]
  /\ documents \subseteq [chunk : Chunk, bytes : 0..MaxSize]
  /\ failures \subseteq Names
  /\ lexical \subseteq Chunk /\ semantic \subseteq Chunk
  /\ raised \in {"none", "read", "encode", "replace"}
  /\ changes \in 0..MaxChanges /\ builds \in 0..MaxBuilds /\ faults \in 0..MaxFaults

Init ==
  /\ repository \in [Names -> {f \in File : f.version = 0}]
  /\ \A n \in Names : repository[n] \in Contents(n)
  /\ pc = "idle" /\ names = {} /\ accepted = <<>> /\ total = 0
  /\ skipped = [r \in Reasons |-> {}]
  /\ documents = {} /\ failures = {} /\ lexical = {} /\ semantic = {}
  /\ results = NoResults
  /\ before = [repository |-> repository, indexes |-> {}, changes |-> 0]
  /\ whole = {} /\ raised = "none"
  /\ changes = 0 /\ builds = 0 /\ faults = 0

-----------------------------------------------------------------------------
(* RepositoryIndexer.build *)

Present == {n \in Names : repository[n].kind # "absent"}

Build ==
  /\ pc = "idle" /\ builds < MaxBuilds
  /\ builds' = builds + 1
  /\ pc' = "walk"
  /\ names' = Present
  /\ accepted' = <<>> /\ total' = 0 /\ skipped' = [r \in Reasons |-> {}]
  /\ documents' = {} /\ failures' = {}
  /\ before' = [repository |-> repository, indexes |-> semantic, changes |-> changes]
  /\ results' = NoResults /\ raised' = "none"
  /\ UNCHANGED <<repository, indexes, whole, changes, faults>>

(* Why the walker skips file f, in the order of its checks. *)
Denial(f) ==
  CASE f.kind = "denied"                          -> "denied"
    [] f.kind = "absent"                          -> "unreadable"
    [] f.kind \in {"binary", "broken", "text"} ->
         IF f.size > MaxFileBytes THEN "oversized_file"
         ELSE IF total + f.size > MaxIndexBytes THEN "max_index_bytes"
         ELSE IF f.kind = "binary" THEN "binary"
         ELSE IF Len(accepted) >= MaxFiles THEN "max_files" ELSE "none"

(* Mutant of WalkFile: the walk ends at the first file that does not fit. *)
WalkUntilFull ==
  /\ pc = "walk"
  /\ \E n \in names :
       /\ \A m \in names : n <= m
       /\ LET f == repository[n]  reason == Denial(f) IN
          IF reason = "none"
          THEN /\ accepted' = Append(accepted, [name |-> n, size |-> f.size])
               /\ total' = total + f.size
               /\ names' = names \ {n}
               /\ UNCHANGED skipped
          ELSE /\ skipped' = [skipped EXCEPT ![reason] = @ \cup {n}]
               /\ names' = IF reason = "max_index_bytes" THEN {} ELSE names \ {n}
               /\ UNCHANGED <<accepted, total>>
  /\ UNCHANGED <<repository, pc, ingestion, indexes, results, history, bounds>>

(* RepositoryWalker.walk, one file: the next in the order of names. *)
WalkFile ==
  /\ pc = "walk"
  /\ \E n \in names :
       /\ \A m \in names : n <= m
       /\ names' = names \ {n}
       /\ LET f == repository[n]  reason == Denial(f) IN
          IF reason = "none"
          THEN /\ accepted' = Append(accepted, [name |-> n, size |-> f.size])
               /\ total' = total + f.size
               /\ UNCHANGED skipped
          ELSE /\ skipped' = [skipped EXCEPT ![reason] = @ \cup {n}]
               /\ UNCHANGED <<accepted, total>>
  /\ UNCHANGED <<repository, pc, ingestion, indexes, results, history, bounds>>

Walked == /\ pc = "walk" /\ names = {}
          /\ pc' = "read"
          /\ UNCHANGED <<repository, walk, ingestion, indexes, results, history, bounds>>

(* The adapters decode or convert a file that is there, or raise. *)
Normalizes(f) == f.kind \notin {"absent", "broken"}

(* RepositoryIngestor.ingest, one file: it is read whole, whatever size it  *)
(* has by now.  A ConversionError or an OSError becomes a failure: the file *)
(* is not UTF-8, the converter makes nothing of it, or it is gone when it   *)
(* is opened.                                                               *)
ReadFile ==
  /\ pc = "read" /\ accepted # <<>>
  /\ LET n == Head(accepted).name  f == repository[n] IN
     IF Normalizes(f)
     THEN /\ documents' = documents \cup {[chunk |-> ChunkOf(n, f), bytes |-> f.size]}
          /\ UNCHANGED failures
     ELSE /\ failures' = failures \cup {n}
          /\ UNCHANGED documents
  /\ accepted' = Tail(accepted)
  /\ UNCHANGED <<repository, pc, names, total, skipped, indexes, results, history, bounds>>

(* The build raises and leaves what it did not reach. *)
Raise == /\ pc' = "idle" /\ raised' = pc
         /\ UNCHANGED <<repository, walk, ingestion, indexes, results, before, whole,
                        changes, builds>>

(* MarkItDownAdapter.normalize resolves the path of a document once more.   *)
(* One that is gone by then raises PathSafetyError, which is neither of the *)
(* errors that ingest catches.                                              *)
DocumentVanished ==
  /\ pc = "read" /\ accepted # <<>>
  /\ LET n == Head(accepted).name IN n \in Converted /\ repository[n].kind = "absent"
  /\ Raise /\ UNCHANGED faults

Read == /\ pc = "read" /\ accepted = <<>>
        /\ pc' = "encode"
        /\ UNCHANGED <<repository, walk, ingestion, indexes, results, history, bounds>>

(* DocumentChunker makes no chunk of an empty document. *)
Chunks == {d.chunk : d \in {x \in documents : x.bytes > 0}}

(* The encoder or SQLite fails. *)
Abort == faults < MaxFaults /\ faults' = faults + 1 /\ Raise

(* Mutant of PrepareSnapshot: the vectors are installed as they are made. *)
PrepareInPlace ==
  /\ pc = "encode"
  /\ \/ pc' = "replace" /\ UNCHANGED <<raised, faults>>
     \/ faults < MaxFaults /\ faults' = faults + 1 /\ pc' = "idle" /\ raised' = pc
  /\ semantic' = Chunks
  /\ UNCHANGED <<repository, walk, ingestion, lexical, results, before, whole, changes, builds>>

(* SemanticIndex.prepare_snapshot encodes every chunk and installs none. *)
PrepareSnapshot ==
  /\ pc = "encode"
  /\ \/ /\ pc' = "replace"
        /\ UNCHANGED <<repository, walk, ingestion, indexes, results, history, bounds>>
     \/ Abort

(* Mutant of ReplaceLexical: the chunks of files that are gone stay. *)
IndexLexical ==
  /\ pc = "replace"
  /\ pc' = "install"
  /\ lexical' = Chunks \cup {c \in lexical : \A d \in Chunks : d.file # c.file}
  /\ UNCHANGED <<repository, walk, ingestion, semantic, results, history, bounds>>

(* LexicalIndex.replace: one transaction. *)
ReplaceLexical ==
  /\ pc = "replace"
  /\ \/ /\ pc' = "install"
        /\ lexical' = Chunks
        /\ UNCHANGED <<repository, walk, ingestion, semantic, results, history, bounds>>
     \/ Abort

(* SemanticIndex.install_snapshot: two assignments that cannot fail. *)
InstallSnapshot ==
  /\ pc = "install"
  /\ semantic' = Chunks
  /\ whole' = Chunks
  /\ pc' = "idle"
  /\ UNCHANGED <<repository, walk, ingestion, lexical, results, before, raised, bounds>>

-----------------------------------------------------------------------------
(* HybridRetriever.search *)

Pool == Min({Max({4 * TopK, 20}), 200})

(* The sequences that list every chunk of S once. *)
Rankings(S) ==
  {r \in [1..Cardinality(S) -> S] :
     \A c \in S : \E k \in DOMAIN r : \A j \in DOMAIN r : r[j] = c <=> j = k}
Top(n, ranking) == SubSeq(ranking, 1, Min({n, Len(ranking)}))

(* What rank n in one index adds to a score, in millionths. *)
Share(n) == 1000000 \div (60 + n)

Position(ranking, c) == CHOOSE k \in DOMAIN ranking : ranking[k] = c
Reciprocal(ranking, c) ==
  IF \E k \in DOMAIN ranking : ranking[k] = c THEN Share(Position(ranking, c)) ELSE 0

(* A query term that occurs in the chunk is worth 0.015; the other reranking *)
(* bonuses add up like it.                                                   *)
Bonus(boosted, c) == IF c \in boosted THEN 15000 ELSE 0

(* Mutant of Score: only the better rank counts. *)
ScoreOfBest(byText, byVector, boosted, c) ==
  Max({Reciprocal(byText, c), Reciprocal(byVector, c)}) + Bonus(boosted, c)

(* In millionths: the shares of both lists and the bonus. *)
Score(byText, byVector, boosted, c) ==
  Reciprocal(byText, c) + Reciprocal(byVector, c) + Bonus(boosted, c)

(* _merge: every chunk once, by score, then id; the file number orders ids. *)
Merges(byText, byVector, boosted) ==
  LET score(c) == Score(byText, byVector, boosted, c)
      before_(c, d) == score(c) > score(d) \/ (score(c) = score(d) /\ c.file < d.file)
  IN  {r \in Rankings(ToSet(byText) \cup ToSet(byVector)) :
         \A i, j \in DOMAIN r : i < j => before_(r[i], r[j])}

(* The text search ranks the chunks that match, the vectors rank all. *)
Search ==
  /\ pc = "idle" /\ results = NoResults /\ semantic # {}
  /\ \E matching \in SUBSET lexical, boosted \in SUBSET semantic :
       \E byText \in Rankings(matching), byVector \in Rankings(semantic) :
         \E merged \in Merges(Top(Pool, byText), Top(Pool, byVector), boosted) :
           results' = [lexical |-> byText, semantic |-> byVector, boosted |-> boosted,
                       selected |-> Top(TopK, merged)]
  /\ UNCHANGED <<repository, pc, walk, ingestion, indexes, history, bounds>>

(* Somebody writes or deletes a file of the working copy; a name that is    *)
(* denied stays denied.                                                     *)
Change ==
  /\ changes < MaxChanges
  /\ changes' = changes + 1
  /\ \E n \in Names, f \in File :
       /\ f.version = changes + 1 /\ f \in Contents(n)
       /\ f.kind = "denied" <=> repository[n].kind = "denied"
       /\ repository' = [repository EXCEPT ![n] = f]
  /\ UNCHANGED <<pc, walk, ingestion, indexes, results, history, builds, faults>>

BuildStep == \/ WalkFile \/ Walked \/ ReadFile \/ DocumentVanished \/ Read
             \/ PrepareSnapshot \/ ReplaceLexical \/ InstallSnapshot

(* The index is only searched. *)
Quiet == pc = "idle" /\ UNCHANGED vars

Next == Build \/ BuildStep \/ Search \/ Change \/ Quiet

Spec == Init /\ [][Next]_vars

-----------------------------------------------------------------------------
(* Properties *)

(* Nobody changed the repository since the last build began. *)
Stable == changes = before.changes
Ingested == {d.chunk.file : d \in documents} \cup failures
Denied == UNION {skipped[r] : r \in Reasons}
BytesRead == {b \in documents \X (1..MaxSize) : b[2] <= b[1].bytes}

(* What is read keeps to the limits that the walk applied to the sizes it   *)
(* saw.                                                                     *)
LimitsHold == /\ Cardinality(BytesRead) <= MaxIndexBytes
              /\ Cardinality(Ingested) <= MaxFiles

(* Every listed name ends as exactly one document, one failure or one       *)
(* skipped file with one reason.                                            *)
NamesAccounted ==
  /\ Ingested \cup Denied = {n \in Names : before.repository[n].kind # "absent"}
  /\ \A d, e \in documents : d.chunk.file = e.chunk.file => d = e
  /\ \A d \in documents : d.chunk.file \notin failures
  /\ Ingested \cap Denied = {}
  /\ \A r, s \in Reasons : r # s => skipped[r] \cap skipped[s] = {}

(* A text that was left out would not fit beside the files that were taken, *)
(* whatever the walk met first.                                             *)
NothingFitsLeft ==
  \A n \in Names \ Ingested :
    repository[n].kind = "text" =>
      \/ repository[n].size > MaxFileBytes
      \/ total + repository[n].size > MaxIndexBytes
      \/ Cardinality(Ingested) = MaxFiles

(* "Apply configured per-file, total-byte, and file-count limits before      *)
(* ingestion" and "record conversion failures ... without aborting the       *)
(* remaining index" (ARCHITECTURE section 7): an ingestion that ends loses   *)
(* no name, keeps to the limits and leaves out no text they would allow.  A  *)
(* file that grows between the walk and its read breaks the limits, and a    *)
(* document that vanishes there aborts the ingestion; of a repository that   *)
(* stays the limits are kept and no ingestion is aborted.                    *)
IngestionWhole ==
  /\ pc \in {"encode", "replace", "install"} =>
       /\ NamesAccounted
       /\ Stable => LimitsHold /\ NothingFitsLeft
  /\ Stable => raised # "read"

(* Outside the moment between the two, both indexes hold the chunks of the  *)
(* last build that succeeded; a build that fails leaves them as they were   *)
(* (test_failed_semantic_preparation_preserves_previous_snapshot).          *)
IndexesAgree == pc # "install" => lexical = whole /\ semantic = whole

(* Candidates quote the repository as it is, unless somebody changed it     *)
(* since the build began or that build failed: nothing of a deleted or      *)
(* rewritten file survives a rebuild, whatever builds failed before.        *)
CandidatesCurrent ==
  Stable /\ raised = "none" =>
    \A c \in ToSet(results.selected) :
      /\ repository[c.file].version = c.version
      /\ repository[c.file].kind = "text"

(* Reranking bonuses being equal, a chunk ranked higher by both indexes      *)
(* comes before one ranked lower by both, and a chunk among the first 61 of  *)
(* both before one that a single index ranks, even at the top of its list:   *)
(* 1/(60+61) twice is more than 1/(60+1) once, and no longer at 62.          *)
AgreementWins ==
  \A c, d \in ToSet(results.semantic) :
    LET inText(x) == x \in ToSet(results.lexical)
        above(ranking) == Position(ranking, c) < Position(ranking, d)
        near(ranking) == Position(ranking, c) <= Min({61, Pool})
        selected == ToSet(results.selected)
    IN  /\ c # d
        /\ d \in results.boosted => c \in results.boosted
        /\ inText(c)
        /\ \/ inText(d) /\ above(results.lexical) /\ above(results.semantic)
           \/ ~ inText(d) /\ near(results.lexical) /\ near(results.semantic)
        /\ d \in selected
        => c \in selected /\ above(results.selected)
============================================================================
