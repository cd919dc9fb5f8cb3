----------------------------- MODULE JumanppLib -----------------------------
(***************************************************************************)
(* jumanlrc::lib::JumanppLib, the C++ interface: a model file is loaded    *)
(* through JumanppEnv and FilesystemModel, then sentences are analysed.    *)
(* The Node addon and the C API each own one object of it and extend this  *)
(* module: their calls are conjunctions with the actions below, whose last *)
(* parameter is the value the call returns.                                *)
(***************************************************************************)
EXTENDS Integers, Sequences, SequencesExt

CONSTANTS
  Paths,        \* file names a caller may pass
  FailsAt,      \* the stage at which loading each of them fails
  Sentences,    \* sequences of characters
  Refused,      \* those the analyzer reports an error for
  TopPath,      \* the chunks of the best path of the others
  Garbage,      \* what an uninitialised i32 may hold
  MaxChunk      \* bound on currentChunk

\* The stages of loading, in order; a good file passes them all.  "open" is
\* mapping the file and reading its header, "dictionary" also the weights and
\* "features", "analyzer" fails for a model that was not trained, "fields"
\* for a dictionary without surface or reading.
Stages == <<"open", "dictionary", "features", "analyzer", "fields", "none">>
Passes(p, stage) ==
  \E i, j \in DOMAIN Stages : Stages[i] = stage /\ Stages[j] = FailsAt[p] /\ i < j

None == "none"

ASSUME PathsAssumption == None \notin Paths
ASSUME LoadingAssumption == \A p \in Paths : FailsAt[p] \in Range(Stages)
ASSUME SentencesAssumption == Refused \subseteq Sentences /\ DOMAIN TopPath = Sentences \ Refused
\* A sentence, a path, its chunks and the surfaces of their words are
\* sequences, and a path has no chunks only for the empty sentence, the one
\* whose lattice has no words (BeamSearch).
IsSequence(q) == q \in Seq({q[k] : k \in DOMAIN q})
ASSUME TextAssumption ==
  /\ \A s \in Sentences : IsSequence(s)
  /\ \A s \in Sentences \ Refused :
       LET path == TopPath[s]
       IN  /\ IsSequence(path) /\ (path = <<>> => s = <<>>)
           /\ \A k \in DOMAIN path :
                /\ IsSequence(path[k])
                /\ \A j \in DOMAIN path[k] : IsSequence(path[k][j].surface)

VARIABLES
  file,           \* FilesystemModel::file_: None, or its path, mapped or not
  core,           \* JumanppEnv::core_: None, or the path it was made from
  analyzer,       \* None, or the core analyzer_ points to
  initialized,    \* initialized_
  error,          \* error_: None while empty, else its cause
  result,         \* result_
  rubyResult,     \* the words rubyResult_ was made from (RubyUnits)
  currentChunk,   \* top1_.currentChunk_, never set by a constructor
  defined         \* FALSE once the program read outside offsets_

libVars ==
  <<file, core, analyzer, initialized, error, result, rubyResult, currentChunk, defined>>
model == <<file, core, analyzer, initialized>>
answers == <<result, rubyResult, currentChunk, defined>>
-----------------------------------------------------------------------------
FreshLib ==
  /\ file = None /\ core = None /\ analyzer = None
  /\ initialized = FALSE
  /\ error = None
  /\ result = <<>> /\ rubyResult = <<>>
  /\ currentChunk \in Garbage
  /\ defined = TRUE

\* A library object is deleted and the next one made in its place.
RenewLib ==
  /\ file' = None /\ core' = None /\ analyzer' = None
  /\ initialized' = FALSE
  /\ error' = None
  /\ result' = <<>> /\ rubyResult' = <<>>
  /\ currentChunk' \in Garbage
  /\ defined' = TRUE

MayOpenAnother == TRUE   \* mutant: a second file replaces the first

\* FilesystemModel::open refuses a second file, whatever became of the first.
MayOpen == file = None

\* loadModel: each stage leaves behind what it made when a later one fails.
LoadModel(p, ok) ==
  /\ UNCHANGED answers
  /\ IF MayOpen
     THEN /\ ok = Passes(p, "fields")
          /\ file' = p
          /\ core' = IF Passes(p, "dictionary") THEN p ELSE core
          /\ analyzer' = IF Passes(p, "analyzer") THEN p ELSE analyzer
          /\ initialized' = (initialized \/ ok)
          /\ error' = IF ok THEN error ELSE FailsAt[p]
     ELSE /\ ok = FALSE
          /\ error' = "already opened"
          /\ UNCHANGED model
-----------------------------------------------------------------------------
\* Mutant: the text at the cursor is not compared.
MatchesLength(s, cursor, w) == cursor + Len(w.surface) <= Len(s)

Matches(s, cursor, w) ==
  /\ cursor + Len(w.surface) <= Len(s)
  /\ SubSeq(s, cursor + 1, cursor + Len(w.surface)) = w.surface

\* Of each chunk the first word that stands at the cursor is taken.
Walk(s, chunks) ==
  LET walk[k \in 0 .. Len(chunks)] ==
        IF k = 0 THEN [cursor |-> 0, words |-> <<>>]
        ELSE LET at == walk[k - 1]
                 here == {j \in DOMAIN chunks[k] : Matches(s, at.cursor, chunks[k][j])}
                 w == chunks[k][Min(here)]
             IN  IF here = {} THEN at
                 ELSE [cursor |-> at.cursor + Len(w.surface), words |-> Append(at.words, w)]
  IN  walk[Len(chunks)]

\* result_ after the walk: cleared unless the words cover the sentence.
ResultOf(s) ==
  LET end == Walk(s, TopPath[s]) IN IF end.cursor = Len(s) THEN end.words ELSE <<>>

\* fillIn rewinds top1_ but for a path without chunks, where it returns early
\* with offsets_ empty; nextBoundary then compares with numBoundaries() = -1.
AfterFillIn(s) == IF TopPath[s] = <<>> THEN currentChunk ELSE -1
NumBoundaries(s) == IF TopPath[s] = <<>> THEN -1 ELSE Len(TopPath[s])
StopsInside(s) == TopPath[s] # <<>> \/ AfterFillIn(s) + 1 >= NumBoundaries(s)

NotInitialized(ok) ==
  /\ ~initialized /\ ok = FALSE
  /\ error' = "not initialized"
  /\ UNCHANGED <<model, result, currentChunk, defined>>

AnalysisFails(s, ok) ==
  /\ initialized /\ s \in Refused /\ ok = FALSE
  /\ result' = <<>>
  /\ error' = "analysis"
  /\ UNCHANGED <<model, currentChunk, defined>>

AnalysisEnds(s, ok) ==
  /\ initialized /\ s \notin Refused /\ StopsInside(s)
  /\ result' = ResultOf(s)
  /\ ok = (Walk(s, TopPath[s]).cursor = Len(s))
  /\ error' = IF ok THEN error ELSE "mismatch"
  /\ currentChunk' = IF TopPath[s] = <<>> THEN currentChunk + 1 ELSE NumBoundaries(s)
  /\ UNCHANGED <<model, defined>>

ReadsOutside(s) ==
  /\ initialized /\ s \notin Refused /\ ~StopsInside(s)
  /\ result' = <<>> /\ defined' = FALSE
  /\ UNCHANGED <<model, error, currentChunk>>

\* Once the program has read outside a buffer nothing more is said of it.
\* MaxChunk bounds how often an empty sentence moves currentChunk_ on.
Analysis(s, ok) ==
  /\ defined /\ currentChunk <= MaxChunk
  /\ NotInitialized(ok) \/ AnalysisFails(s, ok) \/ AnalysisEnds(s, ok) \/ ReadsOutside(s)

Analyze(s, ok) == Analysis(s, ok) /\ UNCHANGED rubyResult

\* analyzeRuby: rubyResult_ is only written when analyze succeeds.
AnalyzeRuby(s, ok) == Analysis(s, ok) /\ rubyResult' = IF ok THEN result' ELSE rubyResult
=============================================================================
