# Verification of jumanlrc-lib in TLA+

jumanlrc-lib is a morphological analyser for Japanese: a reduced Juman++ v2
with a C++ interface, a C API and a Node binding.  A sentence becomes a
*lattice* of candidate words (from a dictionary, and from makers that propose
unknown words), a linear model scores the connections of three words, a beam
search finds a good path, and the words of the path are returned with their
readings, or as ruby text, split into morae.

This directory holds TLA+ modules for that program, configurations for the
model checker TLC, and proofs for the proof system TLAPS.  Names follow the
C++ source wherever TLA+ allows it.  `PROJECT.json` says which lines every
definition stands for.

    tlc -config Beam.cfg MCBeamSearch.tla        # a run of the table below
    tlapm BeamSearchProofs.tla                   # a proof module

## 1. The system

### Components, what they keep and what they do

| part | state | operations | module |
|---|---|---|---|
| Node binding `node/index.js`, `node/src/addon.cc` | `_handle`, `initialized_`, the native object | loadModel, analyze, analyzeRuby, getError, destroy, the collector | NodeAddon |
| C API `jumanlrc_capi.cc` | handle, its last error, malloc'ed results | init_ex, analyze, free_result, destroy | CApi |
| `JumanppLib`, `JumanppEnv`, `FilesystemModel`, `CoreHolder` | mapped file, core, analyzer, last error, last result | loadModel, analyze, analyzeRuby | JumanppLib |
| ruby units, `analyzeRuby` | last ruby result | annotation of one word after the other | RubyUnits |
| `LatticeBuilder`, `AnalyzerImpl::prepareNodeSeeds`, `buildLattice` | seeds, `connectible`, boundary counts, the lattice | reset, spawn, check, prepare, construct, fill ends | LatticeBuilder |
| node creators | none (they fill the seeds) | spawnNodes | NodeCreators, JumandicMakers |
| numeric words | none | spawnNodes, the checks of a number's parts | NumericMaker |
| normalised words, `CharLattice` | substitutes and deletions per character, a set of trie traversals | Parse, lookupCandidatesFrom, spawnNodes | NormalizedMaker |
| characters | none | getCodeType, getCodepoint, preprocessRawData | Characters |
| `ScoreProcessor`, score loops, `AnalysisPath` | beams, global beam, path | score a boundary, keep the best, walk back | BeamSearch |
| n-gram features, interpreted and generated | feature buffers shared by all connections | applyT0, applyT1, applyT2, prescores, applyBiTri | NgramScores |
| node features | the rows of patterns of a lattice | computed per node from its entry, by the interpreter or by generated code | NodeFeatures, NgramScores |
| `SpecCompiler` | none kept | one pass when a model is made: layout of the dictionary, numbers of patterns and features | SpecCompiler, NodeFeatures |
| CSV | the position in the text | nextLine, handleQuote, unescapeString | CsvReader |
| dictionary building | field columns, string and integer storages, the bag of a surface | computeStats, importOneLine, fillResult | DictionaryBuilder, FieldStorage, CodedIo |
| model file | parts and blocks | save, open, load, restoreDictionary | ModelFile |
| dictionary reading, output | entry buffer of a `NodeWalker` | readEntry, locate, next, the field readers | EntryBuffers, FieldStorage, Words |
| unknown-word data `ExtraNodesContext` | the nodes of a sentence | makePtr, node, reset | Words |
| memory `Manager`, `PoolAlloc` | pages, the place in the current page | allocate_memory, newPage, reset | Arena |
| code generation driver, containers, training readers, tools, diagnostics | | | not modelled (section 7) |

### How they interact

    Node addon ----.                                .---> node creators (trie)
                    >-- JumanppLib --> AnalyzerImpl --+---> LatticeBuilder
    C API ---------'        |                         '---> ScoreProcessor --> n-gram scores
                            '--- RubyUnits <-- result <---- AnalysisPath
                                                 '--- NodeWalker <-- dictionary, extra nodes

    CSV --> DictionaryBuilder --> model file --> dictionary
     ^            ^
     '------------'--- SpecCompiler --> n-grams, patterns, features --> n-gram scores

Everything is called synchronously in one thread: there are no locks, no
messages, no callbacks.  The one asynchronous actor is JavaScript's garbage
collector, which decides when the native object of a destroyed instance goes
away.  What makes the code hard is something else:

- *reuse*: one analyzer serves sentence after sentence with the same seeds,
  flags, beams, feature buffers and path iterator, and correctness rests on
  what each step overwrites before the next one reads it;
- *raw pointers*: a beam element points into a beam of another node, a lattice
  boundary holds pointers to the nodes that end there, and an index is carried
  along next to a pointer because the target does not know its own position;
- *numbers for names*: a compiled model refers to fields, storages, features
  and patterns by number, and reader and writer work the numbers out apart;
- *pipelining*: the score loops sum a row while the next one is hashed, through
  two buffers that change places;
- *partial failure*: a model file can fail at five stages, each of 2·n+2
  allocations of a result can fail, a trie step can fail inside a character;
- *two guards for one fact*: the addon, the wrapper and the library each keep
  their own idea of "a model is loaded";
- *byte arithmetic* over UTF-8 and *ties*, which `nth_element` and packed
  words order in ways no caller sees.

The list `hazards` in `PROJECT.json` names each of these at its line.

### What makes each part correct

- Beam search: pointers never dangle; no reachable word is lost by pruning;
  the returned words cover the sentence; the score of the path is the score
  that was ranked; without pruning the path is a best one.
- Scoring: the score of a connection is the sum of the weights of its own
  features, whatever went through the buffers before.
- Features: the row of a node holds what its patterns mean, whichever code
  computed it and however the compiler numbered them.
- Dictionary: what is read is what was in the CSV, row for row, whatever was
  shared, padded, cached or read before with the same buffer.
- Memory: two live objects never overlap, and none leaves its page.
- Lattice: the nodes are the seeds of this sentence; each pointer to an ending
  node is there once, in the room that was counted for it; the search always
  gets a connected lattice of the shape it assumes.
- Makers: every sentence is covered; unknown words are exactly the runs the
  dictionary lacks; a number is one word from its first digit to its last; a
  normalised word is a dictionary word in another spelling, proposed once and
  marked with the changes of a way from the sentence to it.
- Library and bindings: no answer of another sentence, no answer without a
  model, nothing leaked or freed twice.
- Ruby: no part of a reading that is to be shown is lost or doubled; a beat for
  each mora.

## 2. The modules

`Lattice` is data: the shape of a lattice, its chains of words and their total
score.  Boundaries are numbered as in the code (0 and 1 are the two BOS nodes,
`b + 2` stands before code point `b`, `n + 2` is EOS); positions inside a
boundary count from 1.

`Segmentation` is the abstract specification of the whole analysis: asked once,
it answers once, with the words of a chain that covers the sentence, and if the
answer is to be exact with one that no chain beats.  `BeamSearch` implements it
(`KeepsPromise`, an instance of `Segmentation` with a refinement mapping; it
must be exact precisely where no beam was too small).

`BeamSearch` models `computeScores` for both searches.  One action per step:
`Bootstrap` (beams of BOS), `StartBoundary` (`makeGlobalBeam`, the t0 cutoff),
`ScoreNode` (`makeBeams` or `makeT0Beam` for one node), `EndBoundary`, and
`StartPath`, `WalkBack`, `EndPath` for `AnalysisPath::fillIn`.  A beam element
is addressed by its node and index, where the code has a pointer; `top` is
`topPtr` and `myBeam` the index the code carries next to it.  The local score
of three nodes is a value `weight` chosen at the start: any scorer at all.
Where the code leaves ties to `nth_element` the model takes every order; where
it packs candidates into words, the order of the packed words: `Packed` is what
`BeamCandidate::pack` does to the bits of a float of either sign.

`NgramScores` models how those weights come about: `FeatureBuffer`, the
interpreted `PartialNgramDynamicFeatureApply` and the loops the code generator
emits.  A hash is the sequence of what was mixed, so that a wrong operand is
always visible, and a score is the bag of indices whose weights it sums.
`ScoresExact` says that the score stored for a connection is the one the plain
definition gives, which is what `BeamSearch` assumes of `weight`.

`NodeFeatures` holds pure definitions: what `SpecCompiler` makes of n-gram
features (`Compile`: names and patterns numbered as they are mentioned, patterns
grouped so that those only unigrams use come last), what each primitive feature
reads, and how a pattern of a node is computed by the interpreter
(`InterpretedPattern`) and by generated code (`GeneratedPattern`).  `Meaning` is
the reference, by names alone.  `NgramScores` extends it: rows of patterns come
from there, `ComputeT0All` stores of a row what generated code stores,
`PatternsStored` compares the stored rows with `Meaning`, and the reference of
`ScoresExact` is built on `Meaning` too, so that it spans everything from the
declared n-grams to the sum of weights.

`LatticeBuilder` has an action for every step of one sentence after another,
from `resetForInput` to the last `addEnd`.  What a node creator spawns is a
constant, so the runs give it either all small sets of seeds or those that
`NodeCreators` computes.  `ReadyForSearch` is the other assumption of
`BeamSearch`: lattices have the shape `IsLattice` and are connected.
`LatticeRequest` is its abstract specification: the answer is a function of the
sentence alone.  `LatticeBuilder` implements it (`KeepsRequest`).

`NodeCreators` defines the dictionary and the makers of runs, single characters
and onomatopoeia over a trie of *bytes*: a step over a character can fail in
its middle and leaves the traversal there, as `darts.h` does.  The trie itself
is external; its `traverse` is modelled by what it does.  `NumericMaker` adds the
numbers with their prefixes, units, commas and periods, `NormalizedMaker` the
words found through all spellings of a sentence at once, with the flags
(`Modifiers`) that say how a word was changed; `JumandicMakers` puts the makers in the order of the JumanDIC specification.  `Characters` is the
table that gives each code point its classes and the decoding of a text; the
runs take the classes from it, and check the decoding on every text.

`JumanppLib` gives the library's calls as action operators, `Analyze(s, ok)`
with the value they return; `CApi` and `NodeAddon` extend it and conjoin them
with what the binding does.  A model file is the stage at which its loading
fails; an analysis is a path of chunks, with which the walk through the
sentence is done as in the code.  Every `malloc` of the C API may fail.

`Words` follows the words of a dictionary from the CSV to the output.
`ImportCsv` (`DictionaryBuilder`) takes one row of either pass, `LoadModel` saves
and loads the model (`ModelFile`), and the remaining actions are a sentence:
`MakeUnknown` and `MakeNormalized` make extra nodes in the arena, `OtherMemory`
is the lattice taking memory from it too, `Locate` and `NextRow` are the
`NodeWalker`, `NewSentence` is `AnalyzerImpl::reset`.  The modules below are
split as the code is: `SpecCompiler` says where each field of a declared
dictionary goes; `CsvReader` finds the fields of a line in the bytes of a text,
for the rows and for the lists that match features look into; `FieldStorage` holds the storages of strings and lists, with
the cache of lists, both as they are written and as they are read;
`EntryBuffers` is `DicEntryBuffer`; `CodedIo` has integers of variable length
over an alphabet of `Base` numbers (128 in the code); `Arena` has the two levels
of memory.  Orders that the code takes from a hash table are any order.

`RubyUnits` is `analyzeRuby` on bytes: stepping, decoding, `splitIntoMora`, the
search for the last kanji, and the three ways to annotate a word.

`MC*` modules hold instances.  `*Proofs` modules hold theorems, and
`CommonLemmas` the lemmas several of them share.

## 3. The runs

| run | module, cfg | what it shows |
|---|---|---|
| beam | MCBeamSearch, Beam | pointers, coverage, scores and refinement, for full and global beams |
| ngram | MCNgramScores, Ngram | from declared n-grams to scores: rows hold what patterns mean, every connection gets its own weights, in all loops |
| builder | MCLatticeBuilder, Builder | lattices from *any* small seed sets of two stages |
| sentences | MCSentences, SentencesMain | JumanDIC's makers, two sentences with one analyzer |
| ruby | MCRubyUnits, Ruby | words of up to three characters with every reading of up to three |
| addon | MCNodeAddon, Addon | all orders of Node calls, files failing at each stage |
| capi | MCCApi, CApi | all orders of C calls, all failing allocations |
| words | MCWords, Words | a dictionary built, saved, loaded and read back; nodes of unknown words; the arena |
| scores_outside, lost_traversal, ruby_text, csv_unfinished | | violations, section 6 |

*beam.*  Seven lattices of up to three code points, one empty, with homographs,
crossing words and words no chain reaches; scores -1 and 1; one configuration of
full beams of three and one with beams of two, a global beam of two and the
cutoff of right nodes that the library switches on.  Some of the lattices fit
in these beams and some do not, so that both halves of `Promise` matter.
Two scores lose nothing: the search only compares sums, and two values of
different sign make every order and every tie of up to four connections on both
sides of zero.  `SignBit` is 8, above every sum, where the code has 2^31.

*ngram.*  Two specifications of five n-grams, of features of every kind but
lengths of other fields than the surface, with branches, with a pattern that
only unigrams use declared first (grouping must move it) and patterns of several
other usages; one has more bigrams than trigrams and one fewer, because the
loops share buffers of the larger size.  Fields of an entry
are `Width` = 4 bits wide and some are negative.  All patterns are stored or
not.  Lattices with a boundary without nodes and a node that no chain reaches;
both implementations, both searches, and a check of 0, 1 and 2 elements.  Three
rows already make the two buffers change places twice, which is where the code
could go wrong.

*builder.*  Sentences of up to three code points, every set of at most two of
seven words from either of two makers, in the worst order.  `n = 0`, the empty
sentence, is included: BOS and EOS then meet at one boundary.

*sentences.*  Nineteen characters, each with its real bytes; all texts of up to
two of eight characters with distinct roles, and longer ones with repetitions,
numbers and informal spellings.  Any two sentences follow one another with the
same analyzer, refused ones included, so that a leftover of the first sentence
would show in the second.  `MaxNumericLength` is 4 (64 in the code), so that
some numbers reach it, and some are cut there behind a comma or a period.  Dictionary, patterns of numbers and tables of spellings
are a few entries of each kind, chosen so that words begin others, a pattern
meets another, and two traversals meet in one word.

*ruby.*  Characters of one to four bytes, small yoon, the long mark and a
variation selector, which `utf8ToCodepoint` takes for a kanji; three characters
are enough for a kanji with one or two okurigana, for okurigana with a yoon, for
readings longer and shorter than the surface.  The properties leave out what the
repository's documents and its code disagree about, which section 5 lists:
`ReadingDealtOut` the words without kanji that get a reading although they are
kana and no annotation is asked for, `BeatsAreMorae` texts with a long vowel
mark, or with characters of four bytes, which are cut.

*addon* and *capi.*  One file failing at each stage and two good ones; the
sequences of calls are unbounded for the addon, and three analyses for the C
API (`MaxCalls`), which is one result held, one freed and one failing.
`MaxChunk` bounds how often an empty sentence moves the path iterator.

*words.*  Texts over two specifications and a refused one: up to four rows, with
quotes where they are needed or everywhere, three kinds of line ends and none at
the end, a string that holds a comma and a quote, and a line that cannot be read; two
rows that share an entry and two that only share a surface, a pattern row, cells
that are empty or ignored, a row that is too short, lists with and without keys,
fields that share a storage, a field in aligned places, flags that fill more
than one column (`FlagBits` = 2, 32 in the code) and a cache of lists of one
element (50 000), so that it forgets.  With `Base` = 4 integers take one to three
cells; file pages of 8 cells make blocks that end inside, at, and behind a page.
A page of the arena takes 10 units (4 MiB), a sentence makes up to two objects
on two pages: requests of 3 units aligned to 2, nodes, and one of 11 that fits
no page.  Two objects and two pages are enough for a page left with room behind
it, a page used a second time and an object that begins on a new page.
`EntriesReadable` asks of every pointer that a word or a creator has that it leads
to a whole entry, which no caller of `fillFromStorage` checks; the proof about walkers
starts from it.

`CHECK_DEADLOCK FALSE` stands in every configuration: a search and a
translation end, and a caller may stop calling.

### Fairness

`BeamSearch!FairSpec` has weak fairness on `Next` and `LatticeBuilder!FairSpec`
on `Proceed`, everything but the arrival of a next sentence.  Both are loops in
one thread without any wait, so a step that is possible is taken; nothing is
assumed of the caller.  `EventuallyDone` and `Answered` then mean that each
loop ends: the boundary counter reaches EOS, the walk back reaches BOS, and the
retry with stage 2 happens at most once.

## 4. What is proved

TLAPS proves the following for every value of the constants.

`BeamSearchProofs`: every property its run checks but liveness, for any lattices of the shape `IsLattice`, any beam sizes the analyzer
accepts and any integer scores, of which the sum along a chain stays below the
sign bit (`LatticesAssumption`, `ConfigsAssumption`, `ScoresAssumption`): a float
has its magnitude there, the code compares nothing else, and `PackedKeepsOrder`
says that packed words then compare as the scores do, whatever their width.

`TypeCorrect`, `PointersValid`, `IndexKnown` and `Covers` come first.  Coverage of the sentence is not inductive: that the walk
ends at the beginning needs that every pointer leads to a node that ends where
the pointing one starts, for *every* element of *every* beam, and that the
element the walk stands on exists.  The invariant is

    IInv == TypeOK /\ BackPointers /\ Scored /\ Walking /\ KnowsItsBeam /\ CoversSentence

where `Scored` says which nodes have beams while boundary `bnd` is worked on
and `Walking` that the elements collected so far form a chain that ends at
`top`.  That scoring a later node moves nothing an earlier element points to is
the main step (`ScoreNode` in the lemma on steps).

`BeamsLive`, `PathScored` and `PromiseKept` need to know which chains survive,
and no variable says that: an element has a pointer, not the chain it stands for.
The second invariant

    JInv == IInv /\ Reached /\ Ranked /\ SortedBeams /\ Fresh /\ LiveBeams /\ NamedInv

names them (`NamedInv`): there is a function `F` from the elements of all beams to
chains such that an element of node `v` is given the chain of the element it
points to with `v` added, its score is the total score of that chain, and two
elements of a node never have the same one (`Names`); if nothing needs pruning,
every chain into a node that has a beam is the chain of one of its elements
(`AllNamed`); and what `fillIn` has collected is the end of the chain of EOS's
first element (`Retraced`).  Each step extends `F` by the beams it makes.

- `BeamsLive` (`LiveBeams`): a node keeps a partial path exactly if a chain leads
  to it.  The global beam is empty only if nothing ends at the boundary, and a
  node the cutoff drops still gets the best element of that beam (`Ranked`).
- `PathScored` (`ScoreIsOfPath`): from `Retraced` when the walk ends, as `top` then
  stands at the start of its chain.
- `PromiseKept` (`KeepsPromise`): `BeamSearch` implements `Segmentation`.
  `StartPath` of the empty sentence and `EndPath` map to `Answer`, every other step
  to a stutter.  If nothing needs pruning the answer must beat every chain: each
  is named by an element of EOS, whose beam comes best first (`SortedBeams`), and
  fillIn takes the first.  That no beam is too small is stated with the number of
  chains, so `AllNamed` survives a step because a beam that is no smaller than the
  number of different chains drops none of them.

`CApiProofs`: `HeapOwned` and `FreesAreGood`, for any number of words in an
answer, of calls, and of allocations that fail.  `IInv` adds `Counters`, `Held`
(a held result belongs to an earlier call) and `Stored` (exactly the blocks the
running call got are in its pointers, as `pc` and `i` say); from it the
clean-up loops free what was allocated and nothing else.  Assumed: an answer
has a length (`AnswersAssumption`).  `FailedHandleTells` (`FailedHandle`): a handle
made although the model did not load says so in its last error for as long as it
lives, because a handle loads once and no call gets past the check of the library
without a loaded one (`OneLoad`).

`NodeAddonProofs`: `GuardSound`, the flag of the addon is never ahead of the
library, and `FailureFinal`, an instance one load of which has failed never
answers again.  The second is a property of behaviours; its invariant is that a
dead instance stays dead (`FailureSeen`, `DeadStaysDead`), because `OneFile`
holds: a second `loadModel` is refused while the first file is open, in whatever
state its loading ended.  `PathIsRead` (`NeverReadsOutside`) and `AnswersSpell`
(`AnswersSpellTheSentence`) are about the answers, for any texts and best paths
(`TextAssumption`: texts are sequences, and only the empty sentence has a path
without words).  The walk over a path takes every surface from the sentence, so
what the words so far spell is the sentence up to the cursor (`WalkSpells`), and
an answer is only given when the cursor is at its end; it reads outside only on a
path without words (`StopsInside`), which the wrapper keeps out.

`WordsProofs`: `ObjectsApart` and `ObjectsInPages` are about the arena alone, for
every page size and all requests (`PageAssumption`, `RequestsAssumption`).  That
objects do not overlap is not inductive, for a new object is only compared with the
place the pool stands at.  The invariant `IInv` adds `PagesOrdered`: the page of the pool
is the last one given out, no object stands on a later page, and every object on it
ends before the pool's offset.  This is what resetting only the manager would break.
`NodesApart` and `NodesInPages` say the same of the whole specification `Words`,
where the size of a node follows from the dictionary that was loaded.  `WInv` adds
to `IInv` that the number of features of a loaded dictionary is a number; the steps
of the dictionary leave the arena alone, and those of a sentence are requests or the
reset (`NodeAssumption`, `InputsAssumption`).

`WalkersTellTheWord` (`WalkerTellsTheWord`): wherever the walker was before, it tells
of a word or a node what a new one tells.  The theorem has two hypotheses.
`EntriesReadable` is an invariant of the run `words`, of the dictionary alone.
`InputsFit` (each row has data, and data and features fit the buffer) excludes
the dictionaries without data and beyond the limit of section 5; TLC evaluates it
on the inputs of the run.  Nothing is assumed of what memory held before
but that cells hold numbers, of the number of features or of how fields are kept.

- `Same` says when two buffers are at one place: with nothing remaining, all numbers
  in the features and the same count of rows; otherwise as much to read at the same
  place, and the data of the last row.  What an earlier entry left behind these numbers
  may differ.  Filling a buffer from storage establishes it (`FillSame`, from
  `SingleFills` and `SharedFills`), features of a node written over it keep it
  (`OverwriteSame`), a row more keeps it (`NextSame`), and at one place fields show one
  value (`ValueSame`, since `IndexInPlace` has every field where there is a cell).
- The invariant `WalkInv` has the walker and a telling of the same entry side by side
  (`SideBySide`): after as many rows as `told` counts both are at one place
  (`Abreast`).  `Telling` is a fold, so its steps are named by a function
  (`IsTelling`, `TellingRuns`); what it told it keeps (`TellingGrows`), and after the end it
  adds nothing (`TellingEnds`).
- That a whole entry fills the cells it should and ends inside the storage follows from
  `ReadWhole`; the walker tells no more rows than there are cells, as each takes one
  at least (`RoomIsLeft`), which is where rows without data would be lost.

`NgramScoresProofs`: `EveryPairScored` (`AllScored`), `StaysInside`
(`DefaultInside`), `StoredPatternsMean` (`PatternsStored`),
`IndicesAlwaysWritten` (`IndicesWritten`), `ScoresAreExact` (`ScoresExact`) and
`RankedByTotal` (`RanksByTotal`), all the run `ngram` checks, for any lattices of the
shape `IsLattice`, any specifications of features and any sizes of beams (`LatticesAssumption`,
`SizesAssumption`; `SpecsAssumption`: n-grams have one to three parts and name
declared features, as the parser of specifications refuses all others).  The first
invariant is

    NgInv == Config /\ Standing /\ Beamed /\ ScoredSoFar /\ DefaultInside

With full beams every node before the boundary has a beam (`Beamed`), although some
of those beams are empty, and the scores of the boundary are those of the elements
passed so far (`ScoredSoFar`), which are all of them when the loops end.
`DefaultInside` needs to know what compiling a specification does: the row of a node
is narrower by the patterns only unigrams use, and their registers are stored at
their numbers, so those numbers must be the last.  `UnigramPatternsLast` says so of
`Grouped`.  Sorting there is by rank, so the proof counts the elements below one
(`Height`): a strict order numbers a finite set (`Numbering`), and what ranks below
a pattern longer n-grams read is read by longer n-grams too (`UsageScores`).

    RowsInv == NgInv /\ Chosen /\ Placed /\ Linked /\ Queued /\ Copied

- What a pattern means is said of the declared names (`Meaning`), what is stored is
  computed from numbers: sorted primitives, sorted computations, registers of the
  generated code.  `PatternsMean` says that the numbers lead back to the names, for
  the interpreter and for the generated code, at every node.
- With generated features a row is only computed when its boundary is started, and
  with interpreted ones only for nodes that can be reached, so `PatternsStored`
  holds of the rows that are read because those nodes come first.  `Placed` says
  which rows are there; `Linked` that the elements of beams, and the elements they
  go on from, are such nodes; `Copied` that the rows the global beam gathered, each
  once, are those its elements point to.

The buffers of indices need an invariant of their own:

    BufferInv == RowsInv /\ Shaped /\ Hashed /\ Halfway /\ Prescored /\ IndicesWritten

- The two index buffers live as long as the analyzer, so what a loop finds in them
  was left there by another one, over the nodes of another boundary.  `Shaped` keeps
  what all of them leave: the first buffer is written as far as any loop reads it,
  and the second as far as generated unigrams reach.
- The loops prefetch: they write the indices of one row and sum those of the row
  before.  `RowLoopIs` and `PipelineIs` say of a loop over any number of rows, with
  its two buffers swapped or not, that it sums the indices of row after row; they
  are proved by induction over the rows.
- `Hashed`, `Halfway` and `Prescored` carry the partial hashes and sums from one
  step to the next: those of the boundary's nodes, those with the left node, and
  those of the best elements of the global beam.  `ResultsAre` then says of each
  element the last step considers that its score is the sum over unigrams, bigrams
  and trigrams, in one of two orders, and the score up to there.
- `FewTrigrams` is needed once: the generated loop over bigrams and trigrams sums as
  many indices as there are trigrams from a buffer that unigrams or bigrams filled
  (`LeftForTrigrams`).

That the sums are the right ones then needs little more:

    ExactInv == BufferInv /\ Keyed /\ ScoresExact

- The bag of a row of indices has each index once, for an index begins with its
  order and the number of its n-gram (`OnceEach`, `IndexShape`); so adding up the
  three sums is joining disjoint sets, in whichever order (`ThreeSums`).
- A stored row tells what bigrams and trigrams read, because a pattern they use is
  never one that only unigrams use; unigrams read the row in registers with generated
  features (`KnownTells`).  So the sum over a connection is the one by the names
  of the declared patterns (`ConnectionSum`, `Reference`).
- `Keyed` says that scored elements belong to beams of nodes before the boundary:
  beams made while a boundary is scored leave their predecessors alone.
- `RanksByTotal` is an action property; `BufferInv` and `ResultsAre` give it for the
  step that scores a node, and no other step can be taken in its place.

`JumandicMakersProofs` first proves everything the runs check of the builder but
`Answered`, for all sentences and whatever seeds the creators spawn (`InputsAssumption`,
`StagesAssumption`, `SeedsAssumption`).  One inductive invariant grows with the
theorems:

- `SortedSorts`: the sort is a stable permutation that orders the seeds.  A place
  before another has a smaller rank, so ranks are an injection of the places into
  themselves, and of a finite set that is onto.
- `RoomSuffices` (`EndsInRoom`): `addEnd`, which checks nothing, never writes more
  pointers at a boundary than `prepare` made room for.  The counts are made over
  the seeds in the order they were sorted into, the pointers one boundary after
  the other is laid out, so `IInv` carries three facts side by side: the seeds are
  still those of the creators (`SeedsInv`), the counts of `prepare` are about them
  (`CountsInv`), and boundary `k` has the counted room and as many pointers as the
  loop has passed seeds that end there (`LatticeInv`, `Filled`).
- `OnePass` (`OnePassIsEnough`): `RowsInv` says that the seeds are the words of the
  creators that ran, in the order of spawning at every code point (`SameRows`),
  and that stage 2 runs only if the words of stage 1 cover nothing; `PassInv`
  that behind the cursor no seed leaves a connected boundary for one that is not.
  As the seeds are ordered and go forward, no later seed can connect a boundary
  that an earlier one starts at; what remains is that the boundaries a fixed
  number of steps reaches are closed (`ReachedClosed`).
- `NodesSpawned` (`NodesAreSeeds`): `NodesInv`, that `prepare` knows where the slice
  of a boundary begins (`OffsetsCount`), and that a slice of ordered seeds is the
  words that start there in their order (`OrderedSlice`).
- `EndsPoint` (`EndsAreNodes`): `PointersInv`, that after each seed a boundary has
  exactly the pointers to the nodes of the earlier seeds that end there, none
  twice; `cursor - first` is the position of the seed among those that start with
  it (`PointsToNode`).
- `SearchCanStart` (`ReadyForSearch`): what `BeamSearch` assumes of a lattice.
- `RequestKept` (`KeepsRequest`): `LatticeBuilder` implements `LatticeRequest`.
  `Reset` maps to `Ask`, `Return` and a `Decide` that gives up to `Answer`, every
  other step to a stutter.

Of the makers it then proves `SentencesAreBuilt` (`AlwaysBuilt`), `RunsProposed`
(`UnknownRuns`), `NumbersTakenWhole` (`NumbersAreWhole`) and `RespellingsProposed`
(`NormalizedAreRespellings`), for every dictionary, every set of characters and all
sentences.
Assumed is that characters are different, non-empty sequences of bytes and that the
dictionary is finite and has entries for each of its words (`DictionaryAssumption`);
that the first byte of a character announces its length and `getCodeType` gives it
its classes (`CharactersAssumption`); that the prefixes, signs and units of numbers
are words without a comma or a decimal point (`NumericAssumption`); that what the
normaliser reads for a character is a character (`NormalizedAssumption`); and that the
builder runs the makers of `JumandicMakers` on the sentence (`MakersAssumption`).

- The trie is stepped byte by byte and knows nothing of characters.  Because first
  bytes announce lengths, bytes that begin the bytes of another word are those of
  its first characters (`SpellingTells`); so a traversal that has not failed stands
  at the word it was stepped with, and has failed exactly if no dictionary word
  begins with it (`StepTells`, `TraversalTells`).  A traversal that stops in the
  middle of a character never recovers (`LostForGood`).
- From this, which seeds each maker collects is said without the trie
  (`DicMembers`, `ChunkMembers`, `SingleMembers`).
- `SentencesAreBuilt`: every code point has a class the makers of last resort take
  (`EveryCodeHasType`), so each character is a word of the dictionary or proposed by
  them (`EveryCharacterProposed`), and after stage 2 chains of words reach the end
  (`BothStagesReach`).  That the pass finds them is
  `OnePassIsEnough`, so the step that would fail cannot be taken (`BuiltStep`).
- `RunsProposed`: the lattice holds all seeds of the stages that ran (`RowsDone`,
  the invariant of the builder); seeds of kind "chunk" are only made by
  makers of runs, since each maker proposes seeds of one kind (`MakersOfKind`,
  `ChunksOnlyOfRuns`), and of each class by one of them (`RunMakers`).
- `NumbersTakenWhole`: `FindLongestNumber` goes over a text in strides
  (`LongestStrides`), each of a digit or of what the checks answer.  The invariant of
  the loop is `Fitting`: behind the first character a stride begins behind a digit
  or a unit, or at a digit.  That a comma stands behind a digit or a unit
  follows from it alone, for `checkComma` does not look back; and a prefix, a sign of
  a fraction and a unit leave it true (`PrefixIs`, `InterfixIs`, `SuffixIs`,
  `StrideFits`).  The loop is only left at a digit when the number has its full length
  (`LongestIsWhole`).  A number is proposed once because one maker proposes numbers,
  it is one of the makers once (`MakerOnce`), and neither joining the makers' words
  nor sorting them repeats one (`WordsOnce`, `SameRowsOnce`, together `BuiltByOne`).
- `RespellingsProposed`: `NormalizedAreRespellings` compares the traversals with
  `Spellings`, which knows no trie and forgets nothing.  After every character the
  states are those of the spellings that a dictionary word begins with (`StatesAre`,
  by `NextStates` for one character): a spelling that left the trie has no state and
  never needs one again (`LostForGood`), states at the same node have
  the same spelling (`SameSpelling`), and a dropped character keeps the status of
  a node that is still the same (`LeftStays`).  The flags tell a changed spelling from
  the text itself because every change sets one besides the mark that the last
  character was dropped (`Respelled`, `FoundTells`).  Each entry is proposed once
  because the words found are a set and its sequence repeats none
  (`SetInSequence`, `NormalizedThere`).

`RubyUnitsProofs`: `AllReadingsDealtOut` (`ReadingDealtOut`), `OkuriganaStandsApart`
(`OkuriganaSeparated`) and `EveryBeatAMora` (`BeatsAreMorae`), for every set of
characters and all words.  Assumed is what `RubyUnits` says of the classes of
characters (`CharsAssumption`) and that no reading is empty (`TextsAssumption`); the
characters of four bytes that decode as kanji are among them.  The code looks at
bytes, the properties speak of characters, and the proof is the way from one to the
other:

- `Pieces` is a recursive function, so a scan is described by what it has at each
  place (`IsScan`), and such a scan exists (`ScanExists`).  A text ends where its
  last character does (`TextIsWhole`), so the pieces of two texts joined are those of
  the first and then those of the second (`PiecesJoin`), and texts can be dealt with
  character by character (`GrowingInduction`, `PiecesGrow`).
- `SplitIntoMora` folds the pieces; one piece more is one step more
  (`MergedGrows`).  Hence the morae of a text join to the text and are none only if
  it is empty (`MoraeShape`); without characters of four bytes, whose pieces are
  two, there are as many as the characters say (`MoraeCounted`).
- `OkuriMora` leaves the kanji a beat for any surface whatever (`BeatsLeft`), so what
  the kanji and the okurigana get joins to the reading (`KanjiDealt`).
- The scan backwards finds the last kanji where it has three bytes: of the bytes
  behind it none decodes to a kanji, and it steps over none that does, for a step of
  more than one would have to start at a head (`BackScanFinds`, `OkuriganaStart`).
  Plain okurigana is then exactly the last beats of the reading (`PlainCut`).
- `HasKata` looks at every third byte; in a text of characters of three bytes these
  are their heads (`EveryThirdByte`).

`CommonLemmas` has what these rest on: induction over the numbers and the existence
of recursive functions, proved from the least number of a set, without the theorems
of the library that take an operator; what `FlattenSeq` joins; and the operators of
`Lattice`.

What stays with TLC: liveness (`EventuallyDone`, `Answered`) and
that a dictionary can be read as it was written (`WordsReadBack`,
`EntriesReadable`, `UnknownsReadBack` of Words).

## 5. Observations

Facts the models rest on or that turned up while reading, without a run:

- `onomatopoeia_creator.cc:61` refuses a four-character repetition that ends
  the sentence and accepts longer ones there: the minimal length is compared
  with the number of characters *after* the first.
- `numeric_creator.cc:248` compares `pos + 1` with the length of the sentence
  where the character read is at `start + pos + 1`: for a number that does not
  begin the sentence a period as its last character looks one element behind
  the code points, where those of an earlier, longer sentence may still lie; the
  period then belongs to the number or not (`behind` in NumericMaker).
- `numeric_creator.cc:223` (`checkComma`) does not look before the comma, so a
  number goes on over one behind a unit ("5キロ,123"); and a number that has its
  full length is cut where it is, even behind a comma (`NumbersAreWhole` allows both).
- `characters.cc:238` to 241 take the ASCII and full-width opening square and
  curly brackets for letters, before the table of brackets is asked; kanji
  outside the basic plane are symbols.
- `charlattice.cc:349` keeps one of the results with the same word and end;
  which flags it keeps is up to `std::sort`.
- `charlattice.cc:56` maps a sound that `charlattice.cc:41` lacks ("te"), so that
  entry is never used: the second map is only asked after the first one.
- `jumanlrc_lib.cc:275` steps three bytes over a four-byte head, so a mora can
  be three bytes of an emoji; the pieces still add up to the text
  (`ReadingDealtOut`).
- `jumanlrc_lib.cc:194` decodes a head of four bytes as if it were one of three:
  variation selectors (U+E0100 gives 0x3804) and characters for private use become
  kanji.  Behind a kanji, the selector ends the kanji part in front of its own last
  byte, which is then counted as okurigana and takes a mora of the reading.
- The comment of `splitIntoMora`, `jumanlrc_lib.cc:239`, says "長音 ー → merge with
  previous char"; only a small yoon is merged and `isChoonCp` is never called, so
  the mark is a beat of its own.  `BeatsAreMorae` says nothing of texts with one.
- Katakana annotation is documented as off by default, "katakana output as-is
  without readings" (`jumanlrc_lib.h:52`, `index.js:74`, `index.d.ts:70`,
  `README.md:75`), and `index.js:85` says that "kana-only words have an empty readings
  array".  With it off `jumanlrc_lib.cc:429` still gives a reading to every word
  without kanji whose surface and reading differ, unless they have the same number
  of morae and more than one: a dictionary word of a single katakana is one.
  `ReadingDealtOut` says nothing of such words.
- With it on, `jumanlrc_lib.cc:427` gives readings to a katakana word read as it is
  written, where `index.d.ts:30` says there are none when surface and reading are
  the same; and `jumanlrc_lib.cc:387` looks for katakana at every third byte, so
  behind a letter of one byte it may see none (`AllOfThreeBytes` in `ReadingDealtOut`).
- `model_io.cc:106` refuses a second open of any file and says the model is
  "already opened", also when opening the first one failed.
- `addon.cc:178` only lowers a flag in destroy; the memory goes when the
  collector runs (`index.js:106` promises release).
- `analysis_result.cc:32` returns before the path iterator is set when the
  sentence is empty.  The Node wrapper refuses empty sentences; through the C
  API the first sentence of an analyzer may be one, and the walk then compares
  with whatever the memory held (`defined` in JumanppLib, `NeverReadsOutside`).
- The unrolled variant `outputApplyBiTriFullUnrolled` of the generator is never
  called and has an off-by-one of its own.
- A specification with more trigrams than both unigrams and bigrams would make
  the generated code read indices nobody wrote (`FewTrigrams` in NgramScores);
  JumanDIC has fewer.
- `feature_impl_pattern.cc:18` compares a feature reference with `>` where `>=`
  is meant; no compiled specification has such a reference.
- `BeamCandidate::pack` shifts a 16-bit index that was promoted to `int`: from
  32 768 nodes ending at one boundary on it would be extended by its sign into
  the score.  A score of -0.0 orders below 0.0.
- `dic_feature_impl.cc:94` and `:141` take the number of a field for a column of
  the CSV, as `dic_build_detail.cc:174` does for the surface.  Field and column
  agree for the surface; the field `features` of JumanDIC is not at its number.
  `DictionaryBuilder` models what the code reads (`RowSurface`, `Matches`).
- `output.cc:85` fills the features of a walker for BOS and EOS and leaves what
  remained of a shared entry; the library never locates either.
- `dic_entries.h:74` takes an entry of which nothing remains for one that is "stored
  in features fully".  Of a dictionary all of whose fields are features, an entry that
  rows share has no data, so nothing remains either, and the count of rows the
  walker goes by is one that nobody has set (`Fits` in Words).
- `dic_builder.cc:141` compares the longer of features and data with the size of
  a buffer that a single entry fills with both.
- A creator whose pattern row lies behind the CSV keeps `InvalidInt` as pointer
  (`dic_build_detail.cc:58`).
- `memory.cpp:140` throws a *pointer* to `bad_alloc` when an object is larger
  than a page, which no handler of the library catches.  The page is 4 MiB.  The
  model lets a sentence go on after such a request, which allows more than the
  code does.
- After a second `loadModel`, which is always refused, `analyze` of the Node
  addon says "Model not loaded" although the library keeps its model
  (`addon.cc:89`, `addon.cc:102`).
- A line of a CSV that cannot be read, with a quote inside a field or behind a
  quoted one, ends an import like the end of the text: the dictionary has the
  rows before it and nobody is told (`dic_build_detail.cc:70`).
- Of several ways to the same normalised word `std::sort` and `unique` keep the
  flags of whichever comes first (`charlattice.cc:339`); two ways can differ in
  `DELETE_LAST`.  A seed of the model carries the flags of all ways.
- The length of a field that is not the surface is taken from the extra node for
  any negative number (`feature_impl_types.h:157`), EOS included, and counts
  bytes there.  JumanDIC only uses the length of the surface.

## 6. Findings

Each is a run in which TLC finds the stated property violated.

1. `scores_outside`: with generated features and full beams a boundary where no
   node starts writes a float in front of the score buffer
   (`pattern_feature_codegen.cc:310`).  Not reached with the library's settings:
   `DefaultInside` holds in the run `ngram`.
2. `lost_traversal`: the onomatopoeia maker goes on after a failed trie step and
   can take an unknown word for a known one (`onomatopoeia_creator.cc:33`).
3. `ruby_text`: the ruby units of a word do not always spell the text: katakana
   okurigana comes out in hiragana, a yoon in okurigana is swallowed
   (`jumanlrc_lib.cc:376`, `index.d.ts:26`).
4. `csv_unfinished`: a CSV whose last line ends with an empty field and has no
   line end is read forever, because `nextLine` does not move behind it
   (`csv_reader.cc:35`, `csv_reader.h:18`); `importCsv` does not end if the
   specification does not use that column, and says that it is missing if it does.

## 7. Not modelled, and why

- `LatticeCompactor`, `adjustBeamScores`, `remakeEosBeam`, `setAutoBeam`: never
  called, or only with scorers the library does not have.
- Training: `CHANGELOG` says it was removed; readers of partial examples are
  left without a caller.
- Third party and vendored code: the double array `darts.h`, PEGTL, the format
  and argument libraries, `pathie`, `backward`, the test framework and the JSON
  header of an example.  They are two thirds of the lines of the repository.
- The parser and the builder classes of the specification language only collect
  declarations; hashing and serialization of a specification, the header of a
  model and the file of weights are text and bytes of values that are modelled.
- Containers (flat maps and sets, queues, slices): functions and sequences here.
- Integer fields of a dictionary; the special entries of BOS and EOS in the output; alias nodes, which nothing
  makes.
- Lengths of fields other than the surface and the refusals while features are
  constructed.
- Pure I/O and text: printers, logging, assertions, status values, the memory
  mapping of a file, command line tools.
- Generated tables of JumanDIC identifiers.
- Float arithmetic: scores are integers (BeamSearch) or bags (NgramScores);
  rounding can reorder candidates whose totals nearly agree.
- Widths: counts at a boundary are 16 bits in the code and unbounded here; a
  dictionary would need 65 536 words at one position.

## 8. What is left

In this order.

1. *Placeholders* of extra nodes, now part of `NodeHeader` in Words and given in
   NgramScores (`Given`): one composition of makers, nodes and features.
2. *BOS and EOS in the output*, integer fields, and a dictionary whose columns
   are not in the order of its fields, with the matches read from them.

A theorem worth proving: `EntriesReadable`, from the writer of `DictionaryBuilder`
over the pages of `ModelFile` to the delta-coded lists of the trie.
