--------------------------------- MODULE Words -------------------------------
(***************************************************************************)
(* The words of a dictionary from the CSV to the output: the dictionary is *)
(* built, saved to a file, loaded again and then serves sentences.  For a  *)
(* sentence, creators make nodes for words that are not in the dictionary, *)
(* in an arena that starts again with the next sentence, and the output    *)
(* reads words and such nodes with one NodeWalker that is never cleared.   *)
(***************************************************************************)
EXTENDS DictionaryBuilder, ModelFile, EntryBuffers, Arena

CONSTANTS
  Surfaces,    \* the spellings that words not in the dictionary have
  NodeHeader,  \* size of an ExtraNode without the numbers of its entry
  NodeAlign,
  Garbage,     \* what memory may hold before it is written
  MaxObjects,  \* bound on the objects of a sentence
  MaxPages     \* bound on the pages a sentence is given

ASSUME NodeAssumption == NodeHeader \in Nat /\ NodeAlign \in Nat \ {0}
ASSUME InputsAssumption ==
  \A i \in Inputs :
    /\ Fields(i.spec) = 1 .. Len(i.spec.fields) /\ Len(i.spec.fields) \in Nat
    /\ ComputeByName(i.spec) \subseteq Fields(i.spec)
    /\ IsFiniteSet(DOMAIN i.spec.matches)
ASSUME MemoryAssumption == Garbage \subseteq Int

VARIABLES
  model,   \* the restored dictionary
  extra,   \* extraNodes_: [surface, template, content]
  walker,  \* the buffer of the NodeWalker
  current, \* the entry it was last sent to
  told     \* [rows, more]: rows it has told since, and whether there are more

wordsVars == <<builderVars, arenaVars, model, extra, walker, current, told>>

Nowhere == [rows |-> 0, more |-> FALSE]
HashOf(surface) == -1  \* hashUnkString is negative whatever the surface

-----------------------------------------------------------------------------
(* The model file *)

\* DictionaryHolder.load
Holder(m) ==
  LET field(i) ==
        [kind |-> spec.fields[i].kind, index |-> DicIndex(spec, i),
         strings |-> m.strings[StringStorageOf(spec, i)], align |-> AlignmentOf(spec, i),
         positions |-> IF HasList(spec, i) THEN m.ints[IntStorageOf(spec, i)] ELSE <<>>]
  IN [restored |-> TRUE, trie |-> m.trie, entryPtrs |-> m.entryPtrs, entries |-> m.entryData,
      patternPtrs |-> m.patternPtrs, numFeatures |-> NumDicFeatures(spec),
      numData |-> NumDicData(spec), fields |-> [i \in Fields(spec) |-> field(i)]]
\* fillModelPart, save, open, load and restoreDictionary, with a part of
\* weights behind the dictionary.
Restored ==
  RestoreDictionary(
    Load(Save(<<DictionaryPart(spec, dic), [kind |-> "Perceptron", data |-> <<<<1>>>>]>>)),
    NumStringStorage(spec), NumIntStorage(spec),
    NumDicFeatures(spec), NumDicData(spec))
LoadModel ==
  /\ pass = "built" /\ ~model.restored
  /\ model' = IF Restored.restored THEN Holder(Restored) ELSE NoDictionary
  /\ UNCHANGED <<builderVars, arenaVars, extra, walker, current, told>>

-----------------------------------------------------------------------------
(* Entries *)

\* IndexTraversal.entries and IndexedEntries.
PointersOf(surface) ==
  IF surface \in DOMAIN model.trie THEN ListAt(model.entryPtrs, model.trie[surface]) ELSE <<>>
WordPointers == UNION {ToSet(PointersOf(s)) : s \in DOMAIN model.trie}
ReadEntry(b, ptr) ==
  FillFromStorage(SetCounts(b, model.numFeatures, model.numData), model.entries, ptr)
FeaturesAt(ptr) == SubSeq(ReadEntry(Buffer(0), ptr).features, 1, model.numFeatures)

\* Extra nodes are numbered with the complements of their places.
NodeOf(eptr) == extra[-eptr]
\* OutputManager.locate
Located(b, eptr) ==
  IF eptr >= 0 THEN ReadEntry(b, eptr)
  ELSE OverwriteFeatures(ReadEntry(b, NodeOf(eptr).template), NodeOf(eptr).content)

\* StringField, StringListField and KVListField.
FieldOf(b, eptr, f) ==
  LET value == ValueAt(b, f.index)
  IN IF value < 0 THEN <<<<NodeOf(eptr).surface>>>>
     ELSE CellAt(f.kind, f.strings, f.align, f.positions, value)
WordOf(b, eptr) == [i \in DOMAIN model.fields |-> FieldOf(b, eptr, model.fields[i])]

-----------------------------------------------------------------------------
(* A sentence *)

\* UnkNodeConfig.fillElems
FillElems(features, u, hash) ==
  [k \in DOMAIN features |->
     IF k - 1 \in {model.fields[i].index : i \in spec.unks[u].outputs} THEN hash ELSE features[k]]
MakePtrUnfilled(u, surface, template) ==  \* mutant: the numbers of the template are not copied
  [surface |-> surface, template |-> template,
   content |-> FillElems([k \in 1 .. model.numFeatures |-> 0], u, HashOf(surface))]
MakePtr(u, surface, template) ==
  [surface |-> surface, template |-> template,
   content |-> FillElems(FeaturesAt(template), u, HashOf(surface))]
\* A sentence is analyzed before any of it is read.
Analyzing ==
  model.restored /\ told = Nowhere /\ Len(live) < MaxObjects /\ mgr.currentPage < MaxPages
\* UnkNodesContext.makePtr: of a pattern, or of the word that is respelled.
MakeNode(u, surface, template) ==
  /\ AllocateMemory(NodeHeader + model.numFeatures, NodeAlign)
  /\ extra' = IF live' = live THEN extra ELSE Append(extra, MakePtr(u, surface, template))
  /\ UNCHANGED <<builderVars, model, walker, current, told>>
MakeUnknown ==
  /\ Analyzing
  /\ \E u \in DOMAIN spec.unks, surface \in Surfaces :
       ~spec.unks[u].normalizes /\ MakeNode(u, surface, model.patternPtrs[u])
MakeNormalized ==
  /\ Analyzing
  /\ \E u \in DOMAIN spec.unks, surface \in Surfaces, ptr \in WordPointers :
       spec.unks[u].normalizes /\ MakeNode(u, surface, ptr)
\* The lattice takes its memory from the same arena.
OtherMemory ==
  /\ Analyzing
  /\ \E r \in Requests : AllocateMemory(r.size, r.align)
  /\ UNCHANGED <<builderVars, model, extra, walker, current, told>>

Locate ==
  /\ model.restored
  /\ \E eptr \in WordPointers \cup {-n : n \in DOMAIN extra} :
       walker' = Located(walker, eptr) /\ current' = eptr
  /\ told' = [rows |-> 0, more |-> TRUE]
  /\ UNCHANGED <<builderVars, arenaVars, model, extra>>
NextRow ==
  /\ told.more
  /\ LET next == NextData(walker, model.entries)
     IN /\ walker' = next.buffer
        /\ told' = [rows |-> told.rows + IF next.more THEN 1 ELSE 0, more |-> next.more]
  /\ UNCHANGED <<builderVars, arenaVars, model, extra, current>>

\* AnalyzerImpl.reset.  What the walker was sent to is gone.
NewSentence ==
  /\ model.restored
  /\ ResetMemory /\ extra' = <<>>
  /\ current' = 0 /\ told' = Nowhere
  /\ UNCHANGED <<builderVars, model, walker>>

Init ==
  /\ BuilderInit /\ ArenaInit
  /\ model = NoDictionary /\ extra = <<>>
  /\ \E value \in Garbage : walker = Buffer(value)  \* a walker is not initialised
  /\ current = 0 /\ told = Nowhere
Next ==
  \/ ImportCsv /\ UNCHANGED <<arenaVars, model, extra, walker, current, told>>
  \/ LoadModel
  \/ MakeUnknown \/ MakeNormalized \/ OtherMemory \/ Locate \/ NextRow \/ NewSentence
Spec == Init /\ [][Next]_wordsVars

-----------------------------------------------------------------------------

\* CsvReader.nextLine, csv_reader.h:18, "read Comma Separated Values (CSV) files
\* line by line": a pass over the CSV reads each of its rows once.
RowsReadOnce == line <= Len(rows)

\* What a walker that is new tells about an entry, row after row: no more rows
\* than there are cells in the entries.
Told(acc, eptr) ==
  LET next == NextData(acc.buffer, model.entries)
  IN IF acc.more /\ next.more
     THEN [more |-> TRUE, buffer |-> next.buffer,
           rows |-> Append(acc.rows, WordOf(next.buffer, eptr))]
     ELSE [acc EXCEPT !.more = FALSE]
Untold(eptr) == [more |-> TRUE, buffer |-> Located(Buffer(0), eptr), rows |-> <<>>]
Telling(eptr) == FoldLeft(LAMBDA acc, cell : Told(acc, eptr), Untold(eptr), model.entries).rows
Multiset(s) == [x \in ToSet(s) |-> Cardinality({k \in DOMAIN s : s[k] = x})]
\* A row of the CSV as it should be read: ignored cells are empty, and the
\* elements of a list have no order.
AsRead(word, fields) ==
  [i \in fields |-> IF HasList(spec, i) THEN Multiset(word[i]) ELSE word[i]]
RowAsRead(row, fields) ==
  AsRead([i \in Fields(spec) |-> IF Ignored(spec.fields[i].ignore, FieldText(row, i)) THEN <<>>
                                 ELSE Cell(spec.fields[i].kind, FieldText(row, i))], fields)
WordsUnder(surface) == FlattenSeq([k \in DOMAIN PointersOf(surface) |-> Telling(PointersOf(surface)[k])])
RowsOf(surface) ==
  SelectSeq([r \in DOMAIN rows |-> r],
            LAMBDA r : r \notin PatternRows /\ FieldText(rows[r], Key) = surface)

\* Reading the loaded dictionary gives every row that is no pattern back, as
\* often as the CSV has it and under its surface: the data of each row and
\* the features that tell the entries of a surface apart, through counting,
\* aligned storages, deltas, shared entries, the cache of lists, the trie and
\* the pages of the file.  (It says nothing of nodes and walkers, so it is
\* asked once a dictionary is loaded.)
WordsReadBack ==
  model.restored /\ told = Nowhere /\ live = <<>> =>
    LET exact == AliasingSet(spec) \cup DataFields(spec)
    IN \A s \in DOMAIN model.trie \cup {FieldText(rows[r], Key) : r \in DOMAIN rows} :
         LET read(words) == [k \in DOMAIN words |-> AsRead(words[k], exact)]
             wanted(rs) == [k \in DOMAIN rs |-> RowAsRead(rows[rs[k]], exact)]
         IN Multiset(read(WordsUnder(s))) = Multiset(wanted(RowsOf(s)))

\* Every pointer that a surface leads to or a creator takes its pattern from
\* leads to a whole entry, and to one that rows share if it says so.  Nobody
\* looks at what fillFromStorage returns when it is not so.
Readable(ptr) ==
  LET shared == ptr % 2 = 1
      head == ReadVarints(model.entries, ptr \div 2,
                          model.numFeatures + IF shared THEN 1 ELSE model.numData)
  IN /\ ptr \in Nat /\ head.ok
     /\ shared => head.values[model.numFeatures + 1] \in Nat \ {0}
Templates == WordPointers \cup {model.patternPtrs[u] : u \in DOMAIN spec.unks}
EntriesReadable ==
  model.restored => model.entries \in Seq(Nat) /\ \A ptr \in Templates : Readable(ptr)

\* Rows have data, and these and the features fit the cells of a buffer.
Fits(i) == NumDicData(i.spec) > 0 /\ NumDicFeatures(i.spec) + NumDicData(i.spec) <= FieldsLimit
InputsFit == \A i \in Inputs : Fits(i)

\* A walker that has been used for other entries before tells the rows of the
\* entry it was sent to, all of them and in order, like a new one would.
WalkerTellsTheWord ==
  told # Nowhere =>
    LET telling == Telling(current)
    IN /\ told.rows <= Len(telling)
       /\ told.rows > 0 /\ told.more => WordOf(walker, current) = telling[told.rows]
       /\ ~told.more => told.rows = Len(telling)

\* A node that a creator made reads like its pattern, or like the word it
\* respells, except in the fields the creator writes: they are the surface.
\* (Nodes are made before the walker is sent anywhere.)
UnknownsReadBack ==
  told = Nowhere =>
    \A n \in DOMAIN extra : \E u \in DOMAIN spec.unks :
      LET template == extra[n].template
          respelled(word) == [i \in Fields(spec) |->
            IF i \in spec.unks[u].outputs THEN <<<<extra[n].surface>>>> ELSE word[i]]
          pattern == AsRead(Telling(template)[1], Fields(spec))
      IN /\ Telling(-n) = [k \in DOMAIN Telling(template) |-> respelled(Telling(template)[k])]
         /\ IF spec.unks[u].normalizes THEN template \in WordPointers
            ELSE pattern = RowAsRead(rows[spec.unks[u].row], Fields(spec))
=============================================================================
