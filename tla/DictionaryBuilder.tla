---------------------------- MODULE DictionaryBuilder ------------------------
(***************************************************************************)
(* How a CSV becomes a dictionary (DictionaryBuilder.importCsv).  A first  *)
(* pass over the rows counts strings, a second one writes the rows as      *)
(* entries.  Rows of a surface that agree in the features of the aliasing  *)
(* set share an entry; the entries of a surface wait in a bag until its    *)
(* last row is read.  The rows that serve creators of unknown words as     *)
(* patterns are written at once and are not found by their surface.        *)
(*                                                                         *)
(* Both passes read the rows with a CsvReader; a line it cannot read ends  *)
(* a pass like the end of the text.  A pointer to an entry is twice its    *)
(* place in entryData, plus one if rows share it.                          *)
(***************************************************************************)
EXTENDS SpecCompiler, FieldStorage, CsvReader

CONSTANT Inputs  \* [spec, csv, rows]: rows are the fields that the text csv is written from

Comma == 44

InvalidInt == -7  \* stands for 0xdeadbeef

VARIABLES
  input,       \* the specification and the text
  pass,        \* "stats", "storage", "entries", "built" or "failed"
  line,        \* the rows this pass has read
  position,    \* position_ of the CsvReader
  counts,      \* what the string storages count, and of surfaceCounter_
  storages,    \* the string storages made so far: their buf and mapping
  lists,       \* per field, intBuffers and positionCache_
  bag,         \* entryBag: [data, count] by surface pointer
  ignoredRows, \* pointers to the patterns by row
  entryData,   \* entryDataBuffer
  entriesWith, \* entriesWithField: pointers to entries by surface pointer
  dic          \* the BuiltDictionary

builderVars == <<input, pass, line, position, counts, storages, lists, bag, ignoredRows, entryData,
                 entriesWith, dic>>

spec == input.spec
rows == input.rows
Key == IndexColumn(spec)
FieldText(row, i) == row[spec.fields[i].column]
MappingOf(i) == storages[StringStorageOf(spec, i)].mapping
PatternRows == {spec.unks[u].row : u \in DOMAIN spec.unks}

\* csv.field(surfaceIdx_): the place of the key among the fields is taken for
\* its column.
RowSurface(row) == row[Key]

Row == NextLine(input.csv, position, Comma)
AtRow(p) == pass = p /\ Row.ok
AtEnd(p) == pass = p /\ ~Row.ok

-----------------------------------------------------------------------------
(* First pass *)

MaxUsedCol == CHOOSE c \in {spec.fields[i].column : i \in Fields(spec)} :
                \A i \in Fields(spec) : spec.fields[i].column <= c
CountRow(row, st) ==
  FoldLeft(IncreaseFieldValueCount, counts.strings[st],
           FlattenSeq([i \in Fields(spec) |->
             IF StringStorageOf(spec, i) = st
             THEN StringsOf(spec.fields[i].kind, spec.fields[i].ignore, FieldText(row, i)) ELSE <<>>]))
ComputeStats ==
  /\ AtRow("stats")
  /\ \E row \in {Row.fields} :
        IF MaxUsedCol > Len(row)
        THEN pass' = "failed" /\ UNCHANGED <<line, position, counts>>
        ELSE /\ counts' = [strings |-> [st \in DOMAIN counts.strings |-> CountRow(row, st)],
                           surfaces |-> IncreaseFieldValueCount(counts.surfaces,
                                                                FieldText(row, Key))]
             /\ line' = line + 1 /\ position' = Row.next /\ UNCHANGED pass
  /\ UNCHANGED <<input, storages, lists, bag, ignoredRows, entryData, entriesWith, dic>>

\* makeStorage, one string storage after the other; with the last one the
\* buffers of lists get their empty list and the second pass begins.
NextStorage == Len(storages) + 1
FieldOfStorage(st) == CHOOSE i \in Fields(spec) : StringStorageOf(spec, i) = st
MakeStringStorage ==
  /\ AtEnd("stats") \/ pass = "storage"
  /\ \E order \in Orders(counts.strings[NextStorage]) :
       storages' = Append(storages, MakeStorage(order, AlignmentOf(spec, FieldOfStorage(NextStorage))))
  /\ IF Len(storages') < NumStringStorage(spec)
     THEN pass' = "storage" /\ UNCHANGED <<line, position, lists>>
     ELSE /\ pass' = "entries" /\ line' = 0 /\ position' = 1
          /\ lists' = [i \in Fields(spec) |->
                        [ints |-> IF HasList(spec, i) THEN WriteVarint(<<>>, 0) ELSE <<>>,
                         cache |-> NoCache]]
  /\ UNCHANGED <<input, counts, bag, ignoredRows, entryData, entriesWith, dic>>

-----------------------------------------------------------------------------
(* Second pass *)

\* MatchListDicFeatureImpl reads the column whose number is the place of the
\* field among the fields, MatchFieldTupleDicFeatureImpl the column of each.
Known(i, str) == str \in DOMAIN MappingOf(i)
Matches(m, row) ==
  CASE m.kind = "list" ->
         LET list == NextLine(row[m.of[1]], 1, Space)
             key(e) == IF spec.fields[m.of[1]].kind = "kvlist" THEN Before(e, Colon) ELSE e
         IN list.ok /\ \E e \in ToSet(list.fields) : key(e) \in m.data /\ Known(m.of[1], key(e))
    [] m.kind = "csv" ->
         LET tuple == [k \in DOMAIN m.of |-> FieldText(row, m.of[k])]
         IN tuple \in m.data /\ \A k \in DOMAIN m.of : Known(m.of[k], tuple[k])

Imported(row) ==
  [i \in Fields(spec) |->
     FieldPointer(spec.fields[i].kind, spec.fields[i].ignore, MappingOf(i), FieldText(row, i),
                  lists[i].ints, lists[i].cache)]
FieldWithIndex(index) == CHOOSE i \in Fields(spec) : DicIndex(spec, i) = index
\* computeFeatures
FeaturesOf(row, got) ==
  [k \in 1 .. NumDicFeatures(spec) |->
     IF k <= Cardinality(ComputeByName(spec)) THEN got[FieldWithIndex(k - 1)].ptr
     ELSE FoldLeft(+, 0, [m \in DOMAIN spec.matches |->
            IF FlagTarget(spec, m) = k - 1 /\ Matches(spec.matches[m], row)
            THEN 2 ^ FlagShift(m) ELSE 0])]
\* DicEntryData.addData
DataOf(got) == [k \in 1 .. NumDicData(spec) |-> got[FieldWithIndex(-k)].ptr]
\* EntryTableBuilder.gather
Gather(features) == [i \in AliasingSet(spec) |-> features[DicIndex(spec, i) + 1]]

WriteEntryBehind(buf, e) ==  \* mutant: the place is taken once the features are written
  LET withFeatures == WriteVarints(buf, e.features)
  IN IF Len(e.data) = 1
     THEN [buf |-> WriteVarints(withFeatures, e.data[1]), ptr |-> 2 * Len(withFeatures)]
     ELSE [buf |-> WriteVarints(WriteVarint(withFeatures, Len(e.data)), FlattenSeq(e.data)),
           ptr |-> 2 * Len(withFeatures) + 1]
\* DicEntryData.write
WriteEntry(buf, e) ==
  LET withFeatures == WriteVarints(buf, e.features)
  IN IF Len(e.data) = 1
     THEN [buf |-> WriteVarints(withFeatures, e.data[1]), ptr |-> 2 * Len(buf)]
     ELSE [buf |-> WriteVarints(WriteVarint(withFeatures, Len(e.data)), FlattenSeq(e.data)),
           ptr |-> 2 * Len(buf) + 1]
WriteEntries(buf, es) ==
  FoldLeft(LAMBDA acc, e : LET w == WriteEntry(acc.buf, e)
                           IN [buf |-> w.buf, ptrs |-> Append(acc.ptrs, w.ptr)],
           [buf |-> buf, ptrs |-> <<>>], es)

\* DicEntryBag.add: the order of an entry is that of its last row.
Bagged(surf, features, data) ==
  LET old == IF surf \in DOMAIN bag THEN bag[surf] ELSE [data |-> <<>>, count |-> 0]
      dedup == Gather(features)
      new == dedup \notin DOMAIN old.data
      e == [features |-> IF new THEN features ELSE old.data[dedup].features,
            data |-> Append(IF new THEN <<>> ELSE old.data[dedup].data, data),
            order |-> Cardinality(DOMAIN old.data) + IF new THEN 1 ELSE 0]
  IN [data |-> (dedup :> e) @@ old.data, count |-> old.count + 1]
\* The entries of a surface as std::sort may leave them.
Reorderings(group) ==
  {[k \in DOMAIN o |-> group.data[o[k]]] :
     o \in {p \in SetToSeqs(DOMAIN group.data) :
              \A j, k \in DOMAIN p : j < k => group.data[p[j]].order <= group.data[p[k]].order}}
WriteGroup(surf, group) ==
  \E es \in Reorderings(group) :
    LET written == WriteEntries(entryData, es)
        old == IF surf \in DOMAIN entriesWith THEN entriesWith[surf] ELSE <<>>
    IN /\ entryData' = written.buf
       /\ entriesWith' = (surf :> (old \o written.ptrs)) @@ entriesWith

\* A pattern is written at once; a word waits until as many rows of its
\* surface were read as the first pass counted.
ImportPattern(e) ==
  \E pattern \in {WriteEntry(entryData, e)} :
    /\ entryData' = pattern.buf
    /\ ignoredRows' = [ignoredRows EXCEPT ![line + 1] = pattern.ptr]
    /\ UNCHANGED <<bag, entriesWith>>
ImportWord(surface, features, data) ==
  \E surf \in {ValueOf(MappingOf(Key), surface)} : \E group \in {Bagged(surf, features, data)} :
    /\ IF group.count = ValueOf(counts.surfaces, surface)
       THEN WriteGroup(surf, group) /\ bag' = [s \in DOMAIN bag \ {surf} |-> bag[s]]
       ELSE bag' = (surf :> group) @@ bag /\ UNCHANGED <<entryData, entriesWith>>
    /\ UNCHANGED ignoredRows
ImportOneLine ==
  /\ AtRow("entries")
  /\ \E row \in {Row.fields} : \E got \in {Imported(row)} : \E features \in {FeaturesOf(row, got)} :
       /\ lists' = [i \in Fields(spec) |-> [ints |-> got[i].ints, cache |-> got[i].cache]]
       /\ \/ /\ line + 1 \in DOMAIN ignoredRows
             /\ ImportPattern([features |-> features, data |-> <<DataOf(got)>>])
          \/ /\ line + 1 \notin DOMAIN ignoredRows
             /\ ImportWord(RowSurface(row), features, DataOf(got))
  /\ line' = line + 1 /\ position' = Row.next
  /\ UNCHANGED <<input, pass, counts, storages, dic>>

\* writeRest: surfaces with a row that is a pattern never complete.
WriteRest ==
  /\ AtEnd("entries")
  /\ \E surf \in DOMAIN bag :
       WriteGroup(surf, bag[surf]) /\ bag' = [s \in DOMAIN bag \ {surf} |-> bag[s]]
  /\ UNCHANGED <<input, pass, line, position, counts, storages, lists, ignoredRows, dic>>

\* buildTrie and fillResult.  Lists of entries follow the order of a hash table.
TrieOf(mapping, ptrs) ==
  LET add(acc, str) == [buf |-> WritePtrsAsDeltas(acc.buf, ptrs[mapping[str]]),
                        trie |-> (str :> Len(acc.buf)) @@ acc.trie]
  IN FoldLeft(add, [buf |-> <<>>, trie |-> <<>>],
              SetToSeq({str \in DOMAIN mapping : mapping[str] \in DOMAIN ptrs}))
BuildTrie ==
  /\ AtEnd("entries") /\ bag = <<>>
  /\ LET built == TrieOf(MappingOf(Key), entriesWith)
     IN dic' = [trie |-> built.trie, entryPtrs |-> built.buf, entryData |-> entryData,
                strings |-> [st \in DOMAIN storages |-> storages[st].buf],
                ints |-> [n \in 1 .. NumIntStorage(spec) |->
                           lists[CHOOSE i \in Fields(spec) :
                                   HasList(spec, i) /\ IntStorageOf(spec, i) = n].ints],
                patternPtrs |-> [u \in DOMAIN spec.unks |-> ignoredRows[spec.unks[u].row]]]
  /\ pass' = "built"
  /\ UNCHANGED <<input, line, position, counts, storages, lists, bag, ignoredRows, entryData, entriesWith>>

-----------------------------------------------------------------------------

\* initialize and initGroupingFields.
BuilderInit ==
  /\ input \in Inputs
  /\ pass = IF Accepted(spec) THEN "stats" ELSE "failed"
  /\ line = 0 /\ position = 1
  /\ counts = [strings |-> [st \in 1 .. NumStringStorage(spec) |-> <<>>], surfaces |-> <<>>]
  /\ storages = <<>> /\ lists = <<>> /\ bag = <<>>
  /\ ignoredRows = [r \in PatternRows |-> InvalidInt]
  /\ entryData = <<>> /\ entriesWith = <<>> /\ dic = <<>>

ImportCsv ==
  ComputeStats \/ MakeStringStorage \/ ImportOneLine \/ WriteRest \/ BuildTrie
=============================================================================
