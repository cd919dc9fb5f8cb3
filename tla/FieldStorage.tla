------------------------------ MODULE FieldStorage ---------------------------
(***************************************************************************)
(* How the fields of a dictionary are stored and read back: the strings of *)
(* a field in a string storage, where a pointer counts aligned places; the *)
(* lists of a field in an integer storage, as differences of sorted string *)
(* pointers.                                                               *)
(*                                                                         *)
(* A field of the CSV is a text.  Its cell is a sequence of entries, an     *)
(* entry a sequence of one or two strings: the cell of a string has one     *)
(* entry of one string, a list has entries of one, a list of keys and       *)
(* values of one or two.  An empty field has none.                          *)
(***************************************************************************)
EXTENDS CodedIo, Functions, TLC

CONSTANT CacheSize  \* capacity of positionCache_: 50000

Power(power) == 2 ^ power
ByCount(counts, order) == \A i, j \in DOMAIN order : i < j => counts[order[i]] >= counts[order[j]]
Space == 32  \* listSeparator
Colon == 58  \* kvSeparator
\* The text before the first separator, and what is behind it.
Before(text, separator) ==
  SubSeq(text, 1, SelectInSeq(text \o <<separator>>, LAMBDA c : c = separator) - 1)
Behind(text, separator) == SubSeq(text, Len(Before(text, separator)) + 2, Len(text))
Has(text, separator) == separator \in ToSet(text)
\* The loops of importFieldValue over a list: a separator that ends the text
\* is not followed by an entry.
Entries(text) ==
  LET cut == FoldLeft(LAMBDA acc, k :
                        IF acc.rest = <<>> THEN acc
                        ELSE [entries |-> Append(acc.entries, Before(acc.rest, Space)),
                              rest |-> Behind(acc.rest, Space)],
                      [entries |-> <<>>, rest |-> text], text)
  IN cut.entries
KeyValue(entry) ==
  IF Has(entry, Colon) THEN <<Before(entry, Colon), Behind(entry, Colon)>> ELSE <<entry>>
Cell(kind, text) ==
  CASE kind = "string" -> IF text = <<>> THEN <<>> ELSE <<<<text>>>>
    [] kind = "list" -> [k \in DOMAIN Entries(text) |-> <<Entries(text)[k]>>]
    [] kind = "kvlist" -> [k \in DOMAIN Entries(text) |-> KeyValue(Entries(text)[k])]
Ignored(ignore, text) == text \in {<<>>, ignore}

-----------------------------------------------------------------------------
(* Storing *)

\* importFieldValue: the strings to count, and StringStorage's counting.
StringsOf(kind, ignore, text) ==
  IF Ignored(ignore, text) THEN <<>> ELSE FlattenSeq(Cell(kind, text))
IncreaseFieldValueCount(counts, str) ==
  IF str \in DOMAIN counts THEN [counts EXCEPT ![str] = @ + 1] ELSE counts @@ (str :> 1)

\* StringStorage.makeStorage over the strings by falling count.  The order of
\* strings counted alike is that of a hash table, and any here.
Orders(counts) == {o \in SetToSeqs(DOMAIN counts) : ByCount(counts, o)}
MakeStorageUnpadded(order, power) ==
  LET put(acc, str) ==
        LET at == Align(Len(acc.buf), Power(power))
        IN [buf |-> WriteString(acc.buf, str),
            mapping |-> acc.mapping @@ (str :> at \div Power(power))]
  IN FoldLeft(put, [buf |-> WriteString(<<>>, <<>>), mapping |-> <<>>], order)
MakeStorage(order, power) ==
  LET put(acc, str) ==
        LET at == Align(Len(acc.buf), Power(power))
            padding == [i \in 1 .. at - Len(acc.buf) |-> 0]
        IN [buf |-> WriteString(acc.buf \o padding, str),
            mapping |-> acc.mapping @@ (str :> at \div Power(power))]
  IN FoldLeft(put, [buf |-> WriteString(<<>>, <<>>), mapping |-> <<>>], order)
ValueOf(mapping, str) == IF str \in DOMAIN mapping THEN mapping[str] ELSE -1

\* writePtrsAsDeltas
PtrsAsDeltas(values) ==
  LET sorted == SortSeq(values, <)
  IN <<Len(values)>> \o
     [i \in DOMAIN sorted |-> IF i = 1 THEN sorted[1] ELSE sorted[i] - sorted[i - 1]]
WritePtrsAsDeltas(buf, values) == WriteVarints(buf, PtrsAsDeltas(values))

\* The serialized form of a list with keys: differences of sorted keys, each
\* with a bit that says whether a value follows.
KeyValues(mapping, cell) ==
  LET pair(entry) == <<ValueOf(mapping, entry[1]),
                       IF Len(entry) = 1 THEN -1 ELSE ValueOf(mapping, entry[2])>>
      sorted == SortSeq([i \in DOMAIN cell |-> pair(cell[i])], LAMBDA p, q : p[1] < q[1])
      numbers(i) ==
        LET diff == sorted[i][1] - IF i = 1 THEN 0 ELSE sorted[i - 1][1]
        IN IF sorted[i][2] = -1 THEN <<2 * diff>> ELSE <<2 * diff + 1, sorted[i][2]>>
  IN WriteVarints(<<>>, <<Len(cell)>> \o FlattenSeq([i \in DOMAIN sorted |-> numbers(i)]))

\* LruCache: two maps; a full one becomes the old one, and what was old is
\* forgotten.
NoCache == [map1 |-> <<>>, map2 |-> <<>>]
MaybeSwap(cache) ==
  IF Cardinality(DOMAIN cache.map1) >= CacheSize
  THEN [map1 |-> <<>>, map2 |-> cache.map1] ELSE cache
Insert(cache, key, value) == MaybeSwap([cache EXCEPT !.map1 = @ @@ (key :> value)])
Found(cache, key) == key \in DOMAIN cache.map1 \cup DOMAIN cache.map2
TryFind(cache, key) ==
  CASE key \in DOMAIN cache.map1 -> [value |-> cache.map1[key], cache |-> cache]
    [] key \in DOMAIN cache.map2 ->
         [value |-> cache.map2[key], cache |-> Insert(cache, key, cache.map2[key])]

\* fieldPointer: the number that stands for a cell, the storage it is in and
\* the cache of the importer.
FieldPointer(kind, ignore, mapping, text, ints, cache) ==
  LET cell == Cell(kind, text)
      serialized == KeyValues(mapping, cell)
      hit == TryFind(cache, serialized)
  IN CASE Ignored(ignore, text) -> [ptr |-> 0, ints |-> ints, cache |-> cache]
       [] kind = "string" -> [ptr |-> ValueOf(mapping, text), ints |-> ints, cache |-> cache]
       [] kind = "list" ->
            [ptr |-> Len(ints), cache |-> cache,
             ints |-> WritePtrsAsDeltas(ints, [i \in DOMAIN cell |-> ValueOf(mapping, cell[i][1])])]
       [] kind = "kvlist" /\ Found(cache, serialized) ->
            [ptr |-> hit.value, ints |-> ints, cache |-> hit.cache]
       [] OTHER ->
            [ptr |-> Len(ints), ints |-> ints \o serialized,
             cache |-> Insert(cache, serialized, Len(ints))]

-----------------------------------------------------------------------------
(* Reading *)

ReadAt(strings, power, ptr) == ReadStringPiece(strings, ptr * Power(power)).value

\* IntListTraversal.readOneCumulative over IntStorageReader.listAt.
ListAt(ints, ptr) ==
  LET size == ReadVarint(ints, ptr)
      diffs == ReadVarints(ints, size.next, size.value).values
  IN [i \in DOMAIN diffs |-> FoldLeft(+, 0, SubSeq(diffs, 1, i))]

\* KeyValueListTraversal.moveNext over kvListAt: pairs of a key and a value, or
\* a key alone.
KvListAt(ints, ptr) ==
  LET size == ReadVarint(ints, ptr)
      move(acc, i) ==
        LET data == ReadVarint(ints, acc.next)
            value == ReadVarint(ints, data.next)
            key == acc.key + data.value \div 2
        IN IF data.value % 2 = 0
           THEN [key |-> key, next |-> data.next, list |-> Append(acc.list, <<key>>)]
           ELSE [key |-> key, next |-> value.next, list |-> Append(acc.list, <<key, value.value>>)]
  IN FoldLeft(move, [key |-> 0, next |-> size.next, list |-> <<>>],
              [i \in 1 .. size.value |-> i]).list

\* StringField, StringListIterator and KVListIterator: the cell a pointer
\* stands for.  An empty string reads as an empty cell.
CellAt(kind, strings, power, ints, ptr) ==
  LET str(p) == ReadAt(strings, power, p)
      ofString(s) == IF s = <<>> THEN <<>> ELSE <<<<s>>>>
      ofPointers(entries) == [i \in DOMAIN entries |-> [j \in DOMAIN entries[i] |-> str(entries[i][j])]]
  IN CASE kind = "string" -> ofString(str(ptr))
       [] kind = "list" -> ofPointers([i \in DOMAIN ListAt(ints, ptr) |-> <<ListAt(ints, ptr)[i]>>])
       [] kind = "kvlist" -> ofPointers(KvListAt(ints, ptr))
=============================================================================
