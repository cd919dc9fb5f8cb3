------------------------------ MODULE EntryBuffers ---------------------------
(***************************************************************************)
(* A DicEntryBuffer: the numbers of an entry as they are read, and what is *)
(* left to read of an entry that rows share.  The features come first; the *)
(* data follow them in the same array, unless rows share the entry: then   *)
(* each step brings the data of the next row into an array of its own.     *)
(* Both arrays have a cell for each field a specification may have         *)
(* (FieldsLimit), and a buffer is used again for the next entry without    *)
(* being cleared.                                                          *)
(***************************************************************************)
EXTENDS CodedIo, SpecCompiler

\* A buffer in which every cell has the same value.
Buffer(value) ==
  [numFeatures |-> 0, numData |-> 0, features |-> [k \in 1 .. FieldsLimit |-> value],
   data |-> [k \in 1 .. FieldsLimit |-> value],
   remaining |-> [length |-> 0, position |-> 0, at |-> 0]]

SetCounts(b, numFeatures, numData) ==
  [b EXCEPT !.numFeatures = numFeatures, !.numData = numData]
Over(values, array) ==
  [k \in DOMAIN array |-> IF k <= Len(values) THEN values[k] ELSE array[k]]

\* fillFromStorage
Rest(length, at) == [length |-> length, position |-> 0, at |-> at]
FillShared(b, entryData, ptr) ==
  LET read == ReadVarints(entryData, ptr \div 2, b.numFeatures + 1)
      filled == [b EXCEPT !.features = Over(read.values, @)]
  IN IF ~read.ok THEN filled
     ELSE [filled EXCEPT !.remaining =
             Rest(b.numData * filled.features[b.numFeatures + 1], read.next)]
FillSingleUncleared(b, entryData, ptr) ==  \* mutant: what is left of the entry before stays
  LET read == ReadVarints(entryData, ptr \div 2, b.numFeatures + b.numData)
  IN [b EXCEPT !.features = Over(read.values, @), !.data[1] = 1]
FillSingle(b, entryData, ptr) ==
  LET read == ReadVarints(entryData, ptr \div 2, b.numFeatures + b.numData)
      filled == [b EXCEPT !.features = Over(read.values, @)]
  IN IF ~read.ok THEN filled
     ELSE [filled EXCEPT !.remaining = Rest(0, b.remaining.at), !.data[1] = 1]
FillFromStorage(b, entryData, ptr) ==
  IF ptr % 2 = 1 THEN FillShared(b, entryData, ptr) ELSE FillSingle(b, entryData, ptr)

OverwriteFeatures(b, values) == [b EXCEPT !.features = Over(values, @)]

\* nextData: [more, buffer]
NextData(b, entryData) ==
  LET left == b.remaining.length - b.remaining.position
      read == ReadVarints(entryData, b.remaining.at, b.numData)
  IN CASE b.remaining.length = 0 ->
            [more |-> b.data[1] > 0, buffer |-> [b EXCEPT !.data[1] = @ - 1]]
       [] b.remaining.length # 0 /\ left = 0 -> [more |-> FALSE, buffer |-> b]
       [] OTHER ->
            [more |-> read.ok,
             buffer |-> [b EXCEPT !.data = Over(read.values, @),
                                  !.remaining.position = @ + b.numData,
                                  !.remaining.at = read.next]]

\* NodeWalker.valueOf
DataAt(b, k) == IF b.remaining.length = 0 THEN b.features[b.numFeatures + k] ELSE b.data[k]
ValueAt(b, dicIndex) ==
  IF dicIndex >= 0 THEN b.features[dicIndex + 1] ELSE DataAt(b, -dicIndex)
=============================================================================
