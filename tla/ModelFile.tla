------------------------------- MODULE ModelFile -----------------------------
(***************************************************************************)
(* A model in a file: parts that are lists of blocks, every block on a     *)
(* page of its own behind the page of the header, and how the blocks of a  *)
(* dictionary part are told apart again.  A file is a sequence of cells;   *)
(* its header is kept as the places of the blocks.                         *)
(***************************************************************************)
EXTENDS EntryBuffers, FiniteSets

CONSTANT FilePage  \* 4096

\* ModelSaver.save: the parts are sequences [kind, data].
Zeros(n) == [i \in 1 .. n |-> 0]
SaveBlock(acc, block) ==
  LET before == acc.cells \o Zeros(acc.offset - Len(acc.cells))
  IN [cells |-> before \o block,
      blocks |-> Append(acc.blocks, [offset |-> acc.offset, size |-> Len(block)]),
      offset |-> Align(acc.offset + Len(block), FilePage)]
SavePart(acc, part) ==
  LET saved == FoldLeft(SaveBlock, [cells |-> acc.cells, blocks |-> <<>>, offset |-> acc.offset],
                        part.data)
  IN [cells |-> saved.cells, offset |-> saved.offset,
      header |-> Append(acc.header, [kind |-> part.kind, data |-> saved.blocks])]
Save(parts) ==
  FoldLeft(SavePart, [cells |-> <<>>, offset |-> FilePage, header |-> <<>>], parts)

\* FilesystemModel.load
Load(file) ==
  [p \in DOMAIN file.header |->
     [kind |-> file.header[p].kind,
      data |-> [b \in DOMAIN file.header[p].data |->
                  LET block == file.header[p].data[b]
                  IN SubSeq(file.cells, block.offset + 1, block.offset + block.size)]]]

\* fillModelPart: the block of the specification and the trie are one cell each.
DictionaryPart(spec, dic) ==
  [kind |-> "Dictionary",
   data |-> <<<<[spec |-> spec, patternPtrs |-> dic.patternPtrs]>>, <<dic.trie>>,
              dic.entryPtrs, dic.entryData>> \o dic.strings \o dic.ints]

\* restoreDictionary and fixupDictionary; NoDictionary if the part is missing,
\* there are two, its blocks are not as many as the specification says or an
\* entry has too many fields: features, generated columns among them, or data.
NoDictionary == [restored |-> FALSE]
RestoreDictionary(parts, numStrings, numInts, numFeatures, numData) ==
  LET found == {p \in DOMAIN parts : parts[p].kind = "Dictionary"}
      data == parts[CHOOSE p \in found : TRUE].data
  IN IF Cardinality(found) # 1 \/ Len(data) # numStrings + numInts + 4
        \/ numFeatures > FieldsLimit \/ numData > FieldsLimit
     THEN NoDictionary
     ELSE [restored |-> TRUE, patternPtrs |-> data[1][1].patternPtrs, trie |-> data[2][1],
           entryPtrs |-> data[3], entryData |-> data[4],
           strings |-> SubSeq(data, 5, 4 + numStrings),
           ints |-> SubSeq(data, 5 + numStrings, Len(data))]
=============================================================================
