------------------------------ MODULE SpecCompiler ---------------------------
(***************************************************************************)
(* What SpecCompiler makes of a declared dictionary: which storage keeps   *)
(* the strings of a field, which fields are features of a word and which   *)
(* are data, where each stands in an entry, and which features tell the    *)
(* entries of a surface apart.                                             *)
(*                                                                         *)
(* A specification s has                                                   *)
(*   fields   a sequence of [column, kind, key, ignore, storage, align]:   *)
(*            the CSV column (from 1), "string", "list" or "kvlist", FALSE *)
(*            except for the field in the trie, the empty value, the field *)
(*            whose storage it shares (itself if none), and a power of two *)
(*   named    the fields that n-gram features and branches name            *)
(*   matches  a sequence of [kind, of, data]: a "list" match looks for one *)
(*            of the strings in data among the keys of the field of[1], a  *)
(*            "csv" match for one of the tuples among the fields of        *)
(*   training the fields named for training, or none                       *)
(*   weightless  those of them whose weight is 0                           *)
(*   unks     a sequence of [row, outputs, normalizes]: the row of the CSV *)
(*            that is the pattern of a creator, the fields it writes, and  *)
(*            whether it respells words instead                            *)
(* FlagBits is 32, the width at which makeIntSlot opens a new column, and  *)
(* FieldsLimit is JPP_MAX_DIC_FIELDS, 16.                                  *)
(***************************************************************************)
EXTENDS Integers, Sequences, FiniteSets, SequencesExt

CONSTANTS FlagBits, FieldsLimit

ASSUME FieldsAssumption == FieldsLimit \in Nat \ {0}

Fields(s) == DOMAIN s.fields
IndexColumn(s) == CHOOSE i \in Fields(s) : s.fields[i].key
Least(S) == CHOOSE x \in S : \A y \in S : x <= y
Rank(S, x) == Cardinality({y \in S : y < x})

\* buildFields and StorageAssigner: storages are numbered as they are first
\* named, and all fields of one are aligned like its first.
FirstOfStorage(s, i) == Least({j \in Fields(s) : s.fields[j].storage = s.fields[i].storage})
StringStorageOf(s, i) ==
  Cardinality({s.fields[j].storage : j \in 1 .. FirstOfStorage(s, i)})
NumStringStorage(s) == Cardinality({s.fields[j].storage : j \in Fields(s)})
HasList(s, i) == s.fields[i].kind # "string"
IntStorageOf(s, i) == Cardinality({j \in 1 .. i : HasList(s, j)})
NumIntStorage(s) == Cardinality({j \in Fields(s) : HasList(s, j)})
AlignmentOf(s, i) == s.fields[FirstOfStorage(s, i)].align

\* gatherFeatureInfo: the fields that are features.
ComputeByName(s) ==
  s.named \cup UNION {s.unks[u].outputs : u \in DOMAIN s.unks}
  \cup {i \in UNION {ToSet(s.matches[m].of) : m \in DOMAIN s.matches} : ~HasList(s, i)}

\* makeIntSlot: the generated column and the bit of the m-th match.
FlagColumn(m) == (m - 1) \div (FlagBits - 1)
FlagShift(m) == (m - 1) % (FlagBits - 1)

\* makeDicFeatures: features before data, the matches behind the fields, those
\* of lists first; a generated column counts where its first match stands.
MatchOrder(s) ==
  LET all == [m \in DOMAIN s.matches |-> m]
  IN SelectSeq(all, LAMBDA m : s.matches[m].kind = "list")
     \o SelectSeq(all, LAMBDA m : s.matches[m].kind = "csv")
FlagTarget(s, m) ==
  LET columns == [k \in DOMAIN s.matches |-> FlagColumn(MatchOrder(s)[k])]
      first == Least({k \in DOMAIN columns : columns[k] = FlagColumn(m)})
  IN Cardinality(ComputeByName(s)) + Cardinality({columns[k] : k \in 1 .. first - 1})
DataFields(s) == Fields(s) \ ComputeByName(s)
\* The 0-based place among the features, or the complement of that among data.
DicIndex(s, i) ==
  IF i \in ComputeByName(s) THEN Rank(ComputeByName(s), i) ELSE -1 - Rank(DataFields(s), i)
GeneratedColumns(s) == {FlagColumn(m) : m \in DOMAIN s.matches}
NumDicFeatures(s) == Cardinality(ComputeByName(s)) + Cardinality(GeneratedColumns(s))
NumDicData(s) == Cardinality(DataFields(s))

\* buildAliasingSet
AliasingSet(s) ==
  IF s.training = {} THEN ComputeByName(s) \cup {IndexColumn(s)}
  ELSE s.training \ s.weightless

\* createTrainSpec, the end of build, and initGroupingFields before the first
\* row is read: what makes a specification unusable.
Accepted(s) ==
  /\ s.training \ s.weightless \subseteq ComputeByName(s)
  /\ s.training # {} => IndexColumn(s) \in s.training
  /\ Cardinality(Fields(s)) + Cardinality(GeneratedColumns(s)) <= FieldsLimit
  /\ \A i \in AliasingSet(s) : DicIndex(s, i) >= 0
=============================================================================
