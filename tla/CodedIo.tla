-------------------------------- MODULE CodedIo ------------------------------
(***************************************************************************)
(* Variable-length integers and strings in a buffer of bytes.  A buffer is *)
(* a sequence of cells and a position in it counts from 0; a number below  *)
(* Base fits one cell (0x80 in the code), longer ones mark every cell but  *)
(* the last by adding Base.  A string is the sequence of its cells.        *)
(***************************************************************************)
EXTENDS Alignment, Sequences, SequencesExt

CONSTANT Base

ASSUME BaseAssumption == Base \in Nat /\ Base > 1

\* CodedBuffer
Varint[value \in Nat] ==
  IF value < Base THEN <<value>> ELSE <<Base + (value % Base)>> \o Varint[value \div Base]
WriteVarint(buf, value) == buf \o Varint[value]
WriteVarints(buf, values) == FoldLeft(WriteVarint, buf, values)
WriteString(buf, s) == WriteVarint(buf, Len(s)) \o s

\* CodedBufferParser at a position: what it reads and where it stands then.
Nothing == [ok |-> FALSE, value |-> 0, next |-> 0]
ReadVarint(buf, at) ==
  LET end == CHOOSE i \in at + 1 .. Len(buf) : buf[i] < Base /\ \A j \in at + 1 .. i - 1 : buf[j] >= Base
      value[i \in at + 1 .. end] == IF i = end THEN buf[i] ELSE (buf[i] - Base) + Base * value[i + 1]
  IN IF \A i \in at + 1 .. Len(buf) : buf[i] >= Base THEN Nothing
     ELSE [ok |-> TRUE, value |-> value[at + 1], next |-> end]

\* The numbers read one after the other: at most n, fewer if the buffer ends.
ReadVarints(buf, at, n) ==
  LET step(acc, i) ==
        LET r == ReadVarint(buf, acc.next)
        IN IF acc.ok /\ r.ok
           THEN [ok |-> TRUE, values |-> Append(acc.values, r.value), next |-> r.next]
           ELSE [acc EXCEPT !.ok = FALSE]
  IN FoldLeft(step, [ok |-> TRUE, values |-> <<>>, next |-> at], [i \in 1 .. n |-> i])

ReadStringPiece(buf, at) ==
  LET length == ReadVarint(buf, at)
  IN IF length.ok /\ length.value <= Len(buf) - length.next
     THEN [ok |-> TRUE, value |-> SubSeq(buf, length.next + 1, length.next + length.value),
           next |-> length.next + length.value]
     ELSE [ok |-> FALSE, value |-> <<>>, next |-> length.next]
=============================================================================
