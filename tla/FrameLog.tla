------------------------------ MODULE FrameLog -------------------------------
(***************************************************************************)
(* The capture files (common/storage.py).  A record is written in two      *)
(* unbuffered writes, its header (arrival stamp and payload length) and    *)
(* its payload; a file is only ever appended to, by a later session too    *)
(* ("ab").  A crash may cut the last record anywhere.                      *)
(*                                                                         *)
(* A file is a sequence of cells <<part, record>>: parts 1 and 2 are the   *)
(* header, which can itself be cut, part 3 the payload.                    *)
(***************************************************************************)
EXTENDS Naturals, SequencesExt

CONSTANT Garbage   \* bytes that are no record's: a cut record, a payload read askew

\* FrameWriter.write
Cells(r) == [part \in 1..3 |-> <<part, r>>]

\* What a crash leaves of the record that was being written.
Torn == {[part \in 1..n |-> <<part, Garbage>>] : n \in 0..2}

\* Mutant: the payload is not looked at, a short one is yielded too.
CutShortUnchecked(file, start, n) == start + 1 > Len(file)

\* `if len(header) < _HEADER.size: return`, `if len(payload) < n: return`
CutShort(file, start, n) == start + 1 + n > Len(file)

IsTorn(cell) == cell[2] = Garbage

\* The header at `start` is a record's, and not two cells read askew.
Aligned(file, start) ==
  /\ file[start][1] = 1 /\ file[start + 1][1] = 2
  /\ file[start][2] = file[start + 1][2]

\* Where the header is not a record's, its length field is whatever the bytes say, g
\* cells (of all such headers the same); where its record was cut, the payload takes in
\* at least a cell of the next.
Length(file, g, start) ==
  IF ~Aligned(file, start) THEN g
  ELSE IF IsTorn(file[start]) /\ g > 1 THEN g ELSE 1

Payload(file, start) ==
  IF Aligned(file, start) /\ start + 2 <= Len(file) /\ file[start + 2] = <<3, file[start][2]>>
  THEN file[start + 2][2] ELSE Garbage

\* One turn of the loop of read_frames: the position in the file, and what was yielded.
ReadOne(file, g, read) ==
  LET n == Length(file, g, read.start)
  IN  IF read.start + 1 > Len(file) \/ CutShort(file, read.start, n) THEN read
      ELSE [start |-> read.start + 2 + n, got |-> Append(read.got, Payload(file, read.start))]

\* read_frames: what the generator yields; a file has no more records than cells.
ReadFrames(file, g) ==
  LET after[k \in 0..Len(file)] ==
        IF k = 0 THEN [start |-> 1, got |-> <<>>] ELSE ReadOne(file, g, after[k - 1])
  IN after[Len(file)].got

-----------------------------------------------------------------------------
(* What a file holds, for the properties. *)

AddPayload(records, cell) == IF cell[1] = 3 THEN Append(records, cell[2]) ELSE records

Records(cells) == FoldLeft(AddPayload, <<>>, cells)

\* The records before the first cut, and whether anything was written after it.
Intact(file) ==
  Records(SubSeq(file, 1, CHOOSE n \in 0..Len(file) :
    /\ \A i \in 1..n : ~IsTorn(file[i])
    /\ n < Len(file) => IsTorn(file[n + 1])))

Cuts(file) == Cardinality({i \in DOMAIN file : IsTorn(file[i]) /\ file[i][1] = 1})

CutInside(file) ==
  \E i, j \in DOMAIN file : i < j /\ IsTorn(file[i]) /\ file[j][1] = 1
=============================================================================
