----------------------------- MODULE SnapshotFile -----------------------------
(***************************************************************************)
(* A collector's side of a JSON snapshot: the loop of                      *)
(* scripts/dz_live_feed.py, which rewrites its file every flush_ms, and    *)
(* _write_atomic.  A snapshot is its age, the time since its updated_at.   *)
(*                                                                         *)
(* A turn of the loop flushes, if it is time, unless its packet cannot be  *)
(* received (an OSError), is foreign, malformed or of the arm that is not  *)
(* selected: those turns `continue` (lines 159, 163, 166 and 177).         *)
(* `flooded` says that only such turns come, and faster than the 0.5 s     *)
(* after which select gives an empty one.                                  *)
(***************************************************************************)
EXTENDS Naturals

CONSTANTS
  Flush,       \* flush_ms
  OldAge,      \* bound: ages from here on are not told apart
  NoSnapshot   \* no file, or none that parses

ASSUME FlushAssumption ==
  Flush \in Nat \ {0} /\ OldAge \in Nat /\ NoSnapshot \notin 0..OldAge

VARIABLES
  collecting,  \* the collector runs
  flooded,     \* what arrives, see above
  flushIn,     \* time to next_flush
  writing,     \* the snapshot written to path.tmp and not yet moved to path
  file         \* the snapshot in path

fileVars == <<collecting, flooded, flushIn, writing, file>>

Snapshots == 0..OldAge \cup {NoSnapshot}

Aged(s) == IF s \in 0..(OldAge - 1) THEN s + 1 ELSE s
Left(timer) == IF timer = 0 THEN 0 ELSE timer - 1

FileInit ==
  /\ collecting = FALSE /\ flooded = FALSE /\ flushIn = Flush
  /\ writing = NoSnapshot /\ file = NoSnapshot

\* main, run up to the loop: next_flush is a flush period away.
StartCollector ==
  /\ ~collecting
  /\ collecting' = TRUE /\ flushIn' = Flush
  /\ UNCHANGED <<flooded, writing, file>>

\* The temporary file it leaves is read by nobody and truncated by the next write.
StopCollector ==
  /\ collecting
  /\ collecting' = FALSE /\ writing' = NoSnapshot
  /\ UNCHANGED <<flooded, flushIn, file>>

\* Mutant: the snapshot is written over the file itself.
WhileWritingInPlace(old) == NoSnapshot

\* path is what it was for as long as path.tmp is written.
WhileWriting(old) == old

\* snapshot(), and _write_atomic up to os.replace.
FlushDue == collecting /\ ~flooded /\ flushIn = 0 /\ writing = NoSnapshot

WriteTmp ==
  /\ FlushDue
  /\ writing' = 0
  /\ file' = WhileWriting(file)
  /\ UNCHANGED <<collecting, flooded, flushIn>>

Replace ==
  /\ writing # NoSnapshot
  /\ file' = writing
  /\ writing' = NoSnapshot
  /\ flushIn' = Flush
  /\ UNCHANGED <<collecting, flooded>>

\* A unit of time.  A turn that is not cut short takes less than that.
FileTick ==
  /\ ~FlushDue /\ writing = NoSnapshot
  /\ flooded' \in BOOLEAN
  /\ flushIn' = Left(flushIn)
  /\ file' = Aged(file)
  /\ UNCHANGED <<collecting, writing>>

FileTypeOK ==
  /\ collecting \in BOOLEAN /\ flooded \in BOOLEAN
  /\ flushIn \in 0..Flush
  /\ writing \in {0, NoSnapshot}
  /\ file \in Snapshots
=============================================================================
