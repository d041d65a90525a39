---------------------------- MODULE SampleWindow ----------------------------
(***************************************************************************)
(* What the rolling window of the latency race promises, whatever threads, *)
(* locks and buffers are behind it (RaceState, scripts/dz_latency_race.py):*)
(* samples are taken one by one, each no earlier than the one before, and  *)
(* now and then a snapshot is shown.  A snapshot is one consistent cut: of *)
(* the samples taken up to some moment it counts every one that had not    *)
(* left the window by then, and it says how many it has taken in all.      *)
(***************************************************************************)
EXTENDS Integers, Sequences

CONSTANT Window  \* _window_ns

VARIABLES
  samples,    \* the stamps of the samples not yet forgotten, oldest first
  taken,      \* how many samples were ever taken
  forgotten,  \* how many of them left the window
  shown       \* the last snapshot: its moment, its total, its count

windowVars == <<samples, taken, forgotten, shown>>

WindowInit ==
  /\ samples = <<>> /\ taken = 0 /\ forgotten = 0
  /\ shown = [asOf |-> 0, total |-> 0, n |-> 0]

Last == Len(samples)

Take ==
  /\ taken' = taken + 1
  /\ Len(samples') = Last + 1
  /\ SubSeq(samples', 1, Last) = samples
  /\ Last > 0 => samples'[Last + 1] >= samples[Last]
  /\ UNCHANGED <<forgotten, shown>>

\* The first k samples have left the window and the n after them are shown.
Show(k, n) ==
  /\ \A i \in 1..k : samples[i] < shown'.asOf - Window
  /\ \A i \in (k + 1)..(k + n) : samples[i] >= shown'.asOf - Window
  /\ samples' = SubSeq(samples, k + 1, Last)
  /\ forgotten' = forgotten + k
  /\ shown'.asOf >= shown.asOf
  /\ shown' = [asOf |-> shown'.asOf, total |-> forgotten' + n, n |-> n]
  /\ UNCHANGED taken

WindowNext == Take \/ \E k \in 0..Last : \E n \in 0..(Last - k) : Show(k, n)

WindowSpec == WindowInit /\ [][WindowNext]_windowVars
=============================================================================
