------------------------------- MODULE Segment --------------------------------
(***************************************************************************)
(* best_segment() of tools/reconstruct.py: of the rows that have ridge     *)
(* energy short gaps are closed, and the longest run that results is       *)
(* taken, with a margin on either side.  Rows count from 1; a segment is   *)
(* the pair of the rows before its first and up to its last, as Python's   *)
(* slices have it.                                                         *)
(*                                                                         *)
(* Its two loops have one shape: rows are skipped until one is found that  *)
(* the loop collects, those like it are collected, and then something is   *)
(* done about them.  They share their actions, one per round of a loop.    *)
(***************************************************************************)
EXTENDS Naturals, FiniteSets, Sequences

CONSTANTS
  Gap,      \* the longest gap that is closed (bridge, 120)
  Margin    \* rows kept on either side (20)

ASSUME SegmentAssumption == Gap \in Nat /\ Margin \in Nat

VARIABLES
  energy,   \* which rows have ridge energy
  on,       \* that, and the rows of the gaps closed so far
  loop,     \* "gaps", "runs" or "done"
  i, j,     \* the rows i .. j - 1 are collected
  best      \* the longest run so far

found == <<energy, on, loop, i, j, best>>

(* energy > thr, where thr is at least the median: of n rows half at most. *)
Energies(n) == {e \in [1 .. n -> BOOLEAN] : 2 * Cardinality({k \in 1 .. n : e[k]}) <= n}

Nothing == [from |-> 0, to |-> 0]

Idle ==
  /\ energy = <<>> /\ on = <<>> /\ loop = "done" /\ i = 1 /\ j = 1 /\ best = Nothing

Begin(e, l) ==
  /\ energy' = e /\ on' = e
  /\ loop' = l /\ i' = 1 /\ j' = 1 /\ best' = Nothing

-----------------------------------------------------------------------------
Collects == loop = "runs"        \* off rows first, then on ones
Ends == j <= Len(on) => on[j] # Collects

FaultyCloses == j <= Len(on) /\ j - i <= Gap     \* no "if i > 0"
Closes == i > 1 /\ j <= Len(on) /\ j - i <= Gap

Skip ==
  /\ loop # "done" /\ i = j /\ j <= Len(on) /\ Ends
  /\ i' = i + 1 /\ j' = j + 1
  /\ UNCHANGED <<energy, on, loop, best>>

Collect ==
  /\ loop # "done" /\ j <= Len(on) /\ ~Ends
  /\ j' = j + 1
  /\ UNCHANGED <<energy, on, loop, i, best>>

CloseGap ==
  /\ loop = "gaps" /\ i < j /\ Ends
  /\ on' = [k \in DOMAIN on |-> on[k] \/ (Closes /\ k \in i .. j - 1)]
  /\ i' = j
  /\ UNCHANGED <<energy, loop, j, best>>

TakeRun ==
  /\ loop = "runs" /\ i < j /\ Ends
  /\ best' = IF j - i > best.to - best.from THEN [from |-> i - 1, to |-> j - 1] ELSE best
  /\ i' = j
  /\ UNCHANGED <<energy, on, loop, j>>

LoopEnds ==
  /\ loop # "done" /\ i = j /\ j > Len(on)
  /\ loop' = IF loop = "gaps" THEN "runs" ELSE "done"
  /\ i' = 1 /\ j' = 1
  /\ UNCHANGED <<energy, on, best>>

Scan == Skip \/ Collect \/ CloseGap \/ TakeRun \/ LoopEnds

(* What is returned.                                                       *)
seg == [from |-> IF best.from > Margin THEN best.from - Margin ELSE 0,
        to   |-> IF best.to + Margin < Len(energy) THEN best.to + Margin ELSE Len(energy)]

-----------------------------------------------------------------------------
(* What it should be: a row belongs to the finger if it has energy or lies *)
(* between two rows that have and are close enough.                        *)
OfFinger(k) ==
  \/ energy[k]
  \/ \E l \in 1 .. k - 1, r \in k + 1 .. Len(energy) : energy[l] /\ energy[r] /\ r - l - 1 <= Gap

IsRun(first, last) == \A k \in first .. last : OfFinger(k)

(* These rows are a run of rows of the finger and none is longer.          *)
IsLongestRun(first, last) ==
  /\ IsRun(first, last)
  /\ \A k \in 1 .. Len(energy) : \A l \in k .. Len(energy) : IsRun(k, l) => l - k <= last - first
=============================================================================
