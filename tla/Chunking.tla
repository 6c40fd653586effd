------------------------------ MODULE Chunking ------------------------------
(***************************************************************************)
(* How a whole transcript is cut for a model: the chunks that follow each  *)
(* other and overlap.  extract_session_multipass takes this path only when *)
(* it is called with prefer_external, as the loop of                       *)
(* run_distillation_worker may; run_distillation_pass, which the           *)
(* orchestrator runs, never does, and samples a long transcript instead.   *)
(*                                                                         *)
(* A text is its length; a chunk is where it starts and how long it is.    *)
(* A behaviour cuts one text, of any length and with any settings allowed. *)
(***************************************************************************)
EXTENDS Integers, SequencesExt, FiniteSetsExt

CONSTANTS
    MaxLength, \* bound: longest text
    MaxWindow, \* bound: largest chunk_chars
    MaxFull    \* FULL_COVERAGE_MAX_CHUNKS

ASSUME ChunkingAssumption ==
    {MaxLength, MaxWindow, MaxFull} \subseteq Nat \ {0}

VARIABLE cut

Cuts == {c \in [length : 0..MaxLength, size : 1..MaxWindow, overlap : 0..MaxWindow]
            : c.overlap < c.size}

----------------------------------------------------------------------------
(* Chunks *)

Smaller(a, b) == IF a < b THEN a ELSE b

Stride(size, overlap) == Max({1, size - overlap})

\* Mutant of FullStride: chunks follow each other without overlap.
SizeStride(size, overlap) == size

FullStride(size, overlap) == Stride(size, overlap)

SplitFullCoverage(length, size, overlap) ==
    IF length = 0 THEN <<>>
    ELSE IF length <= size THEN <<0>>
    ELSE LET stride == FullStride(size, overlap)
         IN  [i \in 1..((length + stride - 1) \div stride) |-> (i - 1) * stride]

(* What extract_session_multipass reads of it: only so many chunks. *)
ReadChunks(length, size, overlap) ==
    LET chunks == SplitFullCoverage(length, size, overlap)
    IN  SubSeq(chunks, 1, Smaller(Len(chunks), MaxFull))

(* The characters of a text that chunks of one size show. *)
Shown(starts, size, length) ==
    UNION {(s + 1)..Smaller(s + size, length) : s \in ToSet(starts)}

ChunkingInit == cut \in Cuts
ChunkingNext == UNCHANGED cut
ChunkingSpec == ChunkingInit /\ [][ChunkingNext]_cut

----------------------------------------------------------------------------
(* Properties *)

(* The chunks of the whole-transcript path leave nothing out before their  *)
(* number is exhausted, and whatever is no longer than the overlap lies    *)
(* whole in one of them, also across a boundary (_split_full_coverage).    *)
WholeTextIsRead ==
    LET starts == ReadChunks(cut.length, cut.size, cut.overlap)
        reach == Smaller(cut.length, MaxFull * Stride(cut.size, cut.overlap))
    IN  /\ 1..reach \subseteq Shown(starts, cut.size, cut.length)
        /\ \A at \in 1..reach :
               \E s \in ToSet(starts) :
                   /\ s < at
                   /\ Smaller(at + cut.overlap - 1, cut.length) <= s + cut.size
=============================================================================
