------------------------------ MODULE Offsets ------------------------------
(***************************************************************************)
(* The offset generators of a benchmark workload (src/bench/src/offset.h): *)
(* the get() of each generator, as a function of BaseGenerator::index.     *)
(*  - SeqGenerator walks the aligned offsets of [min, max) in order and    *)
(*    wraps;                                                               *)
(*  - ShuffleGenerator takes the first n_ offsets of a SeqGenerator, lets  *)
(*    std::shuffle permute them, and walks the permutation and wraps;      *)
(*  - UnifGenerator draws any aligned offset of the range.                 *)
(* The Zipf and Mixgraph generators compute with doubles and are left out. *)
(* OffMins, OffMaxs and OffAligns are the spec::Offset values the          *)
(* generators are checked over.                                            *)
(***************************************************************************)
EXTENDS Naturals, Sequences, SequencesExt

CONSTANTS OffMins, OffMaxs, OffAligns

\* AlignGenerator's constructor throws unless min and max are aligned
Aligned(min, max, align) == min % align = 0 /\ max % align = 0

\* AlignGenerator::map
MapOff(min, align, x) == min + align * x

\* a count of offsets one too many
SeqNOffByOne(min, max, align) == (max - min) \div align + 1

\* SeqGenerator::n_: the number of aligned offsets in [min, max)
SeqN(min, max, align) == (max - min) \div align

\* SeqGenerator::get
SeqGet(min, max, align, idx) == MapOff(min, align, idx % SeqN(min, max, align))

\* ShuffleGenerator's constructor: the first n_ offsets of a SeqGenerator,
\* in every order std::shuffle can leave them
ShuffleOffsets(min, max, align) ==
    SetToSeqs({SeqGet(min, max, align, i) : i \in 0..SeqN(min, max, align) - 1})

\* ShuffleGenerator::get
ShuffleGet(offs, idx) == offs[(idx % Len(offs)) + 1]

\* UnifGenerator::get: map of uniform_int_distribution(0, n_ - 1)
UnifGets(min, max, align) == {MapOff(min, align, x) : x \in 0..SeqN(min, max, align) - 1}

(* Offsets::get_generator, then get() at BaseGenerator::index idx: the     *)
(* offsets the generator of spec::Offset o may return.                     *)
Gets(o, idx) ==
    CASE o.type = "SEQ" -> {SeqGet(o.min, o.max, o.align, idx)}
      [] o.type = "SHUFFLE" ->
            {ShuffleGet(s, idx) : s \in ShuffleOffsets(o.min, o.max, o.align)}
      [] o.type = "UNIF" -> UnifGets(o.min, o.max, o.align)

-----------------------------------------------------------------------------
\* the spec::Offset values a generator is built from without throwing, with
\* a non-empty range
ValidInputs ==
    {<<mn, mx, al>> \in OffMins \X OffMaxs \X OffAligns : Aligned(mn, mx, al) /\ mx > mn}

\* what get_generator promises: "min <= offset, offset + align - 1 < max"
InRange(o, mn, mx, al) == mn <= o /\ o + al - 1 < mx /\ (o - mn) % al = 0

(* Every offset a SEQ, SHUFFLE or UNIF generator yields is aligned and     *)
(* leaves room for align bytes before max (the comment of offset.h:166),   *)
(* and SEQ and SHUFFLE yield each such offset once in any n_ consecutive   *)
(* calls, so a sequential run touches the whole range.                     *)
OffsetsInRange ==
    \A <<mn, mx, al>> \in ValidInputs :
        LET n == SeqN(mn, mx, al)
            all == {o \in mn..mx : InRange(o, mn, mx, al)}
        IN  /\ \A i \in 0..2 * n : InRange(SeqGet(mn, mx, al, i), mn, mx, al)
            /\ \A k \in 0..n : {SeqGet(mn, mx, al, i) : i \in k..k + n - 1} = all
            /\ \A s \in ShuffleOffsets(mn, mx, al) :
                  \A k \in 0..n : {ShuffleGet(s, i) : i \in k..k + n - 1} = all
            /\ UnifGets(mn, mx, al) = all
=============================================================================
