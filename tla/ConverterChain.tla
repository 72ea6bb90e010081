---------------------------- MODULE ConverterChain ----------------------------
(***************************************************************************)
(* One source activation pushed through a chain of AudioConverter stages   *)
(* (src/unnamed/part_000) that rewrite a core::Buffer (src/unnamed/        *)
(* part_001, modelled in Buffer and instantiated here on the same          *)
(* variables).                                                             *)
(*                                                                         *)
(* Each process() is two steps, the two halves of the buffer protocol: the *)
(* acquire of the output space together with the conversion loop that      *)
(* fills it, then the commit together with the returned configuration.     *)
(* Nothing else runs between them (one thread, spec 4.4).  Every byte of   *)
(* the store records which sample it belongs to, in which format, and its  *)
(* position in that sample; a conversion reads a sample back from its      *)
(* bytes, so an unaligned, mixed or stale read yields no sample (0).       *)
(***************************************************************************)
EXTENDS Naturals, Sequences

CONSTANTS
  Chains,       \* the chains of stages a source may be linked through
  SampleCounts, \* samples per source activation
  Reserves,     \* reservedSize of the source's Buffer(data, size, reserved)
  MaxCap,       \* bound on the store, large enough for every chain
  SizeWidth     \* bits of size_t

VARIABLES
  cap, offset, size, acquiredOffset, mem, window, gen, pending, \* Buffer
  chain,  \* the stages of this activation's chain
  stage,  \* stages whose process() has returned
  codec,  \* conf.codec of the configuration travelling with the buffer
  bytes   \* bytes[i]: what byte i of m_buffer holds

bufVars == <<cap, offset, size, acquiredOffset, mem, window, gen, pending>>
vars == <<bufVars, chain, stage, codec, bytes>>

MaxStages == CHOOSE m \in {Len(c) : c \in Chains} :
               \A c \in Chains : Len(c) <= m

B == INSTANCE Buffer WITH Sizes <- 1..MaxCap, ChunkSizes <- {1},
                          MaxGen <- MaxStages

Fmts == {"i16", "f32", "i32"}

\* size(conf.codec): bytes per sample of a codec.
Width(f) == IF f = "i16" THEN 2 ELSE 4

\* A byte that holds no sample: zero fill, or the output of a bad read.
Zero == [smp |-> 0, fmt |-> "none", b |-> 0]

ByteOf(k, f, j) == IF k = 0 THEN Zero ELSE [smp |-> k, fmt |-> f, b |-> j]

\* The sample the Width(f) bytes at p hold when read as format f.
Decode(bs, p, f) ==
  LET k == bs[p].smp IN
    IF /\ \A j \in 0..Width(f)-1 : p + j \in B!Slots
       /\ k > 0
       /\ \A j \in 0..Width(f)-1 : bs[p + j] = [smp |-> k, fmt |-> f, b |-> j]
      THEN k ELSE 0

\* *to = (U)(*from): the bytes of sample k in format f written at `at`.
WriteSample(bs, at, k, f) ==
  [i \in B!Slots |-> IF at <= i /\ i < at + Width(f) THEN ByteOf(k, f, i - at)
                     ELSE bs[i]]

\* The loop of process(): sample i read at from + i*sizeof(In) and written
\* at to + i*sizeof(Out), for i below count, in order.
RECURSIVE ConvertLoop(_, _, _, _, _, _, _)
ConvertLoop(bs, i, count, from, fin, to, fout) ==
  IF i >= count THEN bs
  ELSE ConvertLoop(WriteSample(bs, to + i * Width(fout),
                               Decode(bs, from + i * Width(fin), fin), fout),
                   i + 1, count, from, fin, to, fout)

\* The bytes process() acquires and commits: buffer.size()*2 for int16 to
\* float (lines 21, 30), buffer.size()/2 for float to int16 (40, 48), and
\* buffer.size()*sizeof(U)/sizeof(T) for the generic template (58, 67).
OutBytes(st) ==
  CASE st.kind = "i2f" -> size * 2
    [] st.kind = "f2i" -> size \div 2
    [] OTHER           -> (size * Width(st.out)) \div Width(st.in)

TypeOK ==
  /\ B!TypeOK
  /\ chain \in Chains
  /\ stage \in 0..MaxStages
  /\ codec \in Fmts
  /\ bytes \in [B!Slots -> {Zero} \cup
                  [smp : 1..MaxCap, fmt : Fmts, b : 0..3]]

-----------------------------------------------------------------------------
(* AudioConverter<In,Out>::process(conf, buffer).                         *)

ProcessAcquireCountByOut ==
  /\ stage < Len(chain)
  /\ LET st == chain[stage + 1] IN
       /\ \/ B!AcquireFront(OutBytes(st))
          \/ B!AcquireBack(OutBytes(st))
          \/ B!AcquireGrow(OutBytes(st))
       /\ bytes' = ConvertLoop(bytes, 0, size \div Width(st.out), offset, st.in,
                               window'.start, st.out)
  /\ UNCHANGED <<chain, stage, codec>>

\* Lines 21-28, 40-47, 58-65: acquire the output space, take data() as the
\* input, and convert buffer.size()/size(conf.codec) samples (the generic
\* template: buffer.size()/sizeof(T)) into the space acquire returned.
ProcessAcquire ==
  /\ stage < Len(chain)
  /\ LET st == chain[stage + 1]
         count == IF st.kind = "generic" THEN size \div Width(st.in)
                  ELSE size \div Width(codec)
     IN /\ \/ B!AcquireFront(OutBytes(st))
           \/ B!AcquireBack(OutBytes(st))
           \/ B!AcquireGrow(OutBytes(st))
        /\ bytes' = ConvertLoop(bytes, 0, count, offset, st.in,
                                window'.start, st.out)
  /\ UNCHANGED <<chain, stage, codec>>

ProcessCommitKeepsCodec ==
  /\ stage < Len(chain)
  /\ B!Commit(OutBytes(chain[stage + 1]))
  /\ stage' = stage + 1
  /\ UNCHANGED <<chain, codec, bytes>>

\* Lines 30-34, 48-52, 67-69: commit the converted bytes and return the
\* configuration, its codec set to RawFloat32 or RawInt16 by the two
\* specialisations and left as it was by the generic template.
ProcessCommit ==
  /\ stage < Len(chain)
  /\ LET st == chain[stage + 1] IN
       /\ B!Commit(OutBytes(st))
       /\ codec' = IF st.kind = "generic" THEN codec ELSE st.out
  /\ stage' = stage + 1
  /\ UNCHANGED <<chain, bytes>>

\* The activation has reached the end of the chain; the sink reads it.
Delivered ==
  /\ stage = Len(chain)
  /\ UNCHANGED vars

-----------------------------------------------------------------------------
\* The source builds Buffer(data, n, reserved) with n bytes of its samples
\* in the first stage's input format.
Init ==
  /\ chain \in Chains
  /\ stage = 0
  /\ codec = chain[1].in
  /\ \E k \in SampleCounts, r \in Reserves :
       LET w == Width(chain[1].in)
           n == k * w
       IN /\ cap = IF n >= r THEN n ELSE r
          /\ size = n
          /\ offset = 0
          /\ acquiredOffset = 0
          /\ mem = [i \in B!Slots |-> 0]
          /\ window = B!NoWindow
          /\ gen = 0
          /\ pending = FALSE
          /\ bytes = [i \in B!Slots |->
                        IF i < n THEN ByteOf(i \div w + 1, chain[1].in, i % w)
                        ELSE Zero]

Next ==
  \/ ProcessAcquire
  \/ ProcessCommit
  \/ Delivered

Spec == Init /\ [][Next]_vars /\ WF_vars(ProcessAcquire \/ ProcessCommit)

-----------------------------------------------------------------------------
(* Properties.                                                            *)

\* The activation as the next stage reads it: the committed region decoded
\* with the configuration's codec.
SinkSamples ==
  [i \in 1..(size \div Width(codec)) |->
     [smp |-> Decode(bytes, offset + (i - 1) * Width(codec), codec),
      fmt |-> codec]]

Abstract == INSTANCE ConverterSpec WITH done <- stage, samples <- SinkSamples

\* The chain implements ConverterSpec: after each process() returns, data()
\* and the returned configuration show every source sample converted by
\* every stage so far, in order, and the activation reaches the end of the
\* chain.  It needs acquire to place the space where commit publishes it
\* and the converters to size, fill and describe it consistently.
ChainRefines == Abstract!Spec

\* Each process() fills the space acquire handed out with its input samples
\* converted, in order: reading data() after acquire (grow may move the
\* store), the loop bound, and a space that does not overlap the input it
\* is still reading all have to be right.
StageConverts ==
  [][~pending /\ pending' =>
       LET st == chain[stage + 1] IN
         \A i \in 0..(size \div Width(codec)) - 1 :
            Decode(bytes', window'.start + i * Width(st.out), st.out)
              = Decode(bytes, offset + i * Width(st.in), st.in)]_vars

=============================================================================
