-------------------------- MODULE MCConverterChain --------------------------
(***************************************************************************)
(* The two AudioConverter specialisations and a pass-through instance of  *)
(* the generic template (int16 to int16, as the spec's pass-through DSP    *)
(* stage), in every chain their formats let link build, of up to two       *)
(* stages.  Sources send 1 to 3 samples, in buffers reserved with no,      *)
(* some or ample spare room, so each acquire branch is taken.              *)
(***************************************************************************)
EXTENDS ConverterChain, SequencesExt

INSTANCE StageLink

Stage(kind, in, out) ==
  [kind |-> kind, in |-> in, out |-> out,
   inCaps |-> ConverterCaps(in), outCaps |-> ConverterCaps(out)]

I2F == Stage("i2f", "i16", "f32")
F2I == Stage("f2i", "f32", "i16")
Pass == Stage("generic", "i16", "i16")

\* The sources of the repository, by the capability arrays they declare.
MCSources == {CoreAppSourceOutCaps, AudioAppSourceOutCaps, AirPlaySourceOutCaps}

\* Every chain of up to two stages that link lets a source feed.
MCLinkedChains ==
  {c \in BoundedSeq({I2F, F2I, Pass}, 2) \ {<<>>} :
     /\ \E src \in MCSources : Linkable(src, c[1].inCaps)
     /\ Linked(c)}

\* Linked chains whose second stage changes the sample width and can reuse
\* the space in front of its input.
MCWidthChangingFrontChains == {<<I2F, F2I>>, <<F2I, I2F>>}

\* The other linked chains: a stage that reuses the space in front of its
\* input writes samples as wide as the ones it reads.
MCSameWidthFrontChains == MCLinkedChains \ MCWidthChangingFrontChains

\* Capability arrays of up to two elements; each field unspecified or one
\* of two values that conflict.
MCSampleCounts == {1, 2, 3}
MCReserves == {0, 8, 16, 24}
MCMaxCap == 24
MCSizeWidth == 16
=============================================================================
