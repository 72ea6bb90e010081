------------------------------ MODULE StageLink ------------------------------
(***************************************************************************)
(* The link-time gate of core::Node (include/coro/core/Node.h): link(prev, *)
(* next) exists only when canIntersect(prev.outCaps(), next.inCaps()) is   *)
(* true.  The gate is evaluated by the compiler (canIntersect is constexpr *)
(* and sits in link's enable_if), so it is modelled as constant operators: *)
(* which pairs of declared capability arrays can be linked.                *)
(*                                                                         *)
(* A declaration is the type of outCaps()/inCaps(), std::array<E, N>: the  *)
(* element type E (AudioCap or AudioCaps) and its elements in order.  A    *)
(* capability is a record of codec, rate and channels, each of which may   *)
(* be Unspecified.                                                         *)
(***************************************************************************)
EXTENDS Naturals, Sequences

Unspecified == "unspecified"
Invalid == [valid |-> FALSE]
CapFields == {"codec", "rate", "channels"}

\* A declaration: std::array<elem, Len(caps)> holding caps.
Decl(elem, caps) == [elem |-> elem, caps |-> caps]

\* Caps::intersect (not in the repository; spec 4.1): field by field, an
\* unspecified field matches anything, and every constrained field must
\* agree; the result is the merged capability or Invalid.
Intersect(a, b) ==
  IF \A f \in CapFields : a[f] = Unspecified \/ b[f] = Unspecified \/ a[f] = b[f]
  THEN [valid |-> TRUE,
        cap |-> [f \in CapFields |-> IF a[f] = Unspecified THEN b[f] ELSE a[f]]]
  ELSE Invalid

IsValid(r) == r.valid

\* The two loops of canIntersect (lines 41-48): walk `in` in order and, for
\* each element, `out` in order; the first intersecting pair returns true,
\* and running off the end of `in` returns false.
RECURSIVE CanIntersectFrom(_, _, _, _)
CanIntersectFrom(in, out, i, o) ==
  CASE i > Len(in)                          -> FALSE
    [] o > Len(out)                         -> CanIntersectFrom(in, out, i + 1, 1)
    [] IsValid(Intersect(in[i], out[o]))    -> TRUE
    [] OTHER                                -> CanIntersectFrom(in, out, i, o + 1)

CanIntersect(in, out) == CanIntersectFrom(in, out, 1, 1)

\* link<Node1, Node2> is declared only when T deduces to one type for both
\* arguments of canIntersect(const T&, const T&), that is when the two
\* arrays have the same element type and length, and canIntersect holds.
Linkable(out, in) ==
  /\ out.elem = in.elem
  /\ Len(out.caps) = Len(in.caps)
  /\ CanIntersect(out.caps, in.caps)

\* link(prev, next): prev.m_next = &next.  A chain is a sequence of declared
\* nodes each linked to the next.
Linked(nodes) ==
  \A k \in 1..Len(nodes) - 1 : Linkable(nodes[k].outCaps, nodes[k + 1].inCaps)

\* The capability array of an AudioConverter's input or output: one
\* AudioCaps fixing the codec of its sample type (the converters' inCaps and
\* outCaps are not in the repository; spec 4.2).
ConverterCaps(codec) ==
  Decl("AudioCaps", <<[codec |-> codec, rate |-> Unspecified,
                       channels |-> Unspecified]>>)

-----------------------------------------------------------------------------
(* The capability arrays the repository declares.                        *)

\* core::AppSource::outCaps (AppSource.h lines 32-34): one AudioCap, every
\* field unspecified.
CoreAppSourceOutCaps ==
  Decl("AudioCap", <<[f \in CapFields |-> Unspecified]>>)

\* audio::AppSource::outCaps (tests/alsautiltest.cpp lines 29-31): one
\* AudioCaps, every field unspecified.
AudioAppSourceOutCaps ==
  Decl("AudioCaps", <<[f \in CapFields |-> Unspecified]>>)

\* AirPlaySource::outCaps and AirPlay2Source::outCaps (AirPlaySource.h
\* lines 28-32, AppSource.h lines 73-77): RawInt16, 44100 Hz, stereo.
AirPlaySourceOutCaps ==
  Decl("AudioCaps", <<[codec |-> "i16", rate |-> "44100", channels |-> "stereo"]>>)

=============================================================================
