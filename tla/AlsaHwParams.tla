------------------------------ MODULE AlsaHwParams ------------------------------
(***************************************************************************)
(* The negotiation of AlsaPassthroughSink::InitializeHW (src/src/          *)
(* AlsaPassthroughSink.cpp lines 619-732) with the hardware: the channel   *)
(* count and the sample format, including the descending fallback loop    *)
(* over AudioSampleFormat.  The period and buffer sizes it negotiates next *)
(* are what AlsaPassthroughSink's Grants stand for.                        *)
(*                                                                         *)
(* A device is what snd_pcm_hw_params_any reports for it: the ALSA formats *)
(* it accepts, the significant bits snd_pcm_hw_params_get_sbits gives once *)
(* a format is fixed (0 when ALSA reports none), and its channel counts.   *)
(* hw_params is abstracted to the format it has fixed, "any" while none.   *)
(***************************************************************************)
EXTENDS Naturals, Sequences

LOCAL INSTANCE FiniteSetsExt

\* AudioSampleFormat in declaration order.  The enum is not in the
\* repository: Invalid is its least and Max its greatest value, as the loop
\* bounds of line 677 need, and the others are in the order toAlsa lists them.
SampleFormats == <<"Invalid", "S16NE", "S16LE", "S16BE", "S32NE", "Float",
                   "Bitstream", "Max">>

Unknown == "UNKNOWN"

\* The ALSA formats toAlsa yields, in the order of snd_pcm_format_t.
AlsaOrder == <<"S16_LE", "S16_BE", "S32_LE", "FLOAT_LE">>

AlsaFormats == {AlsaOrder[k] : k \in 1..Len(AlsaOrder)}

\* toAlsa (lines 619-631) on a little-endian host, where SND_PCM_FORMAT_S16,
\* _S32 and _FLOAT are the _LE formats.
ToAlsa(f) ==
  CASE f \in {"S16NE", "S16LE", "Bitstream"} -> "S16_LE"
    [] f = "S16BE"                           -> "S16_BE"
    [] f = "S32NE"                           -> "S32_LE"
    [] f = "Float"                           -> "FLOAT_LE"
    [] OTHER                                 -> Unknown

\* CAEUtil::numBits (line 699; not in the repository): the sample width.
NumBits(f) == IF f \in {"S32NE", "Float"} THEN 32 ELSE 16

\* Lines 644-654: set_channels_min(wanted) succeeds when the device has a
\* count >= wanted, and set_channels_first then takes the least of them;
\* otherwise set_channels_last takes the greatest count there is.
SelectChannels(dev, want) ==
  IF \E c \in dev.channels : c >= want
    THEN Min({c \in dev.channels : c >= want})
    ELSE Max(dev.channels)

\* snd_pcm_hw_params_set_format on hw_params holding `params`: it succeeds
\* when the device takes the format and hw_params has not fixed another.
SetFormatOk(dev, params, f) == f \in dev.formats /\ params \in {"any", f}

\* The fallback loop with a failed set_format leaving fmt as it was.
RECURSIVE FallbackKeepsFmt(_, _, _, _)
FallbackKeepsFmt(dev, passthrough, k, s) ==
  LET i == SampleFormats[k]
      f == ToAlsa(i)
  IN CASE i = "Invalid"                                     -> s
       [] i \in {"Bitstream", "Max"}
          \/ (passthrough /\ i \notin {"S16BE", "S16LE"})  ->
            FallbackKeepsFmt(dev, passthrough, k - 1, s)
       [] f = Unknown                                       ->
            FallbackKeepsFmt(dev, passthrough, k - 1, [s EXCEPT !.fmt = Unknown])
       [] ~SetFormatOk(dev, "any", f)                       ->
            FallbackKeepsFmt(dev, passthrough, k - 1, [s EXCEPT !.params = "any"])
       [] dev.sbits[f] > 0 /\ dev.sbits[f] # NumBits(i)     ->
            FallbackKeepsFmt(dev, passthrough, k - 1,
                             [s EXCEPT !.fmt = f, !.params = f])
       [] OTHER -> [s EXCEPT !.fmt = f, !.params = f, !.format = i]

\* The loop of lines 677-711, from index k of SampleFormats down to
\* Invalid, on s = [fmt, format (outconfig.format), params].  It skips
\* Bitstream and Max, and every format but S16BE and S16LE when
\* passthrough; restores hw_params from the copy taken before the first
\* try; a failed set_format makes fmt UNKNOWN; a format whose significant
\* bits the device reports and that differ from its width is passed over
\* with fmt left at it; the first that passes is recorded and ends the loop.
RECURSIVE Fallback(_, _, _, _)
Fallback(dev, passthrough, k, s) ==
  LET i == SampleFormats[k]
      f == ToAlsa(i)
  IN CASE i = "Invalid"                                     -> s
       [] i \in {"Bitstream", "Max"}
          \/ (passthrough /\ i \notin {"S16BE", "S16LE"})  ->
            Fallback(dev, passthrough, k - 1, s)
       [] f = Unknown                                       ->
            Fallback(dev, passthrough, k - 1, [s EXCEPT !.fmt = Unknown])
       [] ~SetFormatOk(dev, "any", f)                       ->
            Fallback(dev, passthrough, k - 1,
                     [s EXCEPT !.fmt = Unknown, !.params = "any"])
       [] dev.sbits[f] > 0 /\ dev.sbits[f] # NumBits(i)     ->
            Fallback(dev, passthrough, k - 1, [s EXCEPT !.fmt = f, !.params = f])
       [] OTHER -> [s EXCEPT !.fmt = f, !.params = f, !.format = i]

\* Lines 656-720: the requested format, or FLOAT when toAlsa has none for
\* it; if set_format refuses it, the fallback loop; InitializeHW returns
\* false when fmt ends UNKNOWN.
SelectFormat(dev, passthrough, req) ==
  LET f0 == IF ToAlsa(req) = Unknown THEN "FLOAT_LE" ELSE ToAlsa(req)
      o0 == IF ToAlsa(req) = Unknown THEN "Float" ELSE req
  IN IF SetFormatOk(dev, "any", f0)
       THEN [fmt |-> f0, format |-> o0, params |-> f0]
       ELSE Fallback(dev, passthrough, Len(SampleFormats),
                     [fmt |-> f0, format |-> o0, params |-> "any"])

\* The format snd_pcm_hw_params installs from hw_params holding `params`:
\* that one, or, when none is fixed, the first the device takes (ALSA
\* chooses the least value of an unfixed format).
Installed(dev, params) ==
  IF params # "any" THEN params
  ELSE AlsaOrder[Min({k \in 1..Len(AlsaOrder) : AlsaOrder[k] \in dev.formats})]

\* What InitializeHW has negotiated when it reaches the buffer sizes:
\* whether it goes on (ok), outconfig.channels, outconfig.format and the
\* format the stream is configured with when snd_pcm_hw_params installs
\* hw_params or a copy of it (lines 763-787).
Negotiate(dev, passthrough, req, want) ==
  LET s == SelectFormat(dev, passthrough, req)
  IN [ok |-> s.fmt # Unknown, channels |-> SelectChannels(dev, want),
      format |-> s.format, set |-> Installed(dev, s.params), passthrough |-> passthrough]

=============================================================================
