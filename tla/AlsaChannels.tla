------------------------------ MODULE AlsaChannels ------------------------------
(***************************************************************************)
(* The channel-layout helpers of AlsaPassthroughSink (src/src/             *)
(* AlsaPassthroughSink.cpp lines 19-30 and 71-415): the legacy ALSA maps,  *)
(* the conversions between ALSA channel positions and AE channels, the     *)
(* alternate (side/back) form of a layout, SelectALSAChannelMap and        *)
(* GetChannelLayout.                                                       *)
(*                                                                         *)
(* A layout (AudioChannelLayout) is a sequence of AE channel names and an  *)
(* ALSA map a sequence of ALSA positions.  AudioChannelLayout is not in    *)
(* the repository: HasChannel, ContainsChannels and ReplaceChannel are     *)
(* taken by their names (membership, inclusion of the other's channels,    *)
(* renaming in place); BestMatch, which ranks layouts by a score nobody    *)
(* here defines, is any index it may return.  A device without chmap       *)
(* support is one whose supported-map list is empty: snd_pcm_query_chmaps  *)
(* and snd_pcm_get_chmap then return NULL.                                 *)
(***************************************************************************)
EXTENDS Naturals, Sequences

LOCAL INSTANCE SequencesExt

\* A NULL snd_pcm_chmap_t*, as the empty map.
NoMap == <<>>

Unknowns == {"UNKNOWN1", "UNKNOWN2", "UNKNOWN3", "UNKNOWN4", "UNKNOWN5",
             "UNKNOWN6", "UNKNOWN7", "UNKNOWN8"}

\* What reading past the 17 entries of a legacy map yields: undefined.
PastMap == "OUT_OF_BOUNDS"

\* LegacyALSAChannelMap and LegacyALSAChannelMap51Wide (lines 19-30):
\* ALSA_MAX_CHANNELS + 1 = 17 entries, the last AE_CH_NULL.
LegacyTail == <<"UNKNOWN1", "UNKNOWN2", "UNKNOWN3", "UNKNOWN4", "UNKNOWN5",
                "UNKNOWN6", "UNKNOWN7", "UNKNOWN8", "NULL">>
LegacyALSAChannelMap ==
  <<"FL", "FR", "BL", "BR", "FC", "LFE", "SL", "SR">> \o LegacyTail
LegacyALSAChannelMap51Wide ==
  <<"FL", "FR", "SL", "SR", "FC", "LFE", "BL", "BR">> \o LegacyTail

MapEntry(map, i) == IF i <= Len(map) THEN map[i] ELSE PastMap

\* The pairs of ALSAChannelToAEChannel (lines 188-216) and of its inverse
\* AEChannelToALSAChannel (lines 218-246); the top channels are left out.
PositionPairs ==
  {<<"FL", "FL">>, <<"FR", "FR">>, <<"FC", "FC">>, <<"LFE", "LFE">>,
   <<"RL", "BL">>, <<"RR", "BR">>, <<"FLC", "FLOC">>, <<"FRC", "FROC">>,
   <<"RC", "BC">>, <<"SL", "SL">>, <<"SR", "SR">>, <<"RLC", "BLOC">>,
   <<"RRC", "BROC">>}

ALSAChannelToAEChannel(p) ==
  IF \E q \in PositionPairs : q[1] = p
    THEN (CHOOSE q \in PositionPairs : q[1] = p)[2] ELSE "UNKNOWN1"

AEChannelToALSAChannel(c) ==
  IF \E q \in PositionPairs : q[2] = c
    THEN (CHOOSE q \in PositionPairs : q[2] = c)[1] ELSE "UNKNOWN"

\* ALSAchmapToAEChannelMap and AEChannelMapToALSAchmap (lines 248-268).
ALSAchmapToAEChannelMap(m) == [i \in 1..Len(m) |-> ALSAChannelToAEChannel(m[i])]
AEChannelMapToALSAchmap(l) == [i \in 1..Len(l) |-> AEChannelToALSAChannel(l[i])]

HasChannel(l, c) == c \in ToSet(l)
ContainsChannels(l, other) == ToSet(other) \subseteq ToSet(l)
ReplaceChannel(l, from, to) == [i \in 1..Len(l) |-> IF l[i] = from THEN to ELSE l[i]]

\* ReplaceChannel for each <<from, to>> of rs, in order.
Renamed(l, rs) == FoldLeft(LAMBDA acc, r : ReplaceChannel(acc, r[1], r[2]), l, rs)

\* GetAlternateLayoutForm (lines 292-338): for a symmetrical layout, side
\* and back pairs exchanged the CEA-861 way; otherwise the empty layout.
GetAlternateLayoutForm(info) ==
  LET has(c) == HasChannel(info, c)
  IN IF /\ has("BL") = has("BR")
        /\ has("SL") = has("SR")
        /\ has("BLOC") = has("BROC")
     THEN CASE has("SL") /\ has("BL") /\ ~has("BLOC") ->
                 Renamed(info, <<<<"BL", "BLOC">>, <<"BR", "BROC">>,
                                 <<"SL", "BL">>, <<"SR", "BR">>>>)
            [] ~has("SL") /\ has("BL") /\ has("BLOC") ->
                 Renamed(info, <<<<"BL", "SL">>, <<"BR", "SR">>,
                                 <<"BLOC", "BL">>, <<"BROC", "BR">>>>)
            [] has("SL") /\ ~has("BL") ->
                 Renamed(info, <<<<"SL", "BL">>, <<"SR", "BR">>>>)
            [] ~has("SL") /\ has("BL") ->
                 Renamed(info, <<<<"BL", "SL">>, <<"BR", "SR">>>>)
            [] OTHER -> <<>>
     ELSE <<>>

\* channelLayoutPassthrough (lines 71-101): `count` AE_CH_RAW channels, the
\* count (2, 8 or 0) being what the stream type asks for.
ChannelLayoutPassthrough(count) == [i \in 1..count |-> "RAW"]

\* GetChannelLayoutLegacy with the clamp to maxChannels left out.
GetChannelLayoutLegacyNoMax(layout, minChannels, maxChannels) ==
  LET map == IF HasChannel(layout, "SL") /\ ~HasChannel(layout, "BL")
               THEN LegacyALSAChannelMap51Wide ELSE LegacyALSAChannelMap
      found == {c \in 1..8 : HasChannel(layout, map[c])}
      c0 == IF found = {} THEN 0 ELSE Max(found)
      count == IF c0 < minChannels THEN minChannels ELSE c0
  IN [i \in 1..count |-> MapEntry(map, i)]

\* GetChannelLayoutLegacy (lines 103-139) of a PCM format: the wide map for
\* side channels without back ones; the count is the last of the first 8
\* map entries the layout has (the inner loop's break leaves the outer one
\* running), raised to minChannels and cut to maxChannels; the layout is
\* the first `count` entries of the map.
GetChannelLayoutLegacy(layout, minChannels, maxChannels) ==
  LET map == IF HasChannel(layout, "SL") /\ ~HasChannel(layout, "BL")
               THEN LegacyALSAChannelMap51Wide ELSE LegacyALSAChannelMap
      found == {c \in 1..8 : HasChannel(layout, map[c])}
      c0 == IF found = {} THEN 0 ELSE Max(found)
      c1 == IF c0 < minChannels THEN minChannels ELSE c0
      count == IF c1 > maxChannels THEN maxChannels ELSE c1
  IN [i \in 1..count |-> MapEntry(map, i)]

\* Whether two layouts hold the same channels, as lines 362 and 365 test.
SameChannels(a, b) == ContainsChannels(a, b) /\ ContainsChannels(b, a)

\* SelectALSAChannelMap with the channel test of lines 362-367 left out.
SelectALSAChannelMapNoSkip(info, maps) ==
  LET alt == GetAlternateLayoutForm(info)
      fits(q) == Len(q.pos) = Len(info)
      k == SelectInSeq(maps, fits)
      chosen == IF SameChannels(ALSAchmapToAEChannelMap(maps[k].pos), info)
                  THEN info ELSE alt
  IN IF maps = <<>> THEN {NoMap}
     ELSE IF k > 0
       THEN {IF maps[k].type = "VAR" THEN AEChannelMapToALSAchmap(chosen)
             ELSE maps[k].pos}
       ELSE {NoMap} \cup {maps[b].pos : b \in 2..Len(maps)}

\* The maps SelectALSAChannelMap may return for `info` on a device whose
\* supported maps (type and positions) are `maps` (lines 340-415).  The
\* first map of info's channel count holding info's channels, or those of
\* its alternate form, is taken: for a VAR map, the chosen layout converted
\* to ALSA positions; otherwise a copy of the map.  Failing that, BestMatch
\* returns some index or -1, and only an index above 0 is copied.
SelectALSAChannelMap(info, maps) ==
  LET alt == GetAlternateLayoutForm(info)
      fits(q) == /\ Len(q.pos) = Len(info)
                 /\ \/ SameChannels(ALSAchmapToAEChannelMap(q.pos), info)
                    \/ SameChannels(ALSAchmapToAEChannelMap(q.pos), alt)
      k == SelectInSeq(maps, fits)
      chosen == IF SameChannels(ALSAchmapToAEChannelMap(maps[k].pos), info)
                  THEN info ELSE alt
  IN IF maps = <<>> THEN {NoMap}
     ELSE IF k > 0
       THEN {IF maps[k].type = "VAR" THEN AEChannelMapToALSAchmap(chosen)
             ELSE maps[k].pos}
       ELSE {NoMap} \cup {maps[b].pos : b \in 2..Len(maps)}

\* snd_pcm_set_chmap (line 519) succeeds when the map has the stream's
\* channel count and is a FIXED map of the device or a rearrangement of a
\* VAR one; snd_pcm_get_chmap then returns it, and otherwise the driver's
\* map for that count: the first it lists, or none.
ActualMap(maps, selected, channels) ==
  LET ok(q) == /\ Len(q.pos) = channels
               /\ IF q.type = "VAR" THEN ToSet(q.pos) = ToSet(selected)
                  ELSE q.pos = selected
      dflt == SelectInSeq(maps, LAMBDA q : Len(q.pos) = channels)
  IN IF selected # NoMap /\ Len(selected) = channels
        /\ \E k \in 1..Len(maps) : ok(maps[k])
       THEN selected
     ELSE IF dflt > 0 THEN maps[dflt].pos ELSE NoMap

\* GetChannelLayout (lines 140-186) of a PCM format: the stream's actual
\* map, or its alternate form when the map lacks a channel of the format
\* and BestMatch prefers it, padded with UNKNOWN1 up to `channels`; with no
\* actual map, the legacy layout of exactly `channels` channels.
GetChannelLayout(layout, channels, actual) ==
  IF actual = NoMap THEN {GetChannelLayoutLegacy(layout, channels, channels)}
  ELSE
    LET info == ALSAchmapToAEChannelMap(actual)
        alt == GetAlternateLayoutForm(info)
        pad(l) == l \o [i \in 1..(channels - Len(l)) |-> "UNKNOWN1"]
    IN {pad(l) : l \in IF ~ContainsChannels(info, layout) /\ alt # <<>>
                         THEN {info, alt} ELSE {info}}

\* AudioChannelLayout::IsLayoutValid (lines 538, 605; not in the
\* repository): some channel is neither unknown nor undefined.
IsLayoutValid(l) == \E i \in 1..Len(l) : l[i] \notin Unknowns \cup {"NULL", PastMap}

=============================================================================
