------------------------ MODULE MCAlsaPassthroughSink ------------------------
(***************************************************************************)
(* AE_MIN_PERIODSIZE of 4 frames and the hardware granting periods of 1, 2 *)
(* or 4 frames and buffers of 2 or 4: fragmented sinks of 4 and 2 periods *)
(* (one with a buffer smaller than the frames it announces) and an         *)
(* unfragmented one.  Clients pass 1, 3 or 4 frames, at most the 4 the   *)
(* sinks announce.                                                         *)
(***************************************************************************)
EXTENDS AlsaPassthroughSink

\* Maps a device may list: type and ALSA positions.
Fixed(pos) == [type |-> "FIXED", pos |-> pos]
Var(pos) == [type |-> "VAR", pos |-> pos]
Stereo == <<"FL", "FR">>
Back51 == <<"FL", "FR", "FC", "LFE", "RL", "RR">>
Centre51 == <<"FL", "FR", "FC", "LFE", "RLC", "RRC">>
Full71 == <<"FL", "FR", "FC", "LFE", "RL", "RR", "SL", "SR">>
Hdmi71 == <<"FL", "FR", "FC", "LFE", "RL", "RR", "RLC", "RRC">>

\* The channel side of a device: its channel counts and the maps it lists.
\* A stereo-only card and an 8-channel one without chmap support; a card
\* listing a 5.1 map with back-of-centre channels before the plain 5.1 one;
\* a card with rearrangeable (VAR) maps; an HDMI sink with the CEA 7.1 map.
MCChannelSides ==
  {[channels |-> {2}, maps |-> <<>>],
   [channels |-> {2, 6, 8}, maps |-> <<>>],
   [channels |-> {2, 6}, maps |-> <<Fixed(Stereo), Fixed(Centre51), Fixed(Back51)>>],
   [channels |-> {2, 6, 8}, maps |-> <<Var(Stereo), Var(Back51), Var(Full71)>>],
   [channels |-> {2, 8}, maps |-> <<Fixed(Stereo), Fixed(Hdmi71)>>]}

\* The format side: every nonempty set of the four formats, with S32
\* reported as 24 or 32 significant bits or not at all.
MCFormatSides ==
  {[formats |-> fs,
    sbits |-> [f \in AlsaFormats |-> IF f = "S32_LE" THEN s32
                                    ELSE IF f = "FLOAT_LE" THEN 32 ELSE 16]] :
     fs \in SUBSET AlsaFormats \ {{}}, s32 \in {0, 24, 32}}

StereoSide == [channels |-> {2}, maps |-> <<>>]
AllFormatsSide == [formats |-> AlsaFormats, sbits |-> [f \in AlsaFormats |->
                                                       IF f \in {"S16_LE", "S16_BE"} THEN 16 ELSE 32]]

Device(f, c) == [formats |-> f.formats, sbits |-> f.sbits, channels |-> c.channels, maps |-> c.maps]

\* InitializeHW fixes the channel count before the format, on separate
\* constraints, and neither choice reads the other, so the two sides are
\* varied one at a time: every format side on a stereo card, and every
\* channel side on a card taking every format.
MCDevices ==
  {Device(f, StereoSide) : f \in MCFormatSides}
    \cup {Device(AllFormatsSide, c) : c \in MCChannelSides}

\* Stereo, 5.1 with side and with back channels, and 7.1.
Layouts ==
  {<<"FL", "FR">>, <<"FL", "FR", "FC", "LFE", "SL", "SR">>,
   <<"FL", "FR", "FC", "LFE", "BL", "BR">>,
   <<"FL", "FR", "FC", "LFE", "BL", "BR", "SL", "SR">>}

\* Every format in stereo, and every layout in S16NE.
MCClientRequests ==
  {<<r, <<"FL", "FR">>>> : r \in ClientFormats} \cup {<<"S16NE", l>> : l \in Layouts}

\* AC3 and DTS streams take 2 channels, TrueHD 8; an unknown type 0.
MCStreamChannels == {0, 2, 8}

MCPeriodSizes == {1, 2, 4}
MCBufferSizes == {2, 4}
MCMinPeriod == 4
MCCallFrames == {1, 3, 4}

=============================================================================
