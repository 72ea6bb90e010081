-------------------------- MODULE AlsaPassthroughSink --------------------------
(***************************************************************************)
(* The playback side of AlsaPassthroughSink (src/src/AlsaPassthroughSink   *)
(* .cpp): create/createPassthrough, init/initPassthrough with InitializeHW *)
(* and InitializeSW, AddPackets with snd_pcm_recover and HandleError,      *)
(* Drain, Stop and deinit, driven by a client that makes any sequence of   *)
(* these calls on one thread, against an ALSA stream that plays, runs dry  *)
(* and is suspended with the system.                                       *)
(*                                                                         *)
(* The stream is its ALSA state and the frames queued in its buffer.  Each *)
(* step of AddPackets is one ALSA call or the part of a blocking           *)
(* snd_pcm_writei between two waits, so that the hardware moves between    *)
(* them.  Frames are counted, not told apart.  InitializeSW sets the start *)
(* threshold to INT_MAX: the stream never starts by itself, only          *)
(* snd_pcm_start does.  A blocking snd_pcm_writei on a prepared stream     *)
(* whose buffer is full waits for ALSA's 10 s timeout (alsa-lib            *)
(* wait_for_avail) and returns what it wrote, or -EIO.                     *)
(***************************************************************************)
EXTENDS Naturals, AlsaHwParams, AlsaChannels

CONSTANTS
  Devices,        \* what snd_pcm_hw_params_any reports of the devices
  StreamChannels, \* channels channelLayoutPassthrough gives a stream type
  ClientRequests, \* <<sample format, channel layout>> a client may create with
  PeriodSizes,  \* period sizes the hardware may grant (frames)
  BufferSizes,  \* buffer sizes the hardware may grant (frames)
  MinPeriod,    \* AE_MIN_PERIODSIZE
  CallFrames    \* frame counts a client passes to AddPackets

ASSUME /\ \A d \in Devices : d.formats # {} /\ d.channels # {}
       /\ StreamChannels \subseteq Nat
       /\ PeriodSizes \subseteq Nat \ {0}
       /\ BufferSizes \subseteq Nat \ {0}
       /\ MinPeriod \in Nat \ {0}
       /\ CallFrames \subseteq Nat \ {0}

MaxBuffer == CHOOSE b \in BufferSizes : \A c \in BufferSizes : c <= b

MaxFrames == CHOOSE f \in CallFrames : \A c \in CallFrames : c <= f

\* ceil(AE_MIN_PERIODSIZE / periodSize), line 809.
Fragments(p) == IF p >= MinPeriod THEN 1 ELSE (MinPeriod + p - 1) \div p

PcmStates == {"null", "open", "setup", "prepared", "running", "xrun", "suspended"}

VARIABLES
  sink,       \* what the client holds: "none", "uninit", "ready", "crashed"
  pcm,        \* state of the stream m_pcm refers to ("null": m_pcm == NULL)
  queued,     \* frames in the ALSA buffer not yet played
  before,     \* state the stream was in when it was suspended
  asleep,     \* the system suspend has not been resumed yet
  canResume,  \* the driver implements snd_pcm_resume
  hw,         \* [period, buffer, fragmented, frames, neg] chosen by InitializeHW
  pc,         \* where AddPackets is
  ap          \* locals of the current AddPackets call

vars == <<sink, pcm, queued, before, asleep, canResume, hw, pc, ap>>

\* What a successful init leaves: m_format.sampleFormat, m_passthrough, the
\* format and channel count the stream was configured with, the layout
\* asked for (m_initFormat.channelLayout), the layout m_format records, and
\* whether the device lists a map of exactly the channels asked for or of
\* their alternate form (a fact about the device, kept for the properties).
Recorded(n, asked, layout, exact) ==
  [format |-> n.format, set |-> n.set, passthrough |-> n.passthrough,
   channels |-> n.channels, asked |-> asked, layout |-> layout, exact |-> exact]

NoNeg == [format |-> "none", set |-> "none", passthrough |-> FALSE,
          channels |-> 0, asked |-> <<>>, layout |-> <<>>, exact |-> FALSE]

NoHw == [period |-> 0, buffer |-> 0, fragmented |-> FALSE, frames |-> 0,
         neg |-> NoNeg]

NoCall == [frames |-> 0, left |-> 0, written |-> 0, amount |-> 0, chunk |-> 0,
           got |-> 0]

TypeOK ==
  /\ sink \in {"none", "uninit", "ready", "crashed"}
  /\ pcm \in PcmStates
  /\ queued \in 0..MaxBuffer
  /\ before \in {"prepared", "running", "xrun"}
  /\ asleep \in BOOLEAN
  /\ canResume \in BOOLEAN
  /\ hw \in [period : PeriodSizes \cup {0}, buffer : BufferSizes \cup {0},
             fragmented : BOOLEAN, frames : Nat,
             neg : [format : {SampleFormats[k] : k \in 1..Len(SampleFormats)} \cup {"none"},
                    set : AlsaFormats \cup {"none"}, passthrough : BOOLEAN,
                    channels : Nat, asked : Seq(STRING), layout : Seq(STRING),
                    exact : BOOLEAN]]
  /\ pc \in {"idle", "loop", "w1", "w2", "start", "rwait", "hwait"}
  /\ ap \in [frames : 0..MaxFrames, left : 0..MaxFrames, written : 0..MaxFrames,
             amount : 0..MaxFrames, chunk : 0..MaxFrames, got : 0..MaxFrames]

-----------------------------------------------------------------------------
(* Creation and initialisation.                                           *)

\* The granted period and buffer sizes: ALSA never grants a buffer smaller
\* than one period.
Grants == {g \in PeriodSizes \X BufferSizes : g[1] <= g[2]}

\* InitializeHW on success (lines 733-824): the period and buffer sizes of
\* the first of the four tries, or of ALSA's defaults, that the hardware
\* accepts; a period below AE_MIN_PERIODSIZE makes the sink fragmented and
\* announce fragments * periodSize frames (outconfig.periodSize, m_frames).
HwOf(p, b, n) ==
  [period |-> p, buffer |-> b, fragmented |-> p < MinPeriod,
   frames |-> Fragments(p) * p, neg |-> n]

\* Whether the device lists a map of the asked layout's channel count with
\* its channels or those of its alternate form.
ExactMapListed(d, lay) ==
  \E k \in 1..Len(d.maps) :
    /\ Len(d.maps[k].pos) = Len(lay)
    /\ \/ SameChannels(ALSAchmapToAEChannelMap(d.maps[k].pos), lay)
       \/ SameChannels(ALSAchmapToAEChannelMap(d.maps[k].pos), GetAlternateLayoutForm(lay))

\* init (lines 440-550) of a PCM format with layout `lay` on device d, past
\* opening: the legacy layout's count is the channels asked for, unless
\* SelectALSAChannelMap picks a map, whose count is asked for instead;
\* InitializeHW; the picked map is set (its failure ignored); the layout is
\* GetChannelLayout of the channels the stream got, and must be valid.
PcmInit(d, r, lay) ==
  UNION {LET want == IF sel # NoMap THEN Len(sel)
                     ELSE Len(GetChannelLayoutLegacy(lay, 2, 8))
             n == Negotiate(d, FALSE, r, want)
             actual == ActualMap(d.maps, sel, n.channels)
         IN {Recorded(n, lay, l, ExactMapListed(d, lay)) :
               l \in {l \in GetChannelLayout(lay, n.channels, actual) :
                        n.ok /\ IsLayoutValid(l)}} :
           sel \in SelectALSAChannelMap(lay, d.maps)}

\* init of a Bitstream format, and initPassthrough (lines 553-617): `c`
\* channels of the stream type, none failing at once; S16NE with
\* m_passthrough set; the stream must get exactly c channels; the layout
\* is channelLayoutPassthrough's.
PassthroughInit(d, c) ==
  LET n == Negotiate(d, TRUE, "S16NE", c)
  IN IF c # 0 /\ n.ok /\ n.channels = c
       THEN {Recorded(n, ChannelLayoutPassthrough(c), ChannelLayoutPassthrough(c), FALSE)}
       ELSE {}

\* The formats a client may hand create: any AudioSampleFormat but Max.
ClientFormats == {SampleFormats[k] : k \in 1..Len(SampleFormats) - 1}

ASSUME \A q \in ClientRequests : q[1] \in ClientFormats

\* What a successful create (init) may leave on some device.
CreateResults ==
  UNION {PcmInit(d, q[1], q[2]) : d \in Devices,
                                 q \in {q \in ClientRequests : q[1] # "Bitstream"}}
  \cup UNION {PassthroughInit(d, c) : d \in Devices, c \in StreamChannels}

\* What a successful initPassthrough may leave on some device.
PassthroughResults == UNION {PassthroughInit(d, c) : d \in Devices, c \in StreamChannels}

\* init/initPassthrough (lines 440-617) on a new object, as create uses it:
\* on success the stream is prepared (snd_pcm_hw_params and the explicit
\* snd_pcm_prepare of line 527); every failure (no channel layout, no
\* device opens, InitializeHW or InitializeSW fails, channel mismatch,
\* invalid layout) returns false, and the caller deletes the object, whose
\* destructor's deinit drops and closes any handle init left open.
InitSink ==
  \/ /\ sink' = "none"
     /\ pcm' = "null"
     /\ hw' = NoHw
  \/ \E g \in Grants, n \in CreateResults :
       /\ sink' = "ready"
       /\ pcm' = "prepared"
       /\ hw' = HwOf(g[1], g[2], n)

\* create(device, format), lines 55-63.
Create ==
  /\ sink = "none"
  /\ pc = "idle"
  /\ InitSink
  /\ queued' = 0
  /\ UNCHANGED <<before, asleep, canResume, pc, ap>>

\* createPassthrough(device, format), lines 65-69, constructs a sink and
\* flows off its end without a return statement.  The build either traps
\* there or hands back whatever the return register holds, here the new,
\* uninitialised sink.
CreatePassthrough ==
  /\ sink = "none"
  /\ pc = "idle"
  /\ sink' \in {"uninit", "crashed"}
  /\ UNCHANGED <<pcm, queued, before, asleep, canResume, hw, pc, ap>>

\* What m_fragmented and m_originalPeriodSize hold when InitializeHW has
\* never reached line 805: the constructor leaves them uninitialised.
Uninitialised == [period : PeriodSizes \cup {0}, buffer : {0},
                  fragmented : BOOLEAN, frames : {0}, neg : {NoNeg}]

\* initPassthrough(device, format), lines 553-617, on the sink
\* createPassthrough returned; nobody deletes it when it fails.  It returns
\* false with m_pcm as it was (no channel layout, lines 564-567), NULL (no device
\* opens, lines 574-579: TryDevice has closed the old handle), OPEN
\* (InitializeHW fails before line 805), or PREPARED (InitializeSW fails
\* after snd_pcm_hw_params, or the channel or layout check after the
\* snd_pcm_prepare of line 594 fails).
InitPassthrough ==
  /\ sink = "uninit"
  /\ pc = "idle"
  /\ \/ \E g \in Grants, n \in PassthroughResults :
          /\ sink' = "ready"
          /\ pcm' = "prepared"
          /\ hw' = HwOf(g[1], g[2], n)
          /\ queued' = 0
     \/ /\ sink' = "uninit"
        /\ UNCHANGED <<pcm, hw, queued>>
     \/ /\ sink' = "uninit"
        /\ queued' = 0
        /\ \/ /\ pcm' = "null"
              /\ UNCHANGED hw
           \/ /\ pcm' = "open"
              /\ hw' \in IF hw = NoHw THEN Uninitialised ELSE {hw}
           \/ \E g \in Grants :
                /\ pcm' = "prepared"
                /\ hw' = HwOf(g[1], g[2], hw.neg)
  /\ UNCHANGED <<before, asleep, canResume, pc, ap>>

\* The process is restarted after a crash; the kernel closed its handles.
Restart ==
  /\ sink = "crashed"
  /\ sink' = "none"
  /\ pcm' = "null"
  /\ queued' = 0
  /\ hw' = NoHw
  /\ UNCHANGED <<before, asleep, canResume, pc, ap>>

-----------------------------------------------------------------------------
(* AddPackets(data, frames, offset), lines 872-920.                       *)

\* The frames one iteration passes to snd_pcm_writei (lines 887-890): at
\* most one original period when fragmented, otherwise all that is left.
Amount(left) ==
  IF hw.fragmented
    THEN IF left < hw.period THEN left ELSE hw.period
    ELSE left

\* Entry (lines 874-883): a null m_pcm returns INT_MAX at once.
AddPackets(f) ==
  /\ sink \in {"ready", "uninit"}
  /\ pc = "idle"
  /\ IF pcm = "null"
       THEN UNCHANGED <<pc, ap>>
       ELSE /\ pc' = "loop"
            /\ ap' = [NoCall EXCEPT !.frames = f, !.left = f]
  /\ UNCHANGED <<sink, pcm, queued, before, asleep, canResume, hw>>

\* Loop head (line 885): return frames_written when nothing is left,
\* otherwise start snd_pcm_writei on the next amount.
LoopHead ==
  /\ pc = "loop"
  /\ IF ap.left = 0
       THEN /\ pc' = "idle"
            /\ UNCHANGED ap
       ELSE /\ pc' = "w1"
            /\ ap' = [ap EXCEPT !.amount = Amount(ap.left),
                                !.chunk = Amount(ap.left), !.got = 0]
  /\ UNCHANGED <<sink, pcm, queued, before, asleep, canResume, hw>>

PostNoBreakOnZero(r, p, q) ==
  /\ queued' = q
  /\ pcm' = p
  /\ IF r >= 0
       THEN /\ ap' = [ap EXCEPT !.written = @ + r, !.left = @ - r]
            /\ pc' = IF r > 0 THEN "start" ELSE "loop"
       ELSE /\ UNCHANGED ap
            /\ pc' = "idle"

PostKeepsLeft(r, p, q) ==
  /\ queued' = q
  /\ pcm' = p
  /\ IF r > 0
       THEN /\ ap' = [ap EXCEPT !.written = @ + r]
            /\ pc' = "start"
       ELSE /\ UNCHANGED ap
            /\ pc' = "idle"

\* The end of an iteration (lines 909-917) once ret >= 0 is known, the
\* stream being in state p with q frames queued: ret <= 0 breaks out of the
\* loop; otherwise the frames are counted and the state is checked.
Post(r, p, q) ==
  /\ queued' = q
  /\ pcm' = p
  /\ IF r > 0
       THEN /\ ap' = [ap EXCEPT !.written = @ + r, !.left = @ - r]
            /\ pc' = "start"
       ELSE /\ UNCHANGED ap
            /\ pc' = "idle"

\* Lines 909-910: snd_pcm_state, and snd_pcm_start on a stream still
\* prepared after a write.
StartIfPrepared ==
  /\ pc = "start"
  /\ pcm' = IF pcm = "prepared" THEN "running" ELSE pcm
  /\ pc' = "loop"
  /\ UNCHANGED <<sink, queued, before, asleep, canResume, hw, ap>>

\* The value snd_pcm_writei returns: n frames, or a negative error code.
Ok(n) == [err |-> "none", n |-> n]
Err(e) == [err |-> e, n |-> 0]

\* What follows the first snd_pcm_writei returning r (lines 892-899):
\* snd_pcm_recover(m_pcm, ret, 1) prepares the stream after an underrun
\* and returns 0; after a suspend it waits for snd_pcm_resume; any other
\* error it returns, and HandleError (which only logs it) is followed by a
\* second snd_pcm_writei of the same frames.
AfterWrite1(r, p, q) ==
  CASE r.err = "none"     -> Post(r.n, p, q)
    [] r.err = "EPIPE"    -> Post(0, "prepared", 0)
    [] r.err = "ESTRPIPE" -> /\ pcm' = p /\ queued' = q /\ pc' = "rwait"
                             /\ UNCHANGED ap
    [] OTHER              -> /\ pcm' = p /\ queued' = q /\ pc' = "w2"
                             /\ ap' = [ap EXCEPT !.chunk = ap.amount, !.got = 0]

\* What follows the second snd_pcm_writei (lines 900-905): HandleError
\* prepares after an underrun, waits for resume after a suspend, logs any
\* other error; ret becomes 0 and the loop ends.
AfterWrite2(r, p, q) ==
  CASE r.err = "none"     -> Post(r.n, p, q)
    [] r.err = "EPIPE"    -> Post(0, "prepared", 0)
    [] r.err = "ESTRPIPE" -> /\ pcm' = p /\ queued' = q /\ pc' = "hwait"
                             /\ UNCHANGED ap
    [] OTHER              -> Post(0, p, q)

AfterWrite(r, p, q) ==
  IF pc = "w1" THEN AfterWrite1(r, p, q) ELSE AfterWrite2(r, p, q)

\* snd_pcm_writei copies what fits into the buffer of a prepared or running
\* stream; when the chunk is done it returns the frames written.
WriteSome ==
  /\ pc \in {"w1", "w2"}
  /\ pcm \in {"prepared", "running"}
  /\ queued < hw.buffer
  /\ LET n == IF ap.chunk < hw.buffer - queued THEN ap.chunk
              ELSE hw.buffer - queued
     IN IF n = ap.chunk
          THEN AfterWrite(Ok(ap.got + n), pcm, queued + n)
          ELSE /\ ap' = [ap EXCEPT !.chunk = @ - n, !.got = @ + n]
               /\ queued' = queued + n
               /\ UNCHANGED <<pcm, pc>>
  /\ UNCHANGED <<sink, before, asleep, canResume, hw>>

\* snd_pcm_writei on a prepared stream with a full buffer: nothing plays it,
\* so the wait ends with ALSA's timeout, returning the frames written or
\* -EIO.
WriteTimeout ==
  /\ pc \in {"w1", "w2"}
  /\ pcm = "prepared"
  /\ queued = hw.buffer
  /\ AfterWrite(IF ap.got > 0 THEN Ok(ap.got) ELSE Err("EIO"), pcm, queued)
  /\ UNCHANGED <<sink, before, asleep, canResume, hw>>

\* snd_pcm_writei on a stream in xrun, suspended, or dropped to setup
\* returns the frames written, or -EPIPE, -ESTRPIPE, -EBADFD.
WriteFails ==
  /\ pc \in {"w1", "w2"}
  /\ pcm \in {"xrun", "suspended", "setup", "open"}
  /\ LET err == CASE pcm = "xrun"      -> "EPIPE"
                  [] pcm = "suspended" -> "ESTRPIPE"
                  [] OTHER             -> "EBADFD"
     IN AfterWrite(IF ap.got > 0 THEN Ok(ap.got) ELSE Err(err), pcm, queued)
  /\ UNCHANGED <<sink, before, asleep, canResume, hw>>

\* snd_pcm_resume returns -EAGAIN until the system has resumed.  In
\* snd_pcm_recover a resume that is not supported, or fails, is followed by
\* snd_pcm_prepare; recover then returns 0 and the loop ends.
RecoverResume ==
  /\ pc = "rwait"
  /\ ~asleep
  /\ IF canResume THEN Post(0, before, queued) ELSE Post(0, "prepared", 0)
  /\ UNCHANGED <<sink, before, asleep, canResume, hw>>

\* HandleError(-ESTRPIPE), lines 932-944: the same wait; only -ENOSYS is
\* followed by snd_pcm_prepare.
HandleErrorResume ==
  /\ pc = "hwait"
  /\ ~asleep
  /\ IF canResume THEN Post(0, before, queued) ELSE Post(0, "prepared", 0)
  /\ UNCHANGED <<sink, before, asleep, canResume, hw>>

-----------------------------------------------------------------------------
(* Drain, Stop and deinit.                                                *)

\* Drain(), lines 952-959: snd_pcm_drain plays out the buffer, then
\* snd_pcm_prepare.  Both fail with -EBADFD on a stream left OPEN.
Drain ==
  /\ sink \in {"ready", "uninit"}
  /\ pc = "idle"
  /\ pcm # "null"
  /\ pcm' = IF pcm = "open" THEN "open" ELSE "prepared"
  /\ queued' = 0
  /\ UNCHANGED <<sink, before, asleep, canResume, hw, pc, ap>>

\* Stop(), lines 860-865: snd_pcm_drop leaves the stream in SETUP (an OPEN
\* one it leaves alone).
Stop ==
  /\ sink \in {"ready", "uninit"}
  /\ pc = "idle"
  /\ pcm # "null"
  /\ pcm' = IF pcm = "open" THEN "open" ELSE "setup"
  /\ queued' = 0
  /\ UNCHANGED <<sink, before, asleep, canResume, hw, pc, ap>>

\* delete sink: the destructor's deinit(), lines 50-53 and 850-858, drops
\* and closes the handle and sets m_pcm to NULL.
Destroy ==
  /\ sink \in {"ready", "uninit"}
  /\ pc = "idle"
  /\ sink' = "none"
  /\ pcm' = "null"
  /\ queued' = 0
  /\ hw' = NoHw
  /\ UNCHANGED <<before, asleep, canResume, pc, ap>>

-----------------------------------------------------------------------------
(* The hardware and the system.                                           *)

\* A running stream plays one frame.
Play ==
  /\ pcm = "running"
  /\ queued > 0
  /\ queued' = queued - 1
  /\ UNCHANGED <<sink, pcm, before, asleep, canResume, hw, pc, ap>>

\* A running stream whose buffer is empty underruns.
Underrun ==
  /\ pcm = "running"
  /\ queued = 0
  /\ pcm' = "xrun"
  /\ UNCHANGED <<sink, queued, before, asleep, canResume, hw, pc, ap>>

\* The system suspends; the driver suspends the stream.
Suspend ==
  /\ pcm \in {"prepared", "running", "xrun"}
  /\ ~asleep
  /\ before' = pcm
  /\ pcm' = "suspended"
  /\ asleep' = TRUE
  /\ UNCHANGED <<sink, queued, canResume, hw, pc, ap>>

\* The system resumes; snd_pcm_resume stops returning -EAGAIN.
Wake ==
  /\ asleep
  /\ asleep' = FALSE
  /\ UNCHANGED <<sink, pcm, queued, before, canResume, hw, pc, ap>>

-----------------------------------------------------------------------------
Init ==
  /\ sink = "none"
  /\ pcm = "null"
  /\ queued = 0
  /\ before = "prepared"
  /\ asleep = FALSE
  /\ canResume \in BOOLEAN
  /\ hw = NoHw
  /\ pc = "idle"
  /\ ap = NoCall

\* One step of an AddPackets call in progress.
AddPacketsStep ==
  \/ LoopHead
  \/ WriteSome
  \/ StartIfPrepared
  \/ WriteTimeout
  \/ WriteFails
  \/ RecoverResume
  \/ HandleErrorResume

Client ==
  \/ Create
  \/ CreatePassthrough
  \/ InitPassthrough
  \/ Restart
  \/ \E f \in CallFrames : AddPackets(f)
  \/ Drain
  \/ Stop
  \/ Destroy

Next ==
  \/ Client
  \/ AddPacketsStep
  \/ Play
  \/ Underrun
  \/ Suspend
  \/ Wake

\* The calling thread runs whenever one of its steps is possible; a running
\* stream keeps playing; a suspended system resumes.  Underruns, suspends
\* and the client's calls are not forced.
Fairness ==
  /\ WF_vars(AddPacketsStep)
  /\ WF_vars(Play)
  /\ WF_vars(Wake)

Spec == Init /\ [][Next]_vars /\ Fairness

-----------------------------------------------------------------------------
(* Properties.                                                            *)

\* Every AddPackets call returns: each iteration writes frames or ends the
\* loop, after any sequence of underruns, suspends and drops.
AddPacketsReturns == (pc # "idle") ~> (pc = "idle")

\* The sample format a ready sink records in m_format (outconfig.format,
\* lines 544 and 609), which its client produces frames in, is the format
\* InitializeHW left the stream configured with, whichever formats the
\* device refuses, whatever significant bits it reports and however the
\* fallback loop ends; and a passthrough sink plays 16-bit samples.
FormatMatchesHardware ==
  sink = "ready" =>
    /\ ToAlsa(hw.neg.format) = hw.neg.set
    /\ hw.neg.passthrough => NumBits(hw.neg.format) = 16

\* The channel layout a ready sink records in m_format, which tells its
\* client what each of the frame's channels is, has exactly as many
\* channels as the stream was opened with, whether it came from the
\* device's actual map, from the legacy map cut to that count, or from the
\* passthrough stream type.
ChannelLayoutFits ==
  sink = "ready" => Len(hw.neg.layout) = hw.neg.channels

\* When the device lists a map of exactly the channels a PCM format asks
\* for, or of their side/back alternate form, the ready sink plays every
\* one of them under one of the two forms: SelectALSAChannelMap picks that
\* map, InitializeHW opens its channel count, snd_pcm_set_chmap installs
\* it, and GetChannelLayout reads it back, perhaps in alternate form.
ChannelsCarried ==
  sink = "ready" /\ ~hw.neg.passthrough /\ hw.neg.exact =>
    \/ ContainsChannels(hw.neg.layout, hw.neg.asked)
    \/ ContainsChannels(hw.neg.layout, GetAlternateLayoutForm(hw.neg.asked))

\* When AddPackets returns, no frames it wrote sit in a stream that is
\* prepared: with the start threshold at INT_MAX (InitializeSW) such a
\* stream plays nothing until a later write succeeds and starts it, and
\* never when its buffer is full.  AddPackets starts the stream after each
\* write (lines 909-910); a suspend between the write and that check, and
\* a resume into PREPARED, must not defeat it.
StartedAfterWrite ==
  (pc = "idle" /\ sink = "ready" /\ pcm = "prepared") => queued = 0

=============================================================================
