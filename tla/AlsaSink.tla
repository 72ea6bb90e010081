------------------------------ MODULE AlsaSink ------------------------------
(***************************************************************************)
(* audio::AlsaSink (src/src/audio/AlsaSink.cpp), the terminal stage that   *)
(* plays each activation on an ALSA device.  Its state is the pcm handle   *)
(* m_pcm, the configuration m_conf it was opened for and the device name   *)
(* m_device.  onProcess reopens the device when the configuration of the   *)
(* incoming buffer differs from m_conf; setDevice reopens it on another    *)
(* device.  The pcm handle is abstracted to the ALSA state it is in:       *)
(* "null" (m_pcm == nullptr), "open" (snd_pcm_open succeeded, parameters   *)
(* not set) or "setup" (snd_pcm_set_params succeeded).  The environment is *)
(* other programs taking and releasing devices, which makes snd_pcm_open   *)
(* fail, and hardware that rejects some configurations, which makes        *)
(* snd_pcm_set_params fail.  writeSimple is a loop of snd_pcm_writei and   *)
(* snd_pcm_recover calls on a stream the hardware plays and the system may *)
(* suspend; it runs step by step on the scheduler's thread.               *)
(***************************************************************************)
EXTENDS Naturals

LOCAL INSTANCE FiniteSetsExt

CONSTANTS
  Devices,      \* device names setDevice may be given
  InitDevice,   \* m_device of a new AlsaSink
  Confs,        \* configurations buffers arrive with
  NoConf,       \* AudioConf(): m_conf of a new AlsaSink
  Ac3Confs,     \* configurations with codec Ac3
  Unsupported,  \* configurations snd_pcm_set_params rejects
  Shareable,    \* devices another program may hold
  FrameCounts,  \* frames (bytesCount / 4) of the buffers onProcess gets
  BufferFrames, \* the ring buffer's size in frames
  StartThreshold, \* the start threshold snd_pcm_set_params installs
  MaxSuspends   \* bound on the system suspends of a behaviour

ASSUME /\ InitDevice \in Devices
       /\ NoConf \notin Confs
       /\ Ac3Confs \subseteq Confs
       /\ Unsupported \subseteq Confs
       /\ Shareable \subseteq Devices
       /\ FrameCounts \subseteq Nat \ {0}
       /\ StartThreshold \in 1..BufferFrames

\* Payload sizes of an Ac3 buffer: one that fits an IEC 61937 burst after
\* the 8-byte header, and one that does not (line 407).
Payloads == {"fits", "tooBig"}

NoDevice == "none"

VARIABLES
  pcm,       \* m_pcm: [state, dev, conf] of the handle
  mconf,     \* m_conf
  device,    \* m_device
  busy,      \* devices another program holds
  crashed,   \* the process died in a call on a null handle
  lastWrite, \* the last buffer writeSimple handed to ALSA
  stream,    \* ALSA state of a set-up handle
  queued,    \* frames in its ring buffer
  before,    \* the state a suspended stream was in
  asleep,    \* the system is suspended
  canResume, \* the hardware supports snd_pcm_resume
  suspends,  \* suspends so far
  pc,        \* where the scheduler thread is in onProcess
  left,      \* writeSimple's frameCount
  done,      \* frames the snd_pcm_writei in progress has transferred
  err,       \* the error the last snd_pcm_writei returned
  given,     \* frames of the buffer writeSimple was called with
  handed     \* frames of it copied into the ring buffer so far

alsa == <<stream, queued, before, asleep, canResume, suspends>>
call == <<pc, left, done, err, given, handed>>
vars == <<pcm, mconf, device, busy, crashed, lastWrite, alsa, call>>

StreamStates == {"prepared", "running", "xrun", "suspended"}

Closed == [state |-> "null", dev |-> NoDevice, conf |-> NoConf]

NoWrite == [conf |-> NoConf, devConf |-> NoConf, dev |-> NoDevice, target |-> NoDevice]

\* A handle is closed, open on a device without parameters, or set up on a
\* device for one configuration.
Handles ==
  {Closed}
  \cup [state : {"open"}, dev : Devices, conf : {NoConf}]
  \cup [state : {"setup"}, dev : Devices, conf : Confs]

TypeOK ==
  /\ pcm \in Handles
  /\ mconf \in Confs \cup {NoConf}
  /\ device \in Devices
  /\ busy \subseteq Shareable
  /\ crashed \in BOOLEAN
  /\ lastWrite \in [conf : Confs \cup {NoConf}, devConf : Confs \cup {NoConf},
                    dev : Devices \cup {NoDevice}, target : Devices \cup {NoDevice}]
  /\ stream \in StreamStates /\ before \in StreamStates \ {"suspended"}
  /\ queued \in 0..BufferFrames
  /\ asleep \in BOOLEAN /\ canResume \in BOOLEAN
  /\ suspends \in 0..MaxSuspends
  /\ pc \in {"idle", "loop", "writei", "recover"}
  /\ left \in 0..Max(FrameCounts) /\ done \in 0..left
  /\ err \in {"none", "EPIPE", "ESTRPIPE", "EBADFD"}
  /\ given \in 0..Max(FrameCounts) /\ handed \in 0..given + 1

-----------------------------------------------------------------------------
(* Helpers: the handle after a call, given the handle before it.          *)

\* snd_pcm_set_params with S16, 2 channels and toInt(conf.rate) (166-173):
\* AudioConf() has no valid rate.
SetParamsOk(c) == c # NoConf /\ c \notin Unsupported

\* openSimple(conf) on m_device = d, lines 153-180: nothing if a handle is
\* open; otherwise open d, which fails while another program holds it, then set
\* the parameters, whose failure leaves the handle open but not set up.
OpenSimple(p, c, d) ==
  IF p.state # "null" THEN p
  ELSE IF d \in busy THEN p
  ELSE IF SetParamsOk(c) THEN [state |-> "setup", dev |-> d, conf |-> c]
  ELSE [state |-> "open", dev |-> d, conf |-> NoConf]

\* start(conf), lines 38-63: openSimple, whose result is ignored, then
\* snd_pcm_sw_params_current(m_pcm, ...), which dereferences m_pcm; on a
\* handle that is not set up it fails and start returns; otherwise the
\* handle is prepared.  Only the handle changes.
Start(p, c, d) == OpenSimple(p, c, d)

\* start dies when the handle it passes to snd_pcm_sw_params_current is
\* null (line 50).
StartCrashes(p, c, d) == Start(p, c, d).state = "null"

\* writeSimple(samples, bytesCount), lines 340-369: snd_pcm_writei until
\* every frame is written, recovering from an xrun with snd_pcm_recover; on
\* a handle that is not set up both fail and the loop gives up, so the
\* buffer reaches the device only through a handle that is set up.
WriteSimplePlays(p) == p.state = "setup"

\* doAc3Payload(buffer), lines 405-426: a payload longer than one burst
\* less its header is dropped with buffer.clear(); any other is framed into
\* one burst of spdif::ac3FrameSize bytes.
Ac3Dropped(c, payload) == c \in Ac3Confs /\ payload = "tooBig"

OnStopKeepsHandle(p) == p

\* onStop(), lines 111-119: drain and close an open handle.
OnStop(p) == Closed

-----------------------------------------------------------------------------
(* Operations.                                                            *)

\* onProcess(conf, buffer), lines 76-109, up to writeSimple.  A change of
\* configuration stops the device and starts it for conf (78-82); a null
\* handle is started (84-86); an Ac3 payload too big for one burst is
\* dropped (88-90, doAc3Payload), leaving writeSimple no frames.  A handle
\* start opens is prepared and empty (line 62).
OnProcess(c, payload, n) ==
  LET changed == mconf # c
      p1 == IF changed THEN Start(OnStop(pcm), c, device) ELSE pcm
      dies1 == changed /\ StartCrashes(OnStop(pcm), c, device)
      p2 == IF p1.state = "null" THEN Start(p1, c, device) ELSE p1
      dies2 == p1.state = "null" /\ StartCrashes(p1, c, device)
      dropped == Ac3Dropped(c, payload)
      reopened == changed \/ pcm.state = "null"
  IN
  /\ ~crashed
  /\ pc = "idle"
  /\ IF dies1 \/ dies2
       THEN /\ crashed' = TRUE
            /\ pcm' = IF dies1 THEN p1 ELSE p2
            /\ mconf' = mconf
            /\ UNCHANGED <<lastWrite, call>>
       ELSE /\ crashed' = FALSE
            /\ pcm' = p2
            /\ mconf' = c
            /\ lastWrite' = IF WriteSimplePlays(p2) /\ ~dropped
                              THEN [conf |-> c, devConf |-> p2.conf,
                                    dev |-> p2.dev, target |-> device]
                              ELSE lastWrite
            /\ pc' = "loop"
            /\ left' = IF dropped THEN 0 ELSE n
            /\ done' = 0
            /\ err' = "none"
            /\ given' = left'
            /\ handed' = 0
  /\ stream' = IF reopened THEN "prepared" ELSE stream
  /\ queued' = IF reopened THEN 0 ELSE queued
  /\ UNCHANGED <<device, busy, before, asleep, canResume, suspends>>

\* The count of frames handed over, kept only up to one more than the
\* buffer holds: any more is as wrong as one more.
Tally(h) == IF h > given THEN given + 1 ELSE h

\* The head of writeSimple's loop (lines 345-369): while frames are left,
\* call snd_pcm_writei for all of them; otherwise writeSimple returns and
\* onProcess clears the buffer and returns (lines 106-108).
LoopHead ==
  /\ pc = "loop"
  /\ pc' = IF left > 0 THEN "writei" ELSE "idle"
  /\ done' = 0
  /\ UNCHANGED <<pcm, mconf, device, busy, crashed, lastWrite, alsa, left, err,
                 given, handed>>

WriteiTransferNoDecrement ==
  LET n == Min({left - done, BufferFrames - queued})
      q == queued + n
  IN
  /\ pc = "writei"
  /\ pcm.state = "setup"
  /\ stream \in {"prepared", "running"}
  /\ queued < BufferFrames
  /\ queued' = q
  /\ stream' = IF stream = "prepared" /\ q >= StartThreshold THEN "running" ELSE stream
  /\ IF done + n = left
       THEN /\ pc' = "loop" /\ done' = 0 /\ left' = left
       ELSE /\ done' = done + n /\ UNCHANGED <<pc, left>>
  /\ handed' = Tally(handed + n)
  /\ UNCHANGED <<pcm, mconf, device, busy, crashed, lastWrite, before, asleep,
                 canResume, suspends, err, given>>

\* A blocking snd_pcm_writei copies what fits into the ring buffer, starting
\* a PREPARED stream once the start threshold is reached, and waits for
\* room while the stream plays; once every frame is copied it returns their
\* count, which writeSimple takes off frameCount (line 366).
WriteiTransfer ==
  LET n == Min({left - done, BufferFrames - queued})
      q == queued + n
  IN
  /\ pc = "writei"
  /\ pcm.state = "setup"
  /\ stream \in {"prepared", "running"}
  /\ queued < BufferFrames
  /\ queued' = q
  /\ stream' = IF stream = "prepared" /\ q >= StartThreshold THEN "running" ELSE stream
  /\ IF done + n = left
       THEN /\ pc' = "loop" /\ done' = 0 /\ left' = left - (done + n)
       ELSE /\ done' = done + n /\ UNCHANGED <<pc, left>>
  /\ handed' = Tally(handed + n)
  /\ UNCHANGED <<pcm, mconf, device, busy, crashed, lastWrite, before, asleep,
                 canResume, suspends, err, given>>

\* snd_pcm_writei on a stream in XRUN (-EPIPE), SUSPENDED (-ESTRPIPE) or a
\* handle never set up (-EBADFD) returns the frames it copied before the
\* error, if any (a short write, lines 362-367), and otherwise the error,
\* which writeSimple hands to snd_pcm_recover (lines 352-355).
WriteiFails ==
  /\ pc = "writei"
  /\ \/ pcm.state # "setup"
     \/ stream \in {"xrun", "suspended"}
  /\ IF done > 0
       THEN /\ pc' = "loop" /\ left' = left - done /\ done' = 0
            /\ UNCHANGED err
       ELSE /\ pc' = "recover"
            /\ err' = CASE pcm.state # "setup" -> "EBADFD"
                        [] stream = "xrun"      -> "EPIPE"
                        [] OTHER                -> "ESTRPIPE"
            /\ UNCHANGED <<left, done>>
  /\ UNCHANGED <<pcm, mconf, device, busy, crashed, lastWrite, alsa, given, handed>>

\* writeSimple giving up on every error, without snd_pcm_recover.
RecoverNoRetry ==
  /\ pc = "recover"
  /\ pc' = "idle"
  /\ UNCHANGED <<pcm, mconf, device, busy, crashed, lastWrite, alsa, left, done, err,
                 given, handed>>

\* snd_pcm_recover(m_pcm, ret, 0) (line 354), as alsa-lib implements it:
\* -EPIPE is cured by snd_pcm_prepare, which empties the buffer; -ESTRPIPE
\* by snd_pcm_resume, retried each second while the system sleeps, and by
\* snd_pcm_prepare when the hardware cannot resume; both return 0, which
\* leaves frameCount as it was (line 366), and the loop tries again.  Any
\* other error is returned, and writeSimple breaks out (lines 357-360).
Recover ==
  /\ pc = "recover"
  /\ CASE err = "EBADFD" ->
            /\ pc' = "idle"
            /\ UNCHANGED <<stream, queued>>
       [] err = "EPIPE" ->
            /\ pc' = "loop"
            /\ stream' = "prepared" /\ queued' = 0
       [] OTHER ->
            /\ ~asleep
            /\ pc' = "loop"
            /\ stream' = IF canResume THEN before ELSE "prepared"
            /\ queued' = IF canResume THEN queued ELSE 0
  /\ UNCHANGED <<pcm, mconf, device, busy, crashed, lastWrite, before, asleep,
                 canResume, suspends, left, done, err, given, handed>>

\* setDevice(device), lines 65-74: a new name closes the handle and starts
\* the new device with m_conf.  It runs on the scheduler's thread, between
\* two onProcess calls.
SetDevice(d) ==
  /\ ~crashed
  /\ pc = "idle"
  /\ d # device
  /\ device' = d
  /\ LET p == OnStop(pcm) IN
       /\ crashed' = StartCrashes(p, mconf, d)
       /\ pcm' = Start(p, mconf, d)
  /\ stream' = "prepared" /\ queued' = 0
  /\ UNCHANGED <<mconf, busy, lastWrite, before, asleep, canResume, suspends, call>>

\* Another program opens device d, which it can only do while this sink
\* does not hold it.
OtherClaims(d) ==
  /\ d \notin busy
  /\ pcm.dev # d
  /\ busy' = busy \cup {d}
  /\ UNCHANGED <<pcm, mconf, device, crashed, lastWrite, alsa, call>>

\* Another program closes device d.
OtherReleases(d) ==
  /\ d \in busy
  /\ busy' = busy \ {d}
  /\ UNCHANGED <<pcm, mconf, device, crashed, lastWrite, alsa, call>>

\* The hardware plays one frame of a running stream.
Play ==
  /\ pcm.state = "setup" /\ stream = "running" /\ queued > 0
  /\ queued' = queued - 1
  /\ UNCHANGED <<pcm, mconf, device, busy, crashed, lastWrite, stream, before,
                 asleep, canResume, suspends, call>>

\* A running stream whose buffer is empty underruns.
Underrun ==
  /\ pcm.state = "setup" /\ stream = "running" /\ queued = 0
  /\ stream' = "xrun"
  /\ UNCHANGED <<pcm, mconf, device, busy, crashed, lastWrite, queued, before,
                 asleep, canResume, suspends, call>>

\* The system suspends, and the driver with it the stream.
Suspend ==
  /\ pcm.state = "setup" /\ stream # "suspended" /\ ~asleep
  /\ suspends < MaxSuspends
  /\ before' = stream /\ stream' = "suspended"
  /\ asleep' = TRUE /\ suspends' = suspends + 1
  /\ UNCHANGED <<pcm, mconf, device, busy, crashed, lastWrite, queued, canResume, call>>

\* The system resumes.
Wake ==
  /\ asleep
  /\ asleep' = FALSE
  /\ UNCHANGED <<pcm, mconf, device, busy, crashed, lastWrite, stream, queued,
                 before, canResume, suspends, call>>

-----------------------------------------------------------------------------
Init ==
  /\ pcm = Closed
  /\ mconf = NoConf
  /\ device = InitDevice
  /\ busy = {}
  /\ crashed = FALSE
  /\ lastWrite = NoWrite
  /\ stream = "prepared" /\ queued = 0 /\ before = "prepared"
  /\ asleep = FALSE /\ canResume \in BOOLEAN /\ suspends = 0
  /\ pc = "idle" /\ left = 0 /\ done = 0 /\ err = "none"
  /\ given = 0 /\ handed = 0

\* One step of writeSimple.
WriteSimpleStep == LoopHead \/ WriteiTransfer \/ WriteiFails \/ Recover

Next ==
  \/ \E c \in Confs, pl \in Payloads, n \in FrameCounts : OnProcess(c, pl, n)
  \/ \E d \in Devices : SetDevice(d)
  \/ WriteSimpleStep
  \/ \E d \in Shareable : OtherClaims(d)
  \/ \E d \in Shareable : OtherReleases(d)
  \/ Play \/ Underrun \/ Suspend \/ Wake

\* The scheduler thread runs whenever it can; a running stream plays; a
\* sleeping system wakes.  Buffers, setDevice, other programs, underruns and
\* suspends are not forced.
Fairness == WF_vars(WriteSimpleStep) /\ WF_vars(Play) /\ WF_vars(Wake)

Spec == Init /\ [][Next]_vars /\ Fairness

-----------------------------------------------------------------------------
(* Properties.                                                            *)

\* Every buffer onProcess plays goes to the device m_device currently
\* names, opened with the configuration the buffer carries: a change of
\* configuration (onProcess) or of device (setDevice) must close the old
\* handle before openSimple, which keeps any open handle, is called.
WritesFollowSettings ==
  lastWrite # NoWrite =>
    /\ lastWrite.devConf = lastWrite.conf
    /\ lastWrite.dev = lastWrite.target

\* A device another program holds is a stage-local resource error: the
\* sink must not take the process down (spec 7), whatever order the
\* buffers, setDevice calls and the other program's opens come in.
NoCrash == ~crashed

\* When writeSimple returns on a set-up handle, exactly the frames of the
\* buffer have been copied into the ring buffer, each once: an underrun, a
\* suspend or a short write of snd_pcm_writei is recovered from, and
\* frameCount and ptr advance by what was written, no more and no less
\* (lines 345-368).  Only a handle never set up loses the buffer.
NoFramesDropped ==
  [][pc # "idle" /\ pc' = "idle" => handed = given \/ pcm.state # "setup"]_vars

\* Every onProcess call returns: writeSimple's loop, which retries after
\* every successful snd_pcm_recover (line 354), ends once the system stops
\* suspending (at most MaxSuspends times here).
WriteSimpleReturns == (pc # "idle") ~> (pc = "idle")

=============================================================================
