# TLA+ models of the coro audio pipeline (gstreamermm-dsp)

This directory holds TLA+ models of the repository's audio pipeline core and
of its ALSA output stages, the TLC configurations that check them, and
`PROJECT.json`, which maps every definition to the source lines it models and
lists the runs, mutants, findings and hazards.

## 1. The system

The repository (`src/`) is a fragment of the *coro* library: an audio
pipeline of stages ("nodes") through which a source pushes one activation
at a time, a buffer plus its configuration, down to a sink.  Only part of
the library is in the repository; `spec.md` describes the rest.

| Part | Source | State | Operations |
|---|---|---|---|
| Buffer | `src/unnamed/part_001` (`core::Buffer`) | `m_buffer` (store), `m_offset`, `m_size` (committed region), `m_acquiredOffset` | two constructors, `data`/`size`, `acquire(n)`, `commit(n)`, `split(n)` |
| Converter stages | `src/unnamed/part_000` (`AudioConverter<In,Out>::process`) | none of their own; they rewrite the buffer | int16->float, float->int16, generic `process` |
| Stage linking | `src/include/coro/core/Node.h` | `m_next` of each node | `canIntersect(in, out)`, `link(prev, next)`, `start`, `stop`, `process` |
| Declared capabilities | `AppSource.h` (two copies), `AirPlaySource.h` | constant `outCaps()` sets | none |
| ALSA sink | `src/src/audio/AlsaSink.cpp` | `m_pcm`, `m_conf`, `m_device` | `onProcess`, `setDevice`, `onStop`, `start`, `openSimple`, `writeSimple`, `doAc3Payload` (plus `open`, `setHwParams`, `setSwParams`, `setDelay`, `recover`, which nothing calls) |
| ALSA passthrough sink | `src/src/AlsaPassthroughSink.cpp` (from Kodi) | `m_pcm`, `m_passthrough`, `m_format`, `m_fragmented`, `m_originalPeriodSize`, `m_bufferSize`, `m_timeout`, device names | `create`, `init`, `initPassthrough`, `InitializeHW/SW`, `deinit`, `Stop`, `Drain`, `AddPackets`, `HandleError`, `openAudioDevice`, `TryDevice(WithParams)`, `enumerateDevices`, `enumerateDevice`, channel-map helpers |
| Biquad maths | `src/src/Util.cpp` | none | `computeBiQuad`, `computeResponse` (floating point) |
| Test, build | `src/tests/alsautiltest.cpp`, CMake files | none | none |

The following are described in `spec.md` but their code is not in the
repository: `Caps::intersect`, `Mainloop` (the scheduler), `Source`/`Sink`,
`BufferPool` and `AudioBuffer`.

**How the parts interact.**  Everything runs on one thread.  The scheduler
polls a source.  The source builds a `Buffer` and calls `process` on its
successor (`m_next`, set by `link`).  Each stage rewrites the buffer in place
through `acquire`/`commit` and passes it on.  The terminal `AlsaSink` writes
it to ALSA and clears it.  Capability sets are checked by `canIntersect`
when `link` is compiled.  A buffer therefore has one owner at a time, and
the shared state lives in each component: the buffer's offsets and the
sink's pcm handle.

**What is hard.**  There are no threads; what is hard is ordering and
failure:
- **Buffer.**  A *sequence* of acquire/commit calls by successive stages
  must keep the committed region and the space handed out consistent.  The
  front, back and grow branches of `acquire` each have to agree with what
  `commit` later publishes.  `size_t` arithmetic can wrap.
- **Sinks.**  The devices are shared with other programs, and ALSA calls
  fail at any step (open, parameters, write, xrun, suspend).  The sinks
  must survive every interleaving of configuration changes, device changes
  and these failures.  Retry loops must not spin forever.
- **Linking.**  `link` may be called in any order.  It never checks for an
  existing successor or for a cycle.

**Correctness, per part** (the properties the models state):
- **Buffer.**  `acquire` never overwrites committed bytes.  The committed
  region and the acquired space stay inside the store.  `split` partitions
  the committed bytes.
- **Converters.**  Each stage fills the space it acquired with its input
  converted.  A chain delivers every source sample converted by every
  stage, once and in order (the abstract `ConverterSpec`).  This also needs
  `data()` after `commit` to show what was written.
- **Linking.**  Only chains `link`'s gate accepts are built.
- **AlsaSink.**  Audio is played only on the current device, opened for
  the buffer's configuration.  A busy device does not kill the process.
  The sink plays again once the device is free.  `writeSimple` writes
  every frame through underruns and suspends, and returns.
- **AlsaPassthroughSink.**  No ALSA call is made on a closed or null handle.
  `AddPackets` terminates, never reports more frames than it was given, and
  always makes progress or stops.

## 2. Modules and runs

### Buffer (`Buffer.tla`, `MCBuffer.tla`)
- **Variables.**  `cap` = `m_buffer.size()`, `offset` = `m_offset`,
  `size` = `m_size` and `acquiredOffset` = `m_acquiredOffset`.  `mem[i]` is
  the number of the acquire that last wrote byte `i` (0 for constructor
  bytes).  `window` is the space the last acquire handed out, `gen` counts
  acquires and `pending` marks an acquire not yet committed.
- **Actions.**  One per constructor (`BufferEmpty`, `BufferFrom`), one per
  branch of `acquire` (`AcquireFront`, `AcquireBack`, `AcquireGrow`), and
  `Commit`.  `split` is the recursive operator `Split`.
- **Abstraction.**  The caller of `acquire` fills the whole space at once,
  as `AudioConverter::process` does.  `size_t` is modelled as `SizeWidth`
  bits: 16 in the MC module, enough that every wrap-around exceeds any
  request, as with 64 bits.
- **Bounds.**  A store of at most 8 bytes, requests of 1-4 bytes, reserves
  of 0/4/8 bytes, three acquires per buffer and chunks of 2 or 4.  These
  reach all three acquire branches, growth, front reuse after a back commit,
  and chunk sizes that do and do not divide the size.
- `Buffer.h` is not in the repository.  Its members are taken to be
  zero-initialised, which is what the constructors rely on.

| Run | cfg | Expect | What it shows |
|---|---|---|---|
| buffer_acquire | `MCBuffer.cfg` | pass | `AcquireNoClobber`: no branch of `acquire` hands out space overlapping the committed region (nor does growth lose it), after any history of calls. |
| buffer_bounds | `MCBuffer_StorageBounds.cfg` | violation | `StorageBounds`: line 43 returns the space in front without setting `m_acquiredOffset`.  That stale offset, plus a commit larger than the old region makes `m_offset + m_size > m_buffer.size()`. |
| buffer_split | `MCBuffer_SplitPartition.cfg` | violation | `SplitPartition`: a 1-byte buffer split by 2 yields a 2-byte view. |

### Converter chains and linking (`ConverterSpec.tla`, `ConverterChain.tla`, `StageLink.tla`, `MCConverterChain.tla`)
- **Abstract specification.**  `ConverterSpec` is what a chain promises
  the stage after it: a sequence of `[smp, fmt]` samples.  Each `Stage`
  step converts every sample to the stage's output format, in order.
- **ConverterChain.**  It composes `AudioConverter::process` with the
  Buffer module.  `INSTANCE Buffer` shares the buffer variables, so the
  converters drive the very acquire/commit actions that Buffer checks.
  - `process` is two steps, `ProcessAcquire` and `ProcessCommit`.
    `ProcessAcquire` is `acquire`, in any of its three branches, plus the
    conversion loop; `ProcessCommit` is `commit` plus the returned
    configuration.  The loop `ConvertLoop` is recursive.
  - `bytes[i]` records which sample byte `i` holds, in which format, and
    its position within the sample.  `Decode` reads a sample back, so a
    misaligned, mixed or stale read yields "no sample".
  - `codec` is `conf.codec`.  The two specialisations set it; the generic
    template returns `conf` unchanged.
- **Refinement.**  `SinkSamples` maps the committed bytes, decoded with
  `codec`, onto `samples`; `stage` maps onto `done`.
  `ChainRefines == Abstract!Spec` is checked as a property.
- **StageLink.**  `link` exists only where `canIntersect(prev.outCaps(),
  next.inCaps())` holds.  It is evaluated at compile time, so StageLink is
  a set of constant operators:
  - `CanIntersectFrom` is the two loops with their early return, and
    `Linkable` is the `enable_if` gate.  The gate also requires the two
    `std::array` types to be the same, since `canIntersect` deduces one
    type `T` for both.
  - The sources' `outCaps()` arrays are taken from the headers.  As a
    consequence, `core::AppSource` declares `std::array<AudioCap,1>` and so
    cannot be linked to any `AudioCaps` node.
  - The gate only chooses which chains `MCConverterChain` builds.  Its
    loops are range-for loops over `std::array`, so no property is checked
    of them alone.
  - `Caps::intersect` and the converters' capabilities are not in the
    repository; `Intersect` and `ConverterCaps` are taken from spec 4.1.
- **Composition.**  `MCConverterChain` builds its chains from StageLink.
  They are every chain of up to two stages (int16->float, float->int16,
  and an int16 pass-through instance of the generic template) that `link`
  accepts from some source of the repository.  That is 8 chains.
- **Bounds.**
  - Sources send 1-3 samples, in buffers reserved with 0, 8, 16 or 24
    bytes; the store is at most 24 bytes.  This makes every acquire branch
    fire: front reuse, back, and growth.
  - `canIntersect` is checked on all arrays of up to two capabilities.
    Each field is unspecified or one of two conflicting values.
- **Fairness.**  Weak fairness on process steps.  A `process` call runs to
  completion on the scheduler's one thread once it has started.
- **Finding.**  The front branch of `acquire` (part_001:43) leaves
  `m_acquiredOffset` stale, so `commit` republishes the previous stage's
  output.  A chain is harmed exactly when the stage that reuses the front
  space changes the sample width: float->int16 after int16->float, or the
  reverse.  A same-width stage writes the same samples again, and the
  chain stays correct by accident.

| Run | cfg | Expect | What it shows |
|---|---|---|---|
| conv_stage | `MCConverterChain.cfg` | pass | `StageConverts`: every `process` fills its acquired space with its input converted.  `ChainRefines`: the six chains whose front-space stages keep the width implement `ConverterSpec`. |
| conv_narrowing | `MCConverterChain_Narrowing.cfg` | violation | `ChainRefines`: int16->float then float->int16, or the reverse.  The second stage writes in front, and its commit publishes the first stage's bytes under the new codec. |

### AlsaSink (`AlsaSink.tla`, `MCAlsaSink.tla`)
- **Variables.**  `pcm` is `m_pcm`, abstracted to its ALSA state: "null",
  "open" (opened, parameters not set) or "setup".  Each handle also records
  the device it is on and the configuration it was set up for.  `mconf` is
  `m_conf` and `device` is `m_device`.  `busy` holds the devices another
  program holds.  `crashed` records a call on a null handle.  `lastWrite`
  records the last buffer played.  `stream` and `queued` are the ALSA
  state and fill of a set-up handle; `before`, `asleep`, `canResume` and
  `suspends` describe system suspends.  `pc`, `left` (`frameCount`),
  `done` and `err` are where `writeSimple` is.  `given` and `handed` are
  ghost counts: the frames of the buffer, and the frames copied into the
  ring buffer so far (capped one above `given`).
- **Actions.**
  - `OnProcess(conf, payload, frames)` is `onProcess` up to
    `writeSimple`: `onStop`, `start`, `openSimple` and `doAc3Payload`.
  - `writeSimple` is a loop of steps. `LoopHead` is the `while` test;
    `WriteiTransfer` is a blocking `snd_pcm_writei` copying what fits and
    waiting for room; `WriteiFails` is a write returning a short count or
    an error; `Recover` is `snd_pcm_recover`, as alsa-lib implements it.
  - `SetDevice(d)` is `setDevice`, on the same thread between calls.
  - The environment: `OtherClaims` and `OtherReleases` (another program
    taking and freeing a device), `Play`, `Underrun`, `Suspend`, `Wake`.
- **Environment.**  Hardware rejects the configurations in `Unsupported`.
  A stream set up by `snd_pcm_set_params` starts when its buffer reaches
  the start threshold.
- **Fairness.**  Weak fairness of the `writeSimple` steps (the scheduler
  thread runs when it can), of `Play` (a running stream plays) and of
  `Wake` (a sleeping system wakes).  Buffers, `setDevice`, other programs,
  underruns and suspends are not forced.  Suspends are bounded by
  `MaxSuspends`: `writeSimple` retries after each one, so a system that
  suspends forever keeps it looping.
- **Bounds.**  Three devices (two shareable) and three configurations:
  44.1 kHz PCM, 48 kHz PCM (unsupported) and Ac3.  Ac3 payloads either fit
  or are too big.  These cover every branch of `onProcess` and `openSimple`.
  Buffers of 1 and 3 frames, a ring buffer of 2 frames with the start
  threshold at 2, and two suspends (one can interrupt the retry after
  the other), on hardware that can or cannot resume.
  A 3-frame buffer needs a short write and a wait; a 1-frame write leaves
  the stream prepared, so underruns, suspends, short writes and every
  recovery happen.

| Run | cfg | Expect | What it shows |
|---|---|---|---|
| alsasink_settings | `MCAlsaSink.cfg` | pass | `WritesFollowSettings`: every played buffer goes to the device `m_device` names, on a handle set up for the buffer's configuration, whatever the order of configuration changes, `setDevice` calls and failed opens.  `NoFramesDropped`: when `writeSimple` returns on a set-up handle, exactly the buffer's frames were copied into the ring buffer, each once, through every underrun, suspend and short write; only a handle never set up loses the buffer.  `WriteSimpleReturns`: every call returns when suspends are finitely many. |
| alsasink_busy | `MCAlsaSink_NoCrash.cfg` | violation | `NoCrash`: with the new device held by another program, `setDevice` or the next `onProcess` calls `snd_pcm_sw_params_current` on a null handle. |

### Device opening and enumeration (`AlsaOpen.tla`, `AlsaEnumerate.tla`, `MCAlsaEnumerate.tla`)
- **AlsaOpen** holds pure operators.
  - `OpenBases` and `Attempts` are the list of device names that
    `openAudioDevice` tries: the surround fall-through switch, then
    sysdefault/default only for DEV 0, then front, each with and without
    the AES parameters.
  - `TryDevice` is the reuse/close/open step on the handle.
  - `TryEach` (RECURSIVE) and `OpenAudioDevice` run the tries.
  - A device name is abstracted to its base: "@0" and "@1" stand for
    "@:CARD=x" with DEV 0 or another DEV.
- **AlsaEnumerate.**
  - `pc`, `target`, `pcm`, `ch`, `channels`, `todo` and `listed` are the
    locals of `enumerateDevices`/`enumerateDevice`.
  - `live` counts the handles held open.
  - `held` is the set of devices another program holds.
  - Each ALSA call on the handle is one action (`Open`, `Info`,
    `HwParamsAny`, one `Chan` per probed channel count, `AddEntry`), because
    other programs (`OtherOpens`, `OtherCloses`) open and close devices
    between two calls.
  - The reopen inside `Chan` lets them grab devices in the window where
    `TryDevice` has closed the old handle.
- **Bounds.**  One card with four hints ("@0", "@1", sysdefault, hdmi), six
  device bases, of which three are contended, and 16 channels.  This reaches
  every fallback, the reuse of an open handle and the sysdefault removal.

| Run | cfg | Expect | What it shows |
|---|---|---|---|
| enumerate_handles | `MCAlsaEnumerate.cfg` | pass | `HandleReleased`: at most one handle is open, and none after each device, on every early return and reopen path. |
| enumerate_info_error | `MCAlsaEnumerate_NoUseAfterClose.cfg` | violation | `NoUseAfterClose`: a failed `snd_pcm_info` closes the handle (line 1314), and `snd_pcm_hw_params_any` then runs on it. |
| enumerate_reopen_race | `MCAlsaEnumerate_NoNullHandle.cfg` | violation | `NoNullHandle`: the reopen at line 1417 ignores failure.  If another program takes the surround and front devices meanwhile, `test_channels` gets NULL. |

### Playback lifecycle (`AlsaHwParams.tla`, `AlsaChannels.tla`, `AlsaPassthroughSink.tla`, `MCAlsaPassthroughSink.tla`)
- **Variables.**
  - `sink` is what the client holds: none, an uninitialised sink, a ready
    one, or a crashed process.
  - `pcm` is the ALSA state of `m_pcm`.
  - `queued` counts the frames in its buffer.
  - `hw` holds the period/buffer sizes and `m_fragmented`.  Its `neg` field
    records what `init` settled on: `m_format.sampleFormat`,
    `m_passthrough`, the format the stream was configured with,
    `m_format.channels`, `m_format.channelLayout`, the layout the client
    asked for, and whether the device listed a map holding exactly those
    channels.
  - `before`, `asleep` and `canResume` describe a system suspend and whether
    the driver can resume.
  - `pc` and `ap` are the program counter and locals of an `AddPackets`
    call in progress.
- **Actions.**
  - Client calls: `Create` (`create`+`init`), `CreatePassthrough`,
    `InitPassthrough` (every failure path, including those that leave the
    handle OPEN or PREPARED), `AddPackets`, `Drain`, `Stop` and `Destroy`
    (`deinit`).
  - Each step of an `AddPackets` call is one ALSA call, or the part of a
    blocking `snd_pcm_writei` between two waits: `LoopHead`, `WriteSome`,
    `WriteTimeout`, `WriteFails`, `RecoverResume` (`snd_pcm_recover`),
    `HandleErrorResume` and `StartIfPrepared`.
  - The hardware and the system: `Play`, `Underrun`, `Suspend`, `Wake`.
- **Negotiation (`AlsaHwParams`).**
  - This module covers the part of `InitializeHW` before the sizes:
    - `toAlsa`;
    - the channel choice (`set_channels_min`, then `first` or `last`);
    - the requested format, with FLOAT when `toAlsa` has none;
    - the descending fallback loop over `AudioSampleFormat`.
  - The fallback loop is the recursive operator `Fallback`.  Its branches
    follow the code: skip, an UNKNOWN `toAlsa`, a failed `set_format`, a
    significant-bits mismatch, and success.
  - A device is the set of ALSA formats it accepts, the significant bits
    it reports, and its channel counts.
  - The stream is configured with the format `hw_params` fixed.  If the
    loop leaves it unfixed, it gets the first format the device takes,
    which is what ALSA's `snd_pcm_hw_params` chooses.
  - `init` plays a Bitstream format as S16NE passthrough.
  - `init` and `initPassthrough` in passthrough fail when the channel
    count they got differs from the one they asked for.
  - The `AudioSampleFormat` enum is not in the repository.  Its order is
    taken as `toAlsa` lists it, between `Invalid` (least) and `Max`
    (greatest), as the loop bounds require.
  - Every (device, request, channel count) outcome is a constant set that
    TLC computes once.
- **Channel layouts (`AlsaChannels`).**
  - A layout is a sequence of AE channel names; an ALSA map a sequence of
    ALSA positions.  The legacy maps, `ALSAChannelToAEChannel` and its
    inverse are tables; `GetChannelLayoutLegacy` (count = the last of the
    first 8 map entries the layout has, clamped to [min, max]),
    `GetAlternateLayoutForm`, `SelectALSAChannelMap` and `GetChannelLayout`
    are operators over them.
  - A device lists its supported maps as FIXED or VAR; no list means no
    chmap support (`snd_pcm_query_chmaps` returns NULL).
  - `init` selects a map, asks for its channel count, negotiates, applies
    the map with `snd_pcm_set_chmap` (whose failure is ignored) and reads
    back the actual map; `GetChannelLayout` turns it into
    `m_format.channelLayout`, and an invalid layout fails `init`.
  - `AudioChannelLayout` is not in the repository.  `HasChannel`,
    `ContainsChannels` and `ReplaceChannel` are taken from their names.
    `BestMatch` ranks layouts by a score defined nowhere here, so every
    index it may return is a choice: `SelectALSAChannelMap` and
    `GetChannelLayout` return sets of outcomes.
- **Abstraction.**
  - `InitializeSW` sets the start threshold to INT_MAX, so only
    `snd_pcm_start` starts the stream.
  - A write on a PREPARED stream whose buffer is full waits for ALSA's
    timeout.
  - The undefined result of `createPassthrough` is a choice between the new
    uninitialised sink and a crash.
- **Fairness.**
  - The calling thread runs whenever one of its steps is enabled: weak
    fairness of the `AddPackets` steps.
  - A running stream keeps playing, and a suspended system eventually
    resumes: weak fairness of `Play` and `Wake`.
  - Client calls, underruns and suspends are not forced.
- **Bounds.**
  - Periods of 1, 2 and 4 frames, buffers of 2 and 4, AE_MIN_PERIODSIZE 4,
    calls of 1, 3 and 4 frames.
  - Together these give fragmented and unfragmented sinks, partial writes,
    and a buffer that fills.
  - Devices have a format side (the formats, with S32 reported as 0, 24 or
    32 significant bits) and a channel side (counts and supported maps).
    Format and channel negotiation read disjoint parts of a device, so the
    model varies one side at a time: every nonempty format subset with a
    stereo-only channel side, and all four formats with each of five
    channel sides (stereo only; 2/6/8 without maps; FIXED stereo and two
    5.1 maps; VAR stereo, 5.1 and 7.1; FIXED stereo and an HDMI-order
    7.1).  The full product doubles the states without new outcomes of
    either negotiation.
  - Requests: every format but `Max` in stereo, and S16NE in each of
    stereo, 5.1 side, 5.1 back and 7.1.  Passthrough asks for 0, 2 or 8
    channels.  These reach the fallback loop through each of its
    branches, both outcomes of passthrough, an exact map, the alternate
    form, VAR rearrangement, the BestMatch fallback and the legacy
    layout.

| Run | cfg | Expect | What it shows |
|---|---|---|---|
| passthrough_addpackets | `MCAlsaPassthroughSink.cfg` | pass | `AddPacketsReturns`: every call returns, through underruns, suspends, drops, timeouts and failed initialisations.  `TypeOK` bounds `frames_written` by `frames`.  `FormatMatchesHardware`: a ready sink's recorded sample format is the one its stream was configured with, and a passthrough sink plays 16-bit samples, on every device and request.  `ChannelLayoutFits`: the recorded layout has exactly the channels opened.  `ChannelsCarried`: when the device lists a map holding exactly the requested channels (or their alternate form), a ready PCM sink's layout holds them all, despite the ignored `set_chmap` failure. |
| passthrough_stranded | `MCAlsaPassthroughSink_StartedAfterWrite.cfg` | violation | `StartedAfterWrite`: a suspend between the write and the `snd_pcm_state` check (lines 909-910), followed by a resume into PREPARED, leaves the stream holding frames that nothing starts.  Once the buffer is full, every later write times out. |

`createPassthrough` (line 65) never calls `initPassthrough` and falls off
its end without a `return`.  The model has this as the `CreatePassthrough`
action, which leaves the sink uninitialised.  No run checks it: the missing
return is a compiler diagnostic (`-Wreturn-type`), and nothing in the
repository calls either factory.

### Mutants
Every property of a passing run is broken by a plausible code change; see
`PROJECT.json` "mutants":
- the front-space test off by one;
- `onStop` not closing the handle;
- `enumerateDevice` not closing the handle after listing it;
- `AddPackets` not subtracting written frames from `data_left`;
- `AddPackets` continuing its loop when a write returns 0;
- the conversion loop bounded by the output rather than the input width;
- a specialisation returning `conf` with its codec unchanged;
- the `InitializeHW` fallback loop not resetting `fmt` when `set_format`
  fails;
- `GetChannelLayoutLegacy` not cutting its count to `maxChannels`;
- `SelectALSAChannelMap` taking the first map of the right count without
  testing its channels;
- `writeSimple` not taking the written frames off `frameCount`;
- `writeSimple` giving up on a write error without `snd_pcm_recover`.

## 3. Plan

In order of importance:
1. **Buffer**: done.
2. **AlsaSink**: device lifecycle and the `writeSimple` retry loop done.  Still to do is a liveness property
   that the sink plays again once a busy device is freed (it does not, see
   `NoCrash`), under weak fairness of `onProcess`: the scheduler keeps
   polling the source.
3. **ConverterChain**: done, with the abstract `ConverterSpec` and the
   refinement.  An odd byte count cannot arise from the repository's
   sources, which emit whole samples.
4. **Linking**: the `canIntersect` gate and the declared capabilities are
   done.  `link`'s unchecked re-linking and cycles are left to the callers,
   which are not in the repository.
5. **AlsaPassthroughSink**: device opening, enumeration and the playback
   lifecycle done, with the format and channel negotiation of
   `InitializeHW` and the channel-layout helpers.  `BestMatch` is a free
   choice; what it returns on real devices (and so whether the `best > 0`
   test at line 408 drops a good map) needs `AudioChannelLayout`, which is
   not in the repository.  Still to do: devices of more than 16 channels,
   which read past the legacy map (line 135), as a violation run.
6. **Mainloop** (spec-modelled, its code is absent):
   - polling of several sources;
   - `stop` from within a poll callback;
   - per-source ordering of activations at the sink;
   - an abstract "activations delivered in order" specification, with the
     composed Mainloop + converter chain + AlsaSink shown to refine it.

## 4. Not modelled

- **Device names.**  `aesParameters`, `GetParamFromName` and
  `ALSAchmapToString` build and parse strings; only their outcome (which
  device is opened) matters, and AlsaOpen takes it as given.
- **Sizes from InitializeHW.**  The period and buffer sizes ALSA grants are
  any of the model's `Grants`.
- **Ac3 framing.**  `doAc3Payload`'s IEC 61937 header and byte swap
  (line 420) use `SpdifAc3Header`, `AudioBuffer::prepend` and `grow`,
  none of which is in the repository; the model keeps only whether a
  payload fits one burst.
- **Util.cpp.**  Floating-point filter design; TLC has no reals.
- **Unused AlsaSink code.**  `open`, `setHwParams`, `setSwParams`,
  `setDelay` and `recover` are never called by the stage.
- **Others.**  The test driver's `main`, the build files, and the AirPlay
  sources' polling, of which only declarations are here.  Their `outCaps()`
  arrays are modelled in StageLink.
- **`link` at run time.**  Its one effect is `prev.m_next = &next`.  Which
  links an application makes, and so whether it relinks a node or closes
  a cycle, is decided by code outside the repository.
