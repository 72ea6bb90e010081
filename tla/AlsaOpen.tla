------------------------------ MODULE AlsaOpen ------------------------------
(***************************************************************************)
(* How AlsaPassthroughSink opens a device name (src/src/AlsaPassthroughSink *)
(* .cpp): openAudioDevice turns a name into a list of ALSA device names to  *)
(* try, TryDeviceWithParams tries each with and without the AES            *)
(* parameters, and TryDevice reuses, closes or opens the handle *pcmp.     *)
(*                                                                         *)
(* A device name is abstracted to its base (the part before ':'): "@0" is  *)
(* an "@:CARD=x" name whose DEV is absent or 0, "@1" one whose DEV is not  *)
(* 0; every other name is a base such as "hdmi" or "sysdefault".  An       *)
(* attempt is a base and whether the AES parameters are appended.  The     *)
(* handle is [state, name]: state "null" (a NULL pcm pointer), "open", or   *)
(* "closed" (snd_pcm_close was called and the pointer kept).  The result   *)
(* of a sequence of tries is [ok, pcm, live], live counting the handles    *)
(* this code holds open.                                                   *)
(***************************************************************************)
EXTENDS Naturals, Sequences, SequencesExt

NoName == [dev |-> "none", aes |-> FALSE]

NullPcm == [state |-> "null", name |-> NoName]

\* Names with the "@" prefix, which openAudioDevice mangles (line 1012).
IsMangled(name) == name \in {"@0", "@1"}

\* The surroundXX bases tried for a channel count: the switch of lines
\* 1020-1034 falls through to the devices with more channels.
SurroundBases(ch) ==
  CASE ch \in {3, 4} -> <<"surround40", "surround51", "surround71">>
    [] ch \in {5, 6} -> <<"surround51", "surround71">>
    [] ch \in {7, 8} -> <<"surround71">>
    [] OTHER         -> << >>

\* openAudioDevice(name, params, channels), lines 1008-1069: the bases it
\* tries, in order.  "sysdefault" and "default" only when DEV is absent or
\* 0 (1044-1053), then "front"; a name without "@" is tried as it is.
OpenBases(name, ch) ==
  IF IsMangled(name)
    THEN SurroundBases(ch)
         \o (IF name = "@0" THEN <<"sysdefault", "default">> ELSE << >>)
         \o <<"front">>
    ELSE <<name>>

\* TryDeviceWithParams(name, params), lines 992-1006: with the parameters
\* appended first when there are any, then without them.
WithParams(base, aes) ==
  IF aes THEN <<[dev |-> base, aes |-> TRUE], [dev |-> base, aes |-> FALSE]>>
  ELSE <<[dev |-> base, aes |-> FALSE]>>

Attempts(name, ch, aes) ==
  LET bases == OpenBases(name, ch) IN
    FlattenSeq([i \in 1..Len(bases) |-> WithParams(bases[i], aes)])

\* TryDevice(name, pcmp), lines 970-990: a handle open on the same name is
\* reused; any other open handle is closed and *pcmp set to NULL before
\* snd_pcm_open_lconf, which succeeds only on a name in avail and leaves
\* *pcmp NULL otherwise.
TryDevice(c, r, avail) ==
  IF r.pcm.state = "open" /\ r.pcm.name = c
    THEN [r EXCEPT !.ok = TRUE]
    ELSE LET live1 == IF r.pcm.state = "open" THEN r.live - 1 ELSE r.live IN
         IF c \in avail
           THEN [ok |-> TRUE, pcm |-> [state |-> "open", name |-> c],
                 live |-> live1 + 1]
           ELSE [ok |-> FALSE, pcm |-> NullPcm, live |-> live1]

\* The tries of one openAudioDevice call, stopping at the first success.
RECURSIVE TryEach(_, _, _)
TryEach(cs, r, avail) ==
  IF cs = << >> THEN [r EXCEPT !.ok = FALSE]
  ELSE LET t == TryDevice(Head(cs), r, avail) IN
       IF t.ok THEN t ELSE TryEach(Tail(cs), t, avail)

\* openAudioDevice(name, params, channels, pcmp): the result of its tries
\* from handle pcm with live handles open.
OpenAudioDevice(name, ch, aes, pcm, live, avail) ==
  TryEach(Attempts(name, ch, aes), [ok |-> FALSE, pcm |-> pcm, live |-> live],
          avail)

=============================================================================
