---------------------------- MODULE AlsaEnumerate ----------------------------
(***************************************************************************)
(* AlsaPassthroughSink::enumerateDevices and enumerateDevice              *)
(* (src/src/AlsaPassthroughSink.cpp, lines 1071-1275 and 1300-1497): for   *)
(* every output hint, open the device, query it, probe the channel counts  *)
(* 16 down to 1 (reopening "@" devices as surround40/51/71 at 4, 6 and 8   *)
(* channels), list it and close it.                                        *)
(*                                                                         *)
(* Each ALSA call on the handle is a step, because the devices are shared  *)
(* with other programs that open and close them between two calls.  The    *)
(* text of the entries (display names, rates, formats, channel maps) is    *)
(* left out; an entry is the hint name and the channel count found.        *)
(* snd_pcm_info and snd_pcm_hw_params_any fail at the environment's choice.*)
(* test_channels is taken to accept a count when the device the handle is  *)
(* open on has at least that many channels.                                *)
(***************************************************************************)
EXTENDS AlsaOpen, FiniteSets

CONSTANTS
  Targets,     \* names enumerateDevices passes to enumerateDevice
  Existing,    \* ALSA device bases present on the system
  Contended,   \* bases another program may hold open
  DevChannels, \* DevChannels[b]: channels device b accepts
  MaxChannels  \* ALSA_MAX_CHANNELS

ASSUME /\ Contended \subseteq Existing
       /\ MaxChannels \in Nat \ {0}

Bases == DOMAIN DevChannels

VARIABLES
  pc,       \* where enumerateDevices/enumerateDevice is
  target,   \* the device argument of enumerateDevice
  pcm,      \* pcmhandle
  live,     \* handles open and not yet closed
  ch,       \* loop counter i of the channel probe
  channels, \* channels found by the probe
  todo,     \* hints not enumerated yet
  listed,   \* the list being built
  held,     \* bases another program holds
  fault     \* the first ALSA call on a closed or null handle, if any

vars == <<pc, target, pcm, live, ch, channels, todo, listed, held, fault>>

Pcs == {"idle", "open", "info", "any", "chan", "tail", "end"}

Handle == [state : {"null", "open", "closed"},
           name : [dev : Bases \cup {"none"}, aes : BOOLEAN]]

TypeOK ==
  /\ pc \in Pcs
  /\ target \in Targets \cup {"none"}
  /\ pcm \in Handle
  /\ live \in 0..1
  /\ ch \in 0..MaxChannels
  /\ channels \in 0..MaxChannels
  /\ todo \subseteq Targets
  /\ listed \subseteq [name : Targets, channels : 0..MaxChannels]
  /\ held \subseteq Contended
  /\ fault \in {"none", "useAfterClose", "nullHandle"}

\* Names snd_pcm_open_lconf succeeds on now.
Avail == {[dev |-> b, aes |-> FALSE] : b \in Existing \ held}

\* AEDeviceTypeFromName, lines 1277-1285: only Pcm devices are reopened.
IsPcmType(name) == name \notin {"hdmi", "iec958", "spdif"}

ClosedPcm == [pcm EXCEPT !.state = "closed"]

-----------------------------------------------------------------------------
(* enumerateDevices, lines 1071-1275.                                     *)

\* The hint loop (1099-1161) calls enumerateDevice on the next hint.
NextHint ==
  /\ pc = "idle"
  /\ \E t \in todo :
       /\ target' = t
       /\ todo' = todo \ {t}
  /\ pc' = "open"
  /\ pcm' = NullPcm
  /\ UNCHANGED <<live, ch, channels, listed, held, fault>>

\* Lines 1174-1198: sysdefault entries of a card that also has an "@"
\* entry are removed.  All hints are on one card.
RemoveSysdefault(l) ==
  IF \E e \in l : IsMangled(e.name)
    THEN {e \in l : e.name # "sysdefault"}
    ELSE l

\* After the last hint, the list is filtered and returned.
Finish ==
  /\ pc = "idle"
  /\ todo = {}
  /\ listed' = RemoveSysdefault(listed)
  /\ pc' = "end"
  /\ UNCHANGED <<target, pcm, live, ch, channels, todo, held, fault>>

-----------------------------------------------------------------------------
(* enumerateDevice(list, device, ...), lines 1300-1497.                   *)

\* Lines 1302-1304: openAudioDevice(device, "", ALSA_MAX_CHANNELS); on
\* failure return.
Open ==
  /\ pc = "open"
  /\ LET r == OpenAudioDevice(target, MaxChannels, FALSE, NullPcm, live, Avail)
     IN /\ pcm' = r.pcm
        /\ live' = r.live
        /\ pc' = IF r.ok THEN "info" ELSE "idle"
  /\ UNCHANGED <<target, ch, channels, todo, listed, held, fault>>

\* Lines 1306-1315: snd_pcm_info; when it fails the handle is closed and the
\* function goes on.
Info ==
  /\ pc = "info"
  /\ \/ UNCHANGED <<pcm, live>>
     \/ /\ pcm' = ClosedPcm
        /\ live' = live - 1
  /\ pc' = "any"
  /\ UNCHANGED <<target, ch, channels, todo, listed, held, fault>>

\* Lines 1393-1403: snd_pcm_hw_params_any on the handle; when it fails the
\* handle is closed and the function returns.  On a closed handle the call
\* itself is the fault.
HwParamsAny ==
  /\ pc = "any"
  /\ IF pcm.state # "open"
       THEN /\ fault' = IF fault = "none" THEN "useAfterClose" ELSE fault
            /\ pc' = "end"
            /\ UNCHANGED <<pcm, live, ch>>
       ELSE /\ \/ /\ pcm' = ClosedPcm
                  /\ live' = live - 1
                  /\ pc' = "idle"
                  /\ UNCHANGED ch
               \/ /\ pc' = "chan"
                  /\ ch' = MaxChannels
                  /\ UNCHANGED <<pcm, live>>
            /\ UNCHANGED fault
  /\ UNCHANGED <<target, channels, todo, listed, held>>

\* Names snd_pcm_open_lconf succeeds on while the bases in h are held.
AvailWhile(h) == {[dev |-> b, aes |-> FALSE] : b \in Existing \ h}

\* The reopen of lines 1415-1417: openAudioDevice(device, "", i) from the
\* current handle.  TryDevice closes that handle before it opens the next
\* name, so another program may open any contended device during the call,
\* the one just closed included; it cannot take a device reused without
\* being closed.
Reopen(grab) ==
  OpenAudioDevice(target, ch, FALSE, pcm, live, AvailWhile(held \cup grab))

Grabbable ==
  IF Head(Attempts(target, ch, FALSE)) = pcm.name
    THEN Contended \ {pcm.name.dev}
    ELSE Contended

\* One iteration of the channel probe, lines 1411-1424: a Pcm device is
\* reopened for 8, 6 and 4 channels, ignoring the result, and
\* snd_pcm_hw_params_test_channels is called on whatever handle is left.
Chan ==
  /\ pc = "chan"
  /\ \E grab \in IF IsPcmType(target) /\ ch \in {8, 6, 4}
                    THEN SUBSET Grabbable ELSE {{}} :
     LET r == IF IsPcmType(target) /\ ch \in {8, 6, 4}
                THEN Reopen(grab)
                ELSE [ok |-> TRUE, pcm |-> pcm, live |-> live]
     IN /\ pcm' = r.pcm
        /\ live' = r.live
        /\ held' = held \cup grab
        /\ IF r.pcm.state # "open"
             THEN /\ fault' = IF fault = "none" THEN "nullHandle" ELSE fault
                  /\ pc' = "end"
                  /\ UNCHANGED <<ch, channels>>
             ELSE /\ UNCHANGED fault
                  /\ IF ch <= DevChannels[r.pcm.name.dev] \/ ch = 1
                       THEN /\ channels' = IF ch <= DevChannels[r.pcm.name.dev]
                                             THEN ch ELSE 0
                            /\ pc' = "tail"
                            /\ UNCHANGED ch
                       ELSE /\ ch' = ch - 1
                            /\ pc' = "chan"
                            /\ UNCHANGED channels
  /\ UNCHANGED <<target, todo, listed>>

AddEntryKeepsHandle ==
  /\ pc = "tail"
  /\ listed' = listed \cup {[name |-> target, channels |-> channels]}
  /\ pc' = "idle"
  /\ UNCHANGED <<target, pcm, live, ch, channels, todo, held, fault>>

\* Lines 1426-1497: the channel maps and sample formats are read from the
\* handle, the handle is closed and the entry appended.  (The "default"
\* branch of lines 1426-1433 is not reached: enumerateDevices never passes
\* "default", line 1089 being commented out.)
AddEntry ==
  /\ pc = "tail"
  /\ pcm' = ClosedPcm
  /\ live' = live - 1
  /\ listed' = listed \cup {[name |-> target, channels |-> channels]}
  /\ pc' = "idle"
  /\ UNCHANGED <<target, ch, channels, todo, held, fault>>

-----------------------------------------------------------------------------
(* Another program opens and closes devices.                              *)

OtherOpens(b) ==
  /\ b \notin held
  /\ ~(pcm.state = "open" /\ pcm.name.dev = b)
  /\ held' = held \cup {b}
  /\ UNCHANGED <<pc, target, pcm, live, ch, channels, todo, listed, fault>>

OtherCloses(b) ==
  /\ b \in held
  /\ held' = held \ {b}
  /\ UNCHANGED <<pc, target, pcm, live, ch, channels, todo, listed, fault>>

-----------------------------------------------------------------------------
Init ==
  /\ pc = "idle"
  /\ target = "none"
  /\ pcm = NullPcm
  /\ live = 0
  /\ ch = 0
  /\ channels = 0
  /\ todo = Targets
  /\ listed = {}
  /\ held = {}
  /\ fault = "none"

Next ==
  \/ NextHint
  \/ Finish
  \/ Open
  \/ Info
  \/ HwParamsAny
  \/ Chan
  \/ AddEntry
  \/ \E b \in Contended : OtherOpens(b)
  \/ \E b \in Contended : OtherCloses(b)

Spec == Init /\ [][Next]_vars

-----------------------------------------------------------------------------
(* Properties.                                                            *)

\* enumerateDevice holds at most one handle at a time and returns none open,
\* on every path: early returns after a failed open or hw_params_any, the
\* normal end, and the reopens of the channel probe, where TryDevice must
\* close the handle it does not reuse, whatever other programs hold.
HandleReleased ==
  /\ live <= 1
  /\ (pc \in {"idle", "end"} /\ fault = "none") => live = 0

\* No ALSA call is made on a handle enumerateDevice has closed: a failed
\* snd_pcm_info closes pcmhandle (line 1314) and execution goes on.
NoUseAfterClose == fault # "useAfterClose"

\* No ALSA call is made on a null handle: the reopen of the channel probe
\* (line 1417) ignores a failure, after TryDevice has already closed the
\* handle and set it to NULL, and test_channels then gets NULL.
NoNullHandle == fault # "nullHandle"

=============================================================================
