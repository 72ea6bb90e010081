--------------------------- MODULE MCAlsaEnumerate ---------------------------
(***************************************************************************)
(* One card with an HDMI output and an analog output reached as "@" (front *)
(* hint with DEV=0), "@" with DEV=1 and sysdefault.  The card has a 7.1    *)
(* surround71 device and no surround40; another program may hold front,    *)
(* surround71 or sysdefault.                                               *)
(***************************************************************************)
EXTENDS AlsaEnumerate

MCTargets == {"@0", "@1", "sysdefault", "hdmi"}

MCExisting == {"surround51", "surround71", "sysdefault", "default", "front", "hdmi"}

MCContended == {"surround71", "sysdefault", "front"}

MCDevChannels ==
  [b \in {"surround40", "surround51", "surround71", "sysdefault", "default",
          "front", "hdmi"} |->
     CASE b = "surround40" -> 4
       [] b = "surround51" -> 6
       [] b = "surround71" -> 8
       [] b = "hdmi"       -> 8
       [] OTHER            -> 2]

MCMaxChannels == 16

=============================================================================
