--------------------------- MODULE MCRaopRtpMirror --------------------------
(* Streams of a few frames: codec data (1), video (0), other types (2).    *)
EXTENDS RaopRtpMirror
Video(n) == [type |-> 0, size |-> n]
Codec(n) == [type |-> 1, size |-> n]
Other(n) == [type |-> 2, size |-> n]
TwoFrames   == <<Codec(1), Video(2)>>
ThreeFrames == <<Codec(1), Other(0), Video(2)>>
FourFrames  == <<Codec(1), Video(2), Other(0), Video(1)>>
=============================================================================
