----------------------------- MODULE MCRaopRtp ------------------------------
(* Streams of a few packets, whose sequence numbers wrap around.           *)
EXTENDS RaopRtp
Stream(n) == 0 .. n - 1
Stream1 == Stream(1)
Stream3 == Stream(3)
Stream4 == Stream(4)
Stream5 == Stream(5)
Stream6 == Stream(6)
Stream7 == Stream(7)
=============================================================================
