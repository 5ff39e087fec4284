------------------------------ MODULE MCHttpd -------------------------------
(* Three senders: one with two requests, the name of a header cut in two,  *)
(* one whose request has no CSeq, and one that only connects.  A url is    *)
(* appended to as a body is, and left out.                                 *)
EXTENDS Httpd
CONSTANTS c1, c2, c3
CutCSeq == <<"CS", "eq">>
Request(url, headers, body, disconnect) ==
  [url |-> url, headers |-> headers, body |-> body, disconnect |-> disconnect]
Cut    == Request(<<>>, <<CutCSeq, <<"1">>>>, <<>>, FALSE)
Final  == Request(<<>>, <<CutCSeq, <<"2">>>>, <<"x">>, TRUE)
NoCSeq == Request(<<>>, <<>>, <<>>, FALSE)
ThreeSenders == c1 :> <<Cut, Final>> @@ c2 :> <<NoCSeq>> @@ c3 :> <<>>
=============================================================================
