---------------------------- MODULE MCPeerProxy -----------------------------
(* Small clusters for PeerProxy.                                           *)
EXTENDS PeerProxy

CONSTANTS m1, m2

OneWay == {<<m1, m2>>}
CutFault == [Clean EXCEPT !.cut = TRUE]
DelayFault == [Clean EXCEPT !.delay = TRUE]
DropFault == [Clean EXCEPT !.drop = TRUE]
Mangled == [Clean EXCEPT !.duplicate = TRUE, !.reorder = TRUE]
DelayOrDrop == {DelayFault, DropFault}
MangledOnly == {Mangled}
MangledOrCut == {Mangled, CutFault}
CutOnly == {CutFault}

NoAnswer == {<<>>}
OneAnswer == {<<"raw">>}
OneRequest == {<<"body">>}
Mixed == {<<"body", "nobody", "body">>, <<"head", "rest", "body", "raw">>}
=============================================================================
