---------------------------- MODULE MCSvReceiver ----------------------------
(***************************************************************************)
(* Two subscribers of two streams, and frames for both; one is empty.      *)
(***************************************************************************)
EXTENDS SvReceiver, TLC

CONSTANTS s1, s2, a1, a2

TwoSubscribers == {s1, s2}
AppIds         == s1 :> 1 @@ s2 :> 2
Addrs          == s1 :> a1 @@ s2 :> a2
OwnFrames      == {[appId |-> 1, dest |-> a1, asdus |-> 1],
                   [appId |-> 2, dest |-> a2, asdus |-> 2],
                   [appId |-> 2, dest |-> a2, asdus |-> 0]}
=============================================================================
