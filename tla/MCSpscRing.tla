---------------------------- MODULE MCSpscRing ----------------------------
(* A small instance of SpscRing for TLC: slices and buffers of one and two   *)
(* stereo frames.                                                            *)
EXTENDS SpscRing

MCStereoLengths == {2, 4}
===========================================================================
