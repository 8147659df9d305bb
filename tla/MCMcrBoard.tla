---------------------------- MODULE MCMcrBoard ----------------------------
(* Instances of McrBoard: the bytes its program writes to the CTC.           *)
EXTENDS McrBoard

(* Channels 2 and 3 made to interrupt on every edge, and silenced.           *)
BeamWrites == {<<2, 197>>, <<2, 1>>, <<3, 197>>, <<3, 1>>}
=============================================================================
