----------------------------- MODULE MCLogStream -----------------------------
(* Two writers with two lines each, so that stamps, inserts and publishes  *)
(* cross; a client that connects twice, so that it can resume; and a       *)
(* channel for one line, so that it fills up.                              *)
EXTENDS LogStream

CONSTANTS w1, w2, c1

MCWriters == {w1, w2}
=============================================================================
