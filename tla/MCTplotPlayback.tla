--------------------------- MODULE MCTplotPlayback ---------------------------
(* Instantiation of TplotPlayback for TLC: two records and every log of   *)
(* up to three items whose timestamps never go back in file order.         *)
EXTENDS TplotPlayback

MCRecords == {"imu", "servo"}

MCStepValues == {1, -1}
MCSpeedValues == {2, -1}

MCItems == MCRecords \X (0 .. 2)

MCLogs ==
  {s \in UNION {[1 .. n -> MCItems] : n \in 1 .. 3} :
     \A i \in 1 .. Len(s) - 1 : s[i][2] <= s[i + 1][2]}
=============================================================================
