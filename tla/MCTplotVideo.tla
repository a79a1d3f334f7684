----------------------------- MODULE MCTplotVideo -----------------------------
(* Instantiation of TplotVideo for TLC: every video of two to four frames *)
(* stamped within 0..4 with any key frames, and timeline times 0..5 (one  *)
(* past the last frame).                                                   *)
EXTENDS TplotVideo

MCStamps ==
  { s \in UNION {[1 .. n -> 0 .. 4] : n \in 2 .. 4} :
      \A i \in 1 .. Len(s) - 1 : s[i] < s[i + 1] }

MCFiles ==
  UNION { { [stamps |-> s, keys |-> {1} \cup x] : x \in SUBSET (2 .. Len(s)) } :
          s \in MCStamps }

=============================================================================
