------------------------------ MODULE TplotVideo ------------------------------
(***************************************************************************)
(* tplot2's Video pane (src/utils/tplot2.cc): each frame of the main loop *)
(* calls Video::Update(current time), which seeks the file on a first     *)
(* call, a step back in time or a jump of more than a second, and         *)
(* otherwise decodes forward, unless the picture already shown is later   *)
(* than the requested time.  Decoding (ReadUntil) sends packets to the    *)
(* codec and takes decoded frames out until one is at or after the        *)
(* requested time.                                                         *)
(*                                                                         *)
(* The file is a sequence of video frames, their timestamps already in    *)
(* log time (log_start_ + time_offset_s_ + pts * time_base); packets of   *)
(* other streams, which the code skips, are left out.  The codec (ffmpeg, *)
(* outside this repository) returns its frames in order, CodecDelay       *)
(* packets behind the input, and keeps them across File::Seek, since the  *)
(* code never flushes it.                                                  *)
(***************************************************************************)
EXTENDS Integers, Sequences

CONSTANTS
  Files,        \* the video files: [stamps : Seq(Nat), keys : SUBSET Nat]
  Times,        \* the times the timeline may ask for
  SecondUnits,  \* time units in one second
  CodecDelay,   \* packets the decoder holds back before returning a frame
  NoTime        \* boost::posix_time::not_a_date_time, a model value

\* The constructor throws (einval) on a file whose codec never returns a
\* frame, so every opened file has more frames than the codec holds back.
ASSUME VideoAssumption ==
  /\ Files \subseteq [stamps : Seq(Nat), keys : SUBSET Nat]
  /\ \A f \in Files : /\ Len(f.stamps) > CodecDelay
                      /\ 1 \in f.keys /\ f.keys \subseteq 1 .. Len(f.stamps)
                      /\ \A i, j \in 1 .. Len(f.stamps) :
                           i < j => f.stamps[i] < f.stamps[j]
  /\ Times \subseteq Nat
  /\ SecondUnits \in Nat \ {0}
  /\ CodecDelay \in Nat
  /\ NoTime \notin Int

VARIABLES
  file,                  \* the opened file
  pos,                   \* the next packet File::Read returns
  pending,               \* frames sent to the codec and not yet returned
  shown,                 \* the frame stored in texture_, 0 before any
  last_timestamp,        \* last_timestamp_
  last_video_timestamp   \* last_video_timestamp_

vars == <<file, pos, pending, shown, last_timestamp, last_video_timestamp>>

Stamp(k) == file.stamps[k]
Frames == 1 .. Len(file.stamps)

(* boost's comparisons with not_a_date_time are false, so >= holds. *)
AtOrAfter(t, u) == IF u = NoTime THEN TRUE ELSE t >= u

-----------------------------------------------------------------------------
(* The frames the codec returns, in order, while the reader goes from     *)
(* packet p to the end of the file: first the CodecDelay frames it holds   *)
(* (q), then the packets read.  The j-th comes out when packet p + j - 1  *)
(* is sent.                                                                *)
Out(p, q) == q \o [i \in 1 .. Len(file.stamps) + 1 - p |-> p + i - 1]

(* The returned frames that end the loop: not discarded, and at or after t. *)
Stops(t, p, q, discard) ==
  {j \in 1 .. Len(file.stamps) + 1 - p :
     j > discard /\ Stamp(Out(p, q)[j]) >= t}

(* The loop of Video::ReadUntil(t, discard_first) from packet p, with the *)
(* codec holding the frames q (always CodecDelay of them): read a packet  *)
(* (at the end of the file, return), send it, take the frame the codec    *)
(* returns, drop it while discarding, else store it in the texture and    *)
(* stop once it is at or after t.  The loop ends at the first returned     *)
(* frame j of Stops, or at the end of the file with the last frame stored. *)
(* Returns the final [pos, pending, shown, last].                        *)
ReadLoop(t, p, q, discard, sh, last) ==
  LET out == Out(p, q)
      n == Len(file.stamps) + 1 - p
      stops == Stops(t, p, q, discard)
  IN IF stops # {}
     THEN LET j == CHOOSE j \in stops : \A i \in stops : j <= i
          IN [pos |-> p + j, pending |-> SubSeq(out, j + 1, j + CodecDelay),
              shown |-> out[j], last |-> Stamp(out[j])]
     ELSE [pos |-> p + n, pending |-> SubSeq(out, n + 1, n + CodecDelay),
           shown |-> IF n > discard THEN out[n] ELSE sh,
           last |-> IF n > discard THEN Stamp(out[n]) ELSE last]

(* Mutant: last_video_timestamp_ set to the requested time rather than  *)
(* the decoded frame's.                                                    *)
ReadUntil_RecordsRequest(t, discard) ==
  LET r == ReadLoop(t, pos, pending, discard, shown, last_video_timestamp)
  IN /\ pos' = r.pos
     /\ pending' = r.pending
     /\ shown' = r.shown
     /\ last_video_timestamp' = t

ReadUntil(t, discard) ==
  LET r == ReadLoop(t, pos, pending, discard, shown, last_video_timestamp)
  IN /\ pos' = r.pos
     /\ pending' = r.pending
     /\ shown' = r.shown
     /\ last_video_timestamp' = r.last

(* The packet File::Seek(stream, pts, backward) leaves the reader at: the  *)
(* last key frame at or before t, the first one if t is before it (the   *)
(* pts is clamped at 0).                                                   *)
SeekPos(t) ==
  LET before == {k \in file.keys : Stamp(k) <= t}
  IN IF before = {} THEN 1 ELSE CHOOSE k \in before : \A j \in before : j <= k

(* Mutant: Video::Seek decoding without discarding the first frame. *)
Seek_NoDiscard(t) ==
  LET r == ReadLoop(t, SeekPos(t), pending, 0, shown, NoTime)
  IN /\ pos' = r.pos
     /\ pending' = r.pending
     /\ shown' = r.shown
     /\ last_video_timestamp' = r.last

(* Video::Seek: forget the last picture's time, move the file to the key  *)
(* frame and decode, discarding the first frame the codec returns.         *)
Seek(t) ==
  LET r == ReadLoop(t, SeekPos(t), pending, 1, shown, NoTime)
  IN /\ pos' = r.pos
     /\ pending' = r.pending
     /\ shown' = r.shown
     /\ last_video_timestamp' = r.last

(* Video::Step: decode forward from where the file is. *)
Step(t) == ReadUntil(t, 0)

(* The test of Video::Update: a first call, a step back or a jump of more *)
(* than a second seeks.                                                    *)
NeedsSeek(t) ==
  IF last_timestamp = NoTime THEN TRUE
  ELSE t < last_timestamp \/ t - last_timestamp > SecondUnits

(* Video::Update(t).  The picture is re-drawn every frame; only the     *)
(* decoding changes state.                                                 *)
Update ==
  \E t \in Times :
    /\ \/ /\ NeedsSeek(t)
          /\ Seek(t)
       \/ /\ ~NeedsSeek(t)
          /\ AtOrAfter(t, last_video_timestamp)
          /\ Step(t)
       \/ /\ ~NeedsSeek(t)
          /\ ~AtOrAfter(t, last_video_timestamp)
          /\ UNCHANGED <<pos, pending, shown, last_video_timestamp>>
    /\ last_timestamp' = t
    /\ UNCHANGED file

(* The constructor reads packets until the codec returns its first frame *)
(* (whose pts becomes start_pts_); the texture stays empty.               *)
Init ==
  /\ file \in Files
  /\ pos = CodecDelay + 2
  /\ pending = [i \in 1 .. CodecDelay |-> i + 1]
  /\ shown = 0
  /\ last_timestamp = NoTime
  /\ last_video_timestamp = NoTime

Next == Update

Spec == Init /\ [][Next]_vars

-----------------------------------------------------------------------------
TypeOK ==
  /\ file \in Files
  /\ pos \in 1 .. Len(file.stamps) + 1
  /\ pending \in Seq(Frames)
  /\ shown \in 0 .. Len(file.stamps)
  /\ last_timestamp \in {NoTime} \cup Times
  /\ last_video_timestamp \in {NoTime} \cup {Stamp(k) : k \in Frames}

(* The first frame of the video at or after t. *)
FirstAtOrAfter(t) ==
  CHOOSE k \in Frames : Stamp(k) >= t /\ \A j \in Frames : Stamp(j) >= t => k <= j

(* The frames the codec can return without being drained: ReadUntil      *)
(* stops at the end of the file and never sends the codec the empty packet *)
(* that would flush its last CodecDelay frames.                            *)
Decodable == 1 .. Len(file.stamps) - CodecDelay

(* Whether some decodable frame is at or after t. *)
Covered(t) == \E k \in Decodable : Stamp(k) >= t

(* After every Update to a time t that a decodable frame is at or after,  *)
(* the picture shown is not behind t and no frame of the video lies       *)
(* strictly between t and it: seeking lands on a key frame early enough,  *)
(* the frame dropped after a seek is the codec's stale one and not a      *)
(* frame of the new position, and holding a picture that is ahead of t   *)
(* skips nothing.                                                          *)
NoFrameSkipped ==
  (last_timestamp # NoTime /\ Covered(last_timestamp)) =>
    /\ shown \in Frames
    /\ Stamp(shown) >= last_timestamp
    /\ \A k \in Frames : ~(last_timestamp < Stamp(k) /\ Stamp(k) < Stamp(shown))

(* After every Update to a time t that a decodable frame is at or after,  *)
(* the picture shown is the video's first frame at or after t, which is   *)
(* what ReadUntil's "last_video_timestamp_ >= timestamp" stop aims at.     *)
ShowsFirstFrameAt ==
  (last_timestamp # NoTime /\ Covered(last_timestamp))
    => shown = FirstAtOrAfter(last_timestamp)

=============================================================================
