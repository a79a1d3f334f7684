--------------------------- MODULE TplotVideoProofs ---------------------------
(***************************************************************************)
(* Proofs about tplot2's Video pane (TplotVideo) for every video file and  *)
(* every set of times, with a codec that holds one frame back, the delay   *)
(* Video::Seek's discard_first is written for: after every Update the      *)
(* picture is not behind the timeline and no frame lies between them.      *)
(***************************************************************************)
EXTENDS TplotVideo, WellFoundedInduction, SequenceTheorems, TLAPS

(* The inductive invariant, with the codec one frame behind the reader:  *)
(*  - it holds the frame just before the reader's packet;                 *)
(*  - a stored picture is two packets behind the reader, and              *)
(*    last_video_timestamp_ is its stamp;                                 *)
(*  - the frame before the picture is at or before the last time asked;  *)
(*  - a seek that ran off the end before storing a picture left the      *)
(*    reader at the end, and no decodable frame is at or after that time; *)
(*  - when one is, the picture is not behind it.                          *)
VInv ==
  /\ TypeOK
  /\ pos \in 2 .. Len(file.stamps) + 1
  /\ pending = <<pos - 1>>
  /\ last_video_timestamp # NoTime =>
       /\ shown \in Frames /\ shown = pos - 2
       /\ last_video_timestamp = Stamp(shown)
  /\ last_video_timestamp # NoTime /\ last_timestamp # NoTime =>
       shown = 1 \/ Stamp(shown - 1) <= last_timestamp
  /\ last_timestamp # NoTime /\ last_video_timestamp = NoTime =>
       pos = Len(file.stamps) + 1 /\ ~Covered(last_timestamp)
  /\ last_timestamp # NoTime /\ Covered(last_timestamp) =>
       Stamp(shown) >= last_timestamp

-----------------------------------------------------------------------------
(* Every non-empty set of naturals has a least element. *)
LEMMA NatLeast ==
  ASSUME NEW T, T \subseteq Nat, T # {}
  PROVE  \E x \in T : \A y \in T : x <= y
<1>1. PICK x \in T : \A y \in T : ~(<<y, x>> \in OpToRel(<, Nat))
  BY NatLessThanWellFounded, WFMin
<1>2. ASSUME NEW y \in T PROVE x <= y
  <2>1. ~(<<y, x>> \in OpToRel(<, Nat))
    BY <1>1
  <2>2. <<y, x>> \in Nat \X Nat
    OBVIOUS
  <2>3. ~(y < x)
    BY <2>1, <2>2, Zenon DEF OpToRel
  <2> QED
    BY <2>3
<1> QED
  BY <1>2

(* A subsequence from k to k is the one-element sequence of s[k]. *)
LEMMA SubSeqOne ==
  ASSUME NEW s \in Seq(Int), NEW k \in 1 .. Len(s)
  PROVE  SubSeq(s, k, k) = <<s[k]>>
<1>1. SubSeq(s, k, k) = <<s[k]>> \o SubSeq(s, k + 1, k)
  BY SubSeqRecursiveFirst
<1>2. SubSeq(s, k + 1, k) = << >>
  BY SubSeqEmpty
<1>3. <<s[k]>> \in Seq(Int)
  OBVIOUS
<1> QED
  BY <1>1, <1>2, <1>3, ConcatEmptySeq

(* What the assumption gives about the opened file. *)
LEMMA FileFacts ==
  ASSUME file \in Files
  PROVE  /\ Len(file.stamps) \in Nat \ {0}
         /\ Len(file.stamps) > CodecDelay
         /\ \A k \in Frames : Stamp(k) \in Nat
         /\ \A i, j \in Frames : i < j => Stamp(i) < Stamp(j)
         /\ 1 \in file.keys /\ file.keys \subseteq Frames
  BY VideoAssumption DEF Frames, Stamp

(* With the codec one frame behind, the loop of ReadUntil from packet p    *)
(* either stops at the first returned frame j that is not discarded and is *)
(* at or after t, or reads to the end; the frame out[j] is the codec's     *)
(* held frame c for j = 1 and packet p + j - 2 after it.                   *)
LoopResult(t, p, c, discard, sh0, last0) ==
  LET n == Len(file.stamps) + 1 - p
      out == Out(p, <<c>>)
      r == ReadLoop(t, p, <<c>>, discard, sh0, last0)
  IN  /\ n \in Nat
      /\ out[1] = c /\ \A j \in 2 .. n + 1 : out[j] = p + j - 2
      /\ \A j \in 1 .. n + 1 : out[j] \in Frames
      /\ \/ \E j \in 1 .. n :
              /\ j > discard /\ Stamp(out[j]) >= t
              /\ \A i \in 1 .. j - 1 : i > discard => Stamp(out[i]) < t
              /\ r.pos = p + j /\ r.pending = <<out[j + 1]>>
              /\ r.shown = out[j] /\ r.last = Stamp(out[j])
         \/ /\ \A i \in 1 .. n : i > discard => Stamp(out[i]) < t
            /\ r.pos = p + n /\ r.pending = <<out[n + 1]>>
            /\ n > discard => r.shown = out[n] /\ r.last = Stamp(out[n])
            /\ n <= discard => r.shown = sh0 /\ r.last = last0

LEMMA ReadLoopCases ==
  ASSUME file \in Files, CodecDelay = 1,
         NEW t \in Int, NEW p \in 1 .. Len(file.stamps) + 1, NEW c \in Frames,
         NEW discard \in {0, 1}, NEW sh0, NEW last0
  PROVE  LoopResult(t, p, c, discard, sh0, last0)
<1> DEFINE L == Len(file.stamps)
           n == L + 1 - p
           out == Out(p, <<c>>)
           stops == Stops(t, p, <<c>>, discard)
<1>1. L \in Nat \ {0} /\ n \in Nat /\ \A k \in Frames : Stamp(k) \in Nat
  BY FileFacts
<1>2. /\ out \in Seq(Int) /\ Len(out) = n + 1
      /\ out[1] = c /\ \A j \in 2 .. n + 1 : out[j] = p + j - 2
  BY <1>1 DEF Out, Frames
<1>3. \A j \in 1 .. n + 1 : out[j] \in Frames
  <2>1. out[1] \in Frames
    BY <1>2
  <2>2. ASSUME NEW j \in 2 .. n + 1 PROVE out[j] \in Frames
    <3>1. out[j] = p + j - 2
      BY <1>2
    <3>2. p + j - 2 \in 1 .. L
      BY <1>1
    <3> QED
      BY <3>1, <3>2 DEF Frames
  <2> QED
    BY <2>1, <2>2
<1>4. stops = {j \in 1 .. n : j > discard /\ Stamp(out[j]) >= t}
  BY DEF Stops
<1>5. CASE stops # {}
  <2> DEFINE j == CHOOSE j \in stops : \A i \in stops : j <= i
  <2>1. \E x \in stops : \A y \in stops : x <= y
    BY <1>4, <1>5, NatLeast
  <2>2. j \in stops /\ \A i \in stops : j <= i
    BY <2>1, Zenon
  <2> HIDE DEF j
  <2>3. j \in 1 .. n /\ j > discard /\ Stamp(out[j]) >= t
    BY <1>4, <2>2
  <2>20. j + 1 \in 1 .. Len(out)
    <3>1. j + 1 \in 1 .. n + 1
      BY <1>1, <2>3
    <3> QED
      BY <1>2, <3>1, Zenon
  <2>4. ASSUME NEW i \in 1 .. j - 1, i > discard PROVE Stamp(out[i]) < t
    <3>1. i \in 1 .. n /\ Stamp(out[i]) \in Nat
      <4>1. i \in 1 .. n
        BY <1>1, <2>3
      <4>2. out[i] \in Frames
        BY <1>3, <4>1
      <4> QED
        BY <1>1, <4>1, <4>2
    <3>2. ~(i \in stops)
      BY <2>2, <2>3, <3>1
    <3> QED
      BY <1>4, <3>1, <3>2, <2>4
  <2>6. ReadLoop(t, p, <<c>>, discard, sh0, last0)
          = [pos |-> p + j, pending |-> SubSeq(out, j + 1, j + CodecDelay),
             shown |-> out[j], last |-> Stamp(out[j])]
    BY <1>5 DEF ReadLoop, j
  <2>12. SubSeq(out, j + 1, j + 1) = <<out[j + 1]>>
    <3>1. j + 1 \in 1 .. Len(out)
      BY <2>20
    <3> QED
      BY <1>2, <3>1, SubSeqOne
  <2>8. ReadLoop(t, p, <<c>>, discard, sh0, last0).pos = p + j
    BY <2>6
  <2>13. SubSeq(out, j + 1, j + CodecDelay) = SubSeq(out, j + 1, j + 1)
    OBVIOUS
  <2>14. ReadLoop(t, p, <<c>>, discard, sh0, last0).pending = SubSeq(out, j + 1, j + CodecDelay)
    BY <2>6
  <2>9. ReadLoop(t, p, <<c>>, discard, sh0, last0).pending = <<out[j + 1]>>
    BY <2>12, <2>13, <2>14, Zenon
  <2>10. ReadLoop(t, p, <<c>>, discard, sh0, last0).shown = out[j]
    BY <2>6
  <2>11. ReadLoop(t, p, <<c>>, discard, sh0, last0).last = Stamp(out[j])
    BY <2>6
  <2>7. /\ ReadLoop(t, p, <<c>>, discard, sh0, last0).pos = p + j
        /\ ReadLoop(t, p, <<c>>, discard, sh0, last0).pending = <<out[j + 1]>>
        /\ ReadLoop(t, p, <<c>>, discard, sh0, last0).shown = out[j]
        /\ ReadLoop(t, p, <<c>>, discard, sh0, last0).last = Stamp(out[j])
    BY <2>8, <2>9, <2>10, <2>11
  <2>15. \E k \in 1 .. n :
           /\ k > discard /\ Stamp(out[k]) >= t
           /\ \A i \in 1 .. k - 1 : i > discard => Stamp(out[i]) < t
           /\ ReadLoop(t, p, <<c>>, discard, sh0, last0).pos = p + k
           /\ ReadLoop(t, p, <<c>>, discard, sh0, last0).pending = <<out[k + 1]>>
           /\ ReadLoop(t, p, <<c>>, discard, sh0, last0).shown = out[k]
           /\ ReadLoop(t, p, <<c>>, discard, sh0, last0).last = Stamp(out[k])
    BY <2>3, <2>4, <2>7, Zenon
  <2> QED
    BY <1>1, <1>2, <1>3, <2>15, Zenon DEF LoopResult
<1>6. CASE stops = {}
  <2>1. \A i \in 1 .. n : i > discard => Stamp(out[i]) < t
    <3> SUFFICES ASSUME NEW i \in 1 .. n, i > discard PROVE Stamp(out[i]) < t
      OBVIOUS
    <3>1. ~(Stamp(out[i]) >= t)
      BY <1>4, <1>6, Zenon
    <3>2. Stamp(out[i]) \in Nat
      <4>1. out[i] \in Frames
        BY <1>3
      <4> QED
        BY <1>1, <4>1
    <3> QED
      BY <3>1, <3>2
  <2>2. SubSeq(out, n + 1, n + CodecDelay) = <<out[n + 1]>>
    <3>1. n + 1 \in 1 .. Len(out)
      BY <1>1, <1>2
    <3> QED
      BY <1>2, <3>1, SubSeqOne
  <2>3. ReadLoop(t, p, <<c>>, discard, sh0, last0)
          = [pos |-> p + n, pending |-> SubSeq(out, n + 1, n + CodecDelay),
             shown |-> IF n > discard THEN out[n] ELSE sh0,
             last |-> IF n > discard THEN Stamp(out[n]) ELSE last0]
    BY <1>6 DEF ReadLoop
  <2>4. /\ ReadLoop(t, p, <<c>>, discard, sh0, last0).pos = p + n
        /\ ReadLoop(t, p, <<c>>, discard, sh0, last0).pending = <<out[n + 1]>>
        /\ n > discard => /\ ReadLoop(t, p, <<c>>, discard, sh0, last0).shown = out[n]
                          /\ ReadLoop(t, p, <<c>>, discard, sh0, last0).last = Stamp(out[n])
        /\ n <= discard => /\ ReadLoop(t, p, <<c>>, discard, sh0, last0).shown = sh0
                           /\ ReadLoop(t, p, <<c>>, discard, sh0, last0).last = last0
    BY <2>2, <2>3
  <2> QED
    BY <1>1, <1>2, <1>3, <2>1, <2>4 DEF LoopResult
<1> QED
  BY <1>5, <1>6

(* Stamps do not decrease along the file. *)
LEMMA StampMono ==
  ASSUME file \in Files, NEW i \in Frames, NEW j \in Frames, i <= j
  PROVE  Stamp(i) <= Stamp(j)
<1>0. Stamp(i) \in Nat /\ Stamp(j) \in Nat
  BY FileFacts
<1>1. CASE i = j
  BY <1>0, <1>1
<1>2. CASE i # j
  <2>1. i < j
    BY <1>2 DEF Frames
  <2> QED
    BY <2>1, FileFacts
<1> QED
  BY <1>1, <1>2

(* File::Seek leaves the reader on a key frame, and that frame is at or   *)
(* before t unless t is before every key frame (then it is the first).    *)
LEMMA SeekPosFacts ==
  ASSUME file \in Files, NEW t \in Int
  PROVE  /\ SeekPos(t) \in file.keys /\ SeekPos(t) \in Frames
         /\ SeekPos(t) = 1 \/ Stamp(SeekPos(t)) <= t
<1> DEFINE before == {k \in file.keys : Stamp(k) <= t}
           L == Len(file.stamps)
<1>1. /\ 1 \in file.keys /\ file.keys \subseteq Frames /\ L \in Nat
  BY FileFacts
<1>2. CASE before = {}
  BY <1>1, <1>2 DEF SeekPos
<1>3. CASE before # {}
  <2> DEFINE U == {L - k : k \in before}
  <2>1. U \subseteq Nat /\ U # {}
    BY <1>1, <1>3 DEF Frames
  <2>2. PICK x \in U : \A y \in U : x <= y
    BY <2>1, NatLeast
  <2>3. PICK m \in before : x = L - m
    BY <2>2
  <2>4. ASSUME NEW j \in before PROVE j <= m
    <3>1. L - j \in U
      OBVIOUS
    <3>2. x <= L - j
      BY <2>2, <3>1
    <3> QED
      BY <1>1, <2>3, <3>2 DEF Frames
  <2>5. \E k \in before : \A j \in before : j <= k
    BY <2>4
  <2>6. SeekPos(t) = CHOOSE k \in before : \A j \in before : j <= k
    BY <1>3 DEF SeekPos
  <2>7. SeekPos(t) \in before
    BY <2>5, <2>6, Zenon
  <2> QED
    BY <1>1, <2>7
<1> QED
  BY <1>2, <1>3

(* A time no decodable frame reaches is not reached by a later one. *)
LEMMA CoveredAntitone ==
  ASSUME file \in Files, NEW t \in Int, NEW u \in Int, t <= u, ~Covered(t)
  PROVE  ~Covered(u)
<1> SUFFICES ASSUME NEW k \in Decodable, Stamp(k) >= u PROVE FALSE
  BY DEF Covered
<1>1. k \in Frames
  BY VideoAssumption DEF Decodable, Frames
<1>2. Stamp(k) \in Nat
  BY <1>1, FileFacts
<1>3. Stamp(k) >= t
  BY <1>2
<1> QED
  BY <1>3 DEF Covered

(* The state the constructor leaves satisfies the invariant. *)
LEMMA VInvInit ==
  ASSUME CodecDelay = 1
  PROVE  Init => VInv
<1> SUFFICES ASSUME Init PROVE VInv
  OBVIOUS
<1>1. Len(file.stamps) \in Nat /\ Len(file.stamps) >= 2
  BY FileFacts DEF Init
<1>2. pending = <<2>>
  BY DEF Init
<1>3. pos = 3 /\ shown = 0 /\ last_timestamp = NoTime /\ last_video_timestamp = NoTime
  BY DEF Init
<1>4. TypeOK
  BY <1>1, <1>2, <1>3 DEF Init, TypeOK, Frames
<1> QED
  BY <1>1, <1>2, <1>3, <1>4 DEF VInv

(* The invariant gives NoFrameSkipped: the frames before the picture are *)
(* at or before the time asked, those after it are after the picture.    *)
LEMMA VInvNoSkip ==
  ASSUME VInv
  PROVE  NoFrameSkipped
<1> SUFFICES ASSUME last_timestamp # NoTime, Covered(last_timestamp)
             PROVE  /\ shown \in Frames
                    /\ Stamp(shown) >= last_timestamp
                    /\ \A k \in Frames : ~(last_timestamp < Stamp(k) /\ Stamp(k) < Stamp(shown))
  BY DEF NoFrameSkipped
<1>1. file \in Files /\ last_timestamp \in Nat
  BY VideoAssumption DEF VInv, TypeOK
<1>2. last_video_timestamp # NoTime
  BY DEF VInv
<1>3. /\ shown \in Frames /\ Stamp(shown) >= last_timestamp
      /\ shown = 1 \/ Stamp(shown - 1) <= last_timestamp
  BY <1>2 DEF VInv
<1>4. ASSUME NEW k \in Frames, last_timestamp < Stamp(k), Stamp(k) < Stamp(shown)
      PROVE  FALSE
  <2>1. CASE k < shown
    <3>1. shown # 1 /\ shown - 1 \in Frames /\ k <= shown - 1
      BY <2>1, <1>3 DEF Frames
    <3>2. Stamp(k) <= Stamp(shown - 1)
      BY <1>1, <3>1, StampMono
    <3> QED
      BY <1>1, <1>3, <1>4, <3>1, <3>2, FileFacts
  <2>2. CASE k >= shown
    <3>1. Stamp(shown) <= Stamp(k)
      BY <1>1, <1>3, <2>2, StampMono
    <3> QED
      BY <1>1, <1>3, <1>4, <3>1, FileFacts
  <2> QED
    BY <2>1, <2>2, <1>3 DEF Frames
<1> QED
  BY <1>3, <1>4

(* Update without a seek, to a time before the picture shown: nothing is *)
(* decoded, and the picture stays ahead of the new time.                 *)
LEMMA HoldKeeps ==
  ASSUME VInv, NEW t \in Times, ~NeedsSeek(t), ~AtOrAfter(t, last_video_timestamp),
         UNCHANGED <<file, pos, pending, shown, last_video_timestamp>>,
         last_timestamp' = t
  PROVE  VInv'
<1>1. /\ file \in Files /\ last_timestamp \in Nat /\ t \in Nat
      /\ last_timestamp # NoTime /\ t >= last_timestamp
  BY VideoAssumption DEF VInv, TypeOK, NeedsSeek
<1>2. last_video_timestamp # NoTime
  BY DEF AtOrAfter
<1>3. /\ shown \in Frames /\ last_video_timestamp = Stamp(shown)
      /\ shown = 1 \/ Stamp(shown - 1) <= last_timestamp
  BY <1>1, <1>2 DEF VInv
<1>6. Stamp(shown) \in Nat /\ t < Stamp(shown)
  <2>1. Stamp(shown) \in Nat
    BY <1>1, <1>3, FileFacts
  <2> QED
    BY <1>1, <1>2, <1>3, <2>1 DEF AtOrAfter
<1>4. shown = 1 \/ Stamp(shown - 1) <= t
  <2>1. CASE shown # 1
    <3>1. shown - 1 \in Frames
      BY <2>1, <1>3 DEF Frames
    <3>2. Stamp(shown - 1) \in Nat
      BY <1>1, <3>1, FileFacts
    <3> QED
      BY <1>1, <1>3, <2>1, <3>2
  <2> QED
    BY <2>1
<1>5. TypeOK'
  BY <1>1 DEF VInv, TypeOK, Frames, Stamp
<1> QED
  BY <1>1, <1>2, <1>3, <1>4, <1>5, <1>6 DEF VInv, Frames, Stamp

(* What a decoding Update must establish, stated on the new values P, S *)
(* and V of pos, shown and last_video_timestamp, for the invariant to    *)
(* hold after it.                                                         *)
PostOK(t, P, S, V) ==
  /\ P \in 2 .. Len(file.stamps) + 1 /\ S \in 0 .. Len(file.stamps)
  /\ \/ V = NoTime
     \/ S \in Frames /\ S = P - 2 /\ V = Stamp(S)
  /\ V # NoTime => (S = 1 \/ Stamp(S - 1) <= t)
  /\ V = NoTime => P = Len(file.stamps) + 1 /\ ~Covered(t)
  /\ Covered(t) => Stamp(S) >= t

(* A decoding Update that establishes PostOK keeps the invariant. *)
LEMMA VInvPrime ==
  ASSUME CodecDelay = 1, file \in Files, file' = file,
         NEW t \in Times, last_timestamp' = t,
         NEW P, NEW S, NEW V, PostOK(t, P, S, V),
         pos' = P, pending' = <<P - 1>>, shown' = S, last_video_timestamp' = V
  PROVE  VInv'
<1> USE DEF PostOK
<1>1. Len(file.stamps) \in Nat
  BY FileFacts
<1>2. <<P - 1>> \in Seq(Frames)
  <2>1. P - 1 \in Frames
    BY <1>1 DEF Frames
  <2> QED
    BY <2>1
<1>3. V \in {NoTime} \cup {Stamp(k) : k \in Frames}
  BY Zenon
<1>4. t \in {NoTime} \cup Times
  OBVIOUS
<1>5. TypeOK'
  <2>1. Frames' = Frames /\ {Stamp(k) : k \in Frames}' = {Stamp(k) : k \in Frames}
    BY DEF Frames, Stamp
  <2>2. P \in 1 .. Len(file'.stamps) + 1 /\ S \in 0 .. Len(file'.stamps)
    BY <1>1
  <2> QED
    BY <1>2, <1>3, <1>4, <2>1, <2>2 DEF TypeOK
<1>6. Covered(t)' = Covered(t)
  BY DEF Covered, Decodable, Stamp
<1>7. Stamp(shown)' = Stamp(S) /\ Stamp(shown - 1)' = Stamp(S - 1) /\ Frames' = Frames
  BY DEF Stamp, Frames
<1>8. P \in 2 .. Len(file'.stamps) + 1
  BY <1>1
<1> QED
  BY <1>5, <1>6, <1>7, <1>8 DEF VInv

(* Update without a seek, to a time at or after the picture shown:       *)
(* Video::Step decodes forward from the reader's packet.                 *)
LEMMA StepKeeps ==
  ASSUME CodecDelay = 1, VInv, NEW t \in Times, ~NeedsSeek(t),
         AtOrAfter(t, last_video_timestamp), Step(t),
         last_timestamp' = t, UNCHANGED file
  PROVE  VInv'
<1> DEFINE L == Len(file.stamps)
           n == L + 1 - pos
           out == Out(pos, <<pos - 1>>)
           r == ReadLoop(t, pos, <<pos - 1>>, 0, shown, last_video_timestamp)
<1>1. /\ file \in Files /\ L \in Nat
      /\ pos \in 2 .. L + 1 /\ pending = <<pos - 1>> /\ shown \in 0 .. L
  BY FileFacts DEF VInv, TypeOK
<1>2. /\ last_timestamp # NoTime /\ t >= last_timestamp
      /\ t \in Nat /\ last_timestamp \in Nat
  <2>1. last_timestamp # NoTime
    BY DEF NeedsSeek
  <2>2. t \in Nat /\ last_timestamp \in Nat
    BY <2>1, VideoAssumption DEF VInv, TypeOK
  <2> QED
    BY <2>1, <2>2 DEF NeedsSeek
<1>3. /\ t \in Int /\ pos \in 1 .. Len(file.stamps) + 1 /\ pos - 1 \in Frames
      /\ 0 \in {0, 1}
  BY <1>1, <1>2 DEF Frames
<1>9. pos' = r.pos /\ pending' = r.pending /\ shown' = r.shown
      /\ last_video_timestamp' = r.last
  BY <1>1 DEF Step, ReadUntil
<1>4. LoopResult(t, pos, pos - 1, 0, shown, last_video_timestamp)
  BY <1>1, <1>3, ReadLoopCases
<1>10. /\ n \in Nat
       /\ out[1] = pos - 1 /\ \A j \in 2 .. n + 1 : out[j] = pos + j - 2
       /\ \A j \in 1 .. n + 1 : out[j] \in Frames
  BY <1>4 DEF LoopResult
<1>11. \/ \E j \in 1 .. n :
            /\ j > 0 /\ Stamp(out[j]) >= t
            /\ \A i \in 1 .. j - 1 : i > 0 => Stamp(out[i]) < t
            /\ r.pos = pos + j /\ r.pending = <<out[j + 1]>>
            /\ r.shown = out[j] /\ r.last = Stamp(out[j])
       \/ /\ \A i \in 1 .. n : i > 0 => Stamp(out[i]) < t
          /\ r.pos = pos + n /\ r.pending = <<out[n + 1]>>
          /\ n > 0 => r.shown = out[n] /\ r.last = Stamp(out[n])
          /\ n <= 0 => r.shown = shown /\ r.last = last_video_timestamp
  BY <1>4, Zenon DEF LoopResult
<1>5. CASE last_video_timestamp = NoTime
  <2>1. pos = L + 1 /\ ~Covered(last_timestamp)
    BY <1>2, <1>5 DEF VInv
  <2>2. n = 0
    BY <1>1, <2>1
  <2>3. r.pos = pos /\ r.pending = <<pos - 1>> /\ r.shown = shown /\ r.last = NoTime
    <3>1. /\ r.pos = pos + n /\ r.pending = <<out[n + 1]>>
          /\ r.shown = shown /\ r.last = last_video_timestamp
      BY <1>11, <2>2
    <3>2. out[n + 1] = pos - 1
      BY <1>10, <2>2
    <3>3. r.pending = <<pos - 1>>
      BY <3>1, <3>2, Zenon
    <3> QED
      BY <1>1, <1>5, <2>2, <3>1, <3>3
  <2>4. ~Covered(t)
    BY <1>1, <1>2, <2>1, CoveredAntitone
  <2>5. /\ pos' = pos /\ pending' = <<pos - 1>> /\ shown' = shown
        /\ last_video_timestamp' = NoTime
    BY <1>9, <2>3
  <2>6. PostOK(t, pos, shown, NoTime)
    <3>1. pos \in 2 .. Len(file.stamps) + 1 /\ shown \in 0 .. Len(file.stamps)
      BY <1>1
    <3>2. pos = Len(file.stamps) + 1 /\ ~Covered(t)
      BY <2>1, <2>4, Zenon
    <3> QED
      BY <3>1, <3>2 DEF PostOK
  <2> QED
    BY <1>1, <1>2, <2>5, <2>6, VInvPrime
<1>6. CASE last_video_timestamp # NoTime
  <2>1. /\ shown \in Frames /\ shown = pos - 2 /\ last_video_timestamp = Stamp(shown)
        /\ shown = 1 \/ Stamp(shown - 1) <= last_timestamp
    BY <1>2, <1>6 DEF VInv
  <2>2. Stamp(shown) \in Nat /\ Stamp(shown) <= t
    BY <1>1, <1>2, <1>6, <2>1, FileFacts DEF AtOrAfter
  <2>3. \A j \in 1 .. n + 1 : out[j] = pos + j - 2 /\ out[j] \in Frames
    <3>1. out[1] = pos + 1 - 2
      BY <1>1, <1>10
    <3> QED
      BY <1>10, <3>1
  <2>4. CASE \E j \in 1 .. n :
               /\ j > 0 /\ Stamp(out[j]) >= t
               /\ \A i \in 1 .. j - 1 : i > 0 => Stamp(out[i]) < t
               /\ r.pos = pos + j /\ r.pending = <<out[j + 1]>>
               /\ r.shown = out[j] /\ r.last = Stamp(out[j])
    <3>1. PICK j \in 1 .. n :
               /\ Stamp(out[j]) >= t
               /\ \A i \in 1 .. j - 1 : Stamp(out[i]) < t
               /\ r.pos = pos + j /\ r.pending = <<out[j + 1]>>
               /\ r.shown = out[j] /\ r.last = Stamp(out[j])
      BY <2>4
    <3>2. out[j] = pos + j - 2 /\ out[j + 1] = pos + j - 1 /\ pos + j - 2 \in Frames
      <4>1. j \in 1 .. n + 1 /\ j + 1 \in 1 .. n + 1
        BY <1>10
      <4>2. out[j] = pos + j - 2 /\ out[j] \in Frames
        BY <2>3, <4>1
      <4>3. out[j + 1] = pos + (j + 1) - 2
        BY <2>3, <4>1
      <4>4. pos + (j + 1) - 2 = pos + j - 1
        BY <1>1, <4>1
      <4> QED
        BY <4>2, <4>3, <4>4, Zenon
    <3>3. pos' = pos + j
      BY <1>9, <3>1
    <3>4. pending' = <<pos + j - 1>>
      BY <1>9, <3>1, <3>2, Zenon
    <3>5. shown' = pos + j - 2 /\ last_video_timestamp' = Stamp(pos + j - 2)
      BY <1>9, <3>1, <3>2, Zenon
    <3>6. pos + j - 2 = 1 \/ Stamp(pos + j - 2 - 1) <= t
      <4>1. CASE j = 1
        <5>1. pos + j - 2 - 1 = shown
          BY <1>1, <2>1, <4>1
        <5> QED
          BY <2>2, <5>1
      <4>2. CASE j > 1
        <5>1. j - 1 \in 1 .. j - 1 /\ out[j - 1] = pos + j - 2 - 1
          BY <1>1, <1>10, <2>3, <4>2
        <5>2. Stamp(out[j - 1]) < t /\ Stamp(out[j - 1]) \in Nat
          <6>1. Stamp(out[j - 1]) < t
            BY <3>1, <5>1
          <6>2. j - 1 \in 1 .. n + 1
            BY <1>10, <5>1
          <6>3. out[j - 1] \in Frames
            BY <2>3, <6>2
          <6> QED
            BY <1>1, <6>1, <6>3, FileFacts
        <5> QED
          BY <1>2, <5>1, <5>2
      <4> QED
        BY <4>1, <4>2
    <3>7. Stamp(pos + j - 2) \in Nat /\ Stamp(pos + j - 2) >= t
      BY <1>1, <3>1, <3>2, FileFacts
    <3>8. PostOK(t, pos + j, pos + j - 2, Stamp(pos + j - 2))
      <4> DEFINE P0 == pos + j
                 S0 == pos + j - 2
                 V0 == Stamp(pos + j - 2)
      <4>1. P0 \in 2 .. Len(file.stamps) + 1 /\ S0 \in 0 .. Len(file.stamps)
        BY <1>1, <3>2 DEF Frames
      <4>2. V0 # NoTime
        BY <3>7, VideoAssumption
      <4>3. S0 \in Frames /\ S0 = P0 - 2 /\ V0 = Stamp(S0)
        BY <1>1, <3>2
      <4>7. pos + j - 2 = 1 \/ Stamp(pos + j - 2 - 1) <= t
        BY <3>6
      <4>4. S0 = 1 \/ Stamp(S0 - 1) <= t
        BY <1>1, <3>2, <4>7 DEF S0, Stamp
      <4>5. Covered(t) => Stamp(S0) >= t
        BY <3>7
      <4> HIDE DEF P0, S0, V0
      <4>6. PostOK(t, P0, S0, V0)
        BY <4>1, <4>2, <4>3, <4>4, <4>5 DEF PostOK
      <4> QED
        BY <4>6 DEF P0, S0, V0
    <3>9. pending' = <<(pos + j) - 1>>
      BY <1>1, <3>4
    <3> QED
      BY <1>1, <1>2, <3>3, <3>5, <3>8, <3>9, VInvPrime
  <2>5. CASE /\ \A i \in 1 .. n : i > 0 => Stamp(out[i]) < t
             /\ r.pos = pos + n /\ r.pending = <<out[n + 1]>>
             /\ n > 0 => r.shown = out[n] /\ r.last = Stamp(out[n])
             /\ n <= 0 => r.shown = shown /\ r.last = last_video_timestamp
    <3>0. L >= 2 /\ L - 1 \in Frames /\ L \in Frames /\ pos >= 3
      BY <1>1, <2>1, FileFacts DEF Frames
    <3>1. pos' = L + 1 /\ pending' = <<(L + 1) - 1>>
      <4>1. out[n + 1] = L
        <5>1. CASE n = 0
          BY <1>1, <1>10, <5>1
        <5>2. CASE n > 0
          <6>1. n + 1 \in 2 .. n + 1 /\ pos + (n + 1) - 2 = L
            BY <1>1, <1>10, <5>2
          <6> QED
            BY <1>10, <6>1
        <5> QED
          BY <1>10, <5>1, <5>2
      <4>2. pos' = pos + n /\ pending' = <<out[n + 1]>>
        BY <1>9, <2>5, Zenon
      <4>3. pos + n = L + 1 /\ (L + 1) - 1 = L
        BY <1>1
      <4> QED
        BY <4>1, <4>2, <4>3, Zenon
    <3>2. shown' = L - 1 /\ last_video_timestamp' = Stamp(L - 1)
      <4>1. CASE n = 0
        <5>1. shown' = shown /\ last_video_timestamp' = last_video_timestamp
          BY <1>9, <2>5, <4>1
        <5>2. shown = L - 1
          BY <1>1, <2>1, <4>1
        <5> QED
          BY <2>1, <5>1, <5>2
      <4>2. CASE n > 0
        <5>1. shown' = out[n] /\ last_video_timestamp' = Stamp(out[n])
          BY <1>9, <2>5, <4>2
        <5>2. out[n] = L - 1
          <6>1. CASE n = 1
            <7>1. pos - 1 = L - 1
              BY <1>1, <6>1
            <7>2. out[n] = out[1]
              BY <6>1, Zenon
            <7> QED
              BY <1>10, <7>1, <7>2, Zenon
          <6>2. CASE n > 1
            <7>1. n \in 2 .. n + 1 /\ pos + n - 2 = L - 1
              BY <1>1, <1>10, <6>2
            <7> QED
              BY <1>10, <7>1
          <6> QED
            BY <1>10, <4>2, <6>1, <6>2
        <5> QED
          BY <5>1, <5>2
      <4> QED
        BY <1>10, <4>1, <4>2
    <3>3. L - 1 = 1 \/ Stamp(L - 1 - 1) <= t
      <4>1. CASE n = 0
        <5>1. shown = L - 1 /\ shown - 1 = L - 1 - 1
          BY <1>1, <2>1, <4>1
        <5>2. shown = 1 \/ Stamp(shown - 1) <= last_timestamp
          BY <2>1
        <5>3. shown # 1 => Stamp(shown - 1) \in Nat
          BY <1>1, <2>1, FileFacts DEF Frames
        <5>4. shown = 1 \/ Stamp(shown - 1) <= t
          BY <1>2, <5>2, <5>3
        <5> QED
          BY <5>1, <5>4
      <4>2. CASE n = 1
        <5>1. shown = L - 1 - 1
          BY <1>1, <2>1, <4>2
        <5> QED
          BY <2>2, <5>1 DEF Stamp
      <4>3. CASE n > 1
        <5>1. n - 1 \in 1 .. n /\ out[n - 1] = L - 1 - 1 /\ out[n - 1] \in Frames
          <6>1. n - 1 \in 1 .. n + 1 /\ n - 1 \in 1 .. n
            BY <1>10, <4>3
          <6>2. CASE n = 2
            <7>1. pos - 1 = L - 1 - 1 /\ n - 1 = 1
              BY <1>1, <6>2
            <7>2. out[n - 1] = out[1]
              BY <7>1, Zenon
            <7> QED
              BY <1>10, <6>1, <7>1, <7>2, Zenon
          <6>3. CASE n > 2
            <7>1. n - 1 \in 2 .. n + 1 /\ pos + (n - 1) - 2 = L - 1 - 1
              BY <1>1, <1>10, <6>3
            <7> QED
              BY <1>10, <6>1, <7>1
          <6> QED
            BY <1>10, <4>3, <6>2, <6>3
        <5>2. Stamp(out[n - 1]) < t /\ Stamp(out[n - 1]) \in Nat
          <6>1. Stamp(out[n - 1]) < t
            BY <2>5, <5>1
          <6> QED
            BY <1>1, <5>1, <6>1, FileFacts
        <5> QED
          BY <1>2, <5>1, <5>2
      <4> QED
        BY <1>10, <4>1, <4>2, <4>3
    <3>4. Covered(t) => Stamp(L - 1) >= t
      <4> SUFFICES ASSUME Covered(t) PROVE Stamp(L - 1) >= t
        OBVIOUS
      <4>1. PICK k \in Decodable : Stamp(k) >= t
        BY DEF Covered
      <4>2. k \in Frames /\ k <= L - 1
        BY <1>1 DEF Decodable, Frames
      <4>3. Stamp(k) <= Stamp(L - 1) /\ Stamp(k) \in Nat /\ Stamp(L - 1) \in Nat
        BY <1>1, <3>0, <4>2, StampMono, FileFacts
      <4> QED
        BY <1>2, <4>1, <4>3
    <3>5. PostOK(t, L + 1, L - 1, Stamp(L - 1))
      <4> DEFINE P0 == L + 1
                 S0 == L - 1
                 V0 == Stamp(L - 1)
      <4>1. P0 \in 2 .. Len(file.stamps) + 1 /\ S0 \in 0 .. Len(file.stamps)
        BY <1>1, <3>0
      <4>2. V0 # NoTime
        BY <1>1, <3>0, FileFacts, VideoAssumption
      <4>3. S0 \in Frames /\ S0 = P0 - 2 /\ V0 = Stamp(S0)
        BY <1>1, <3>0
      <4>4. S0 = 1 \/ Stamp(S0 - 1) <= t
        BY <1>1, <3>0, <3>3 DEF S0, Stamp
      <4>5. Covered(t) => Stamp(S0) >= t
        BY <3>4
      <4> HIDE DEF P0, S0, V0
      <4>6. PostOK(t, P0, S0, V0)
        BY <4>1, <4>2, <4>3, <4>4, <4>5 DEF PostOK
      <4> QED
        BY <4>6 DEF P0, S0, V0
    <3> QED
      BY <1>1, <1>2, <3>1, <3>2, <3>5, VInvPrime
  <2> QED
    BY <1>11, <2>4, <2>5
<1> QED
  BY <1>5, <1>6

(* A positive integer is 1 or more than 1. *)
LEMMA OneOrMore ==
  ASSUME NEW x \in Int, x >= 1
  PROVE  x = 1 \/ x > 1
  OBVIOUS

(* The frame before a frame other than the first is strictly earlier. *)
LEMMA StampBefore ==
  ASSUME file \in Files, NEW i \in Frames, i > 1
  PROVE  /\ i - 1 \in Frames /\ Stamp(i - 1) \in Nat /\ Stamp(i) \in Nat
         /\ Stamp(i - 1) < Stamp(i)
<1>1. i - 1 \in Frames /\ i - 1 < i
  BY DEF Frames
<1> QED
  BY <1>1, FileFacts

(* When frame Len - 1, the last one the codec returns, is before t, no   *)
(* decodable frame reaches t.                                             *)
LEMMA NotCoveredBelow ==
  ASSUME file \in Files, CodecDelay = 1, NEW t \in Int,
         Stamp(Len(file.stamps) - 1) < t
  PROVE  ~Covered(t)
<1> DEFINE L == Len(file.stamps)
<1> SUFFICES ASSUME NEW k \in Decodable, Stamp(k) >= t PROVE FALSE
  BY DEF Covered
<1>1. L \in Nat /\ L >= 2 /\ k \in Frames /\ L - 1 \in Frames /\ k <= L - 1
  BY FileFacts DEF Decodable, Frames
<1>2. Stamp(k) <= Stamp(L - 1) /\ Stamp(k) \in Nat /\ Stamp(L - 1) \in Nat
  BY <1>1, StampMono, FileFacts
<1> QED
  BY <1>2

(* Update with a seek (a first call, a step back or a jump of more than  *)
(* a second): Video::Seek moves the file to the key frame at or before t *)
(* and decodes forward, discarding the frame the codec still held.       *)
LEMMA SeekKeeps ==
  ASSUME CodecDelay = 1, VInv, NEW t \in Times, Seek(t),
         last_timestamp' = t, UNCHANGED file
  PROVE  VInv'
<1> DEFINE L == Len(file.stamps)
<1>1. /\ file \in Files /\ L \in Nat /\ L >= 2 /\ t \in Nat
      /\ pos \in 2 .. L + 1 /\ pending = <<pos - 1>> /\ shown \in 0 .. L
  BY FileFacts, VideoAssumption DEF VInv, TypeOK
<1>0. PICK k \in Int : k = SeekPos(t)
  <2>1. SeekPos(t) \in Frames
    BY <1>1, SeekPosFacts
  <2> QED
    BY <2>1 DEF Frames
<1> DEFINE n == L + 1 - k
           out == Out(k, <<pos - 1>>)
           r == ReadLoop(t, k, <<pos - 1>>, 1, shown, NoTime)
<1>2. k \in Frames /\ (k = 1 \/ Stamp(k) <= t)
  BY <1>0, <1>1, SeekPosFacts
<1>3. pos' = r.pos /\ pending' = r.pending /\ shown' = r.shown
      /\ last_video_timestamp' = r.last
  BY <1>0, <1>1 DEF Seek
<1>4. LoopResult(t, k, pos - 1, 1, shown, NoTime)
  <2>1. t \in Int /\ k \in 1 .. L + 1 /\ pos - 1 \in Frames /\ 1 \in {0, 1}
    BY <1>1, <1>2 DEF Frames
  <2> QED
    BY <1>1, <2>1, ReadLoopCases
<1>5. /\ n \in Nat /\ n >= 1
      /\ \A j \in 2 .. n + 1 : out[j] = k + j - 2
      /\ \A j \in 1 .. n + 1 : out[j] \in Frames
  <2>1. n \in Nat /\ n >= 1
    BY <1>1, <1>2 DEF Frames
  <2> QED
    BY <1>4, <2>1 DEF LoopResult
<1>6. \/ \E j \in 1 .. n :
            /\ j > 1 /\ Stamp(out[j]) >= t
            /\ \A i \in 1 .. j - 1 : i > 1 => Stamp(out[i]) < t
            /\ r.pos = k + j /\ r.pending = <<out[j + 1]>>
            /\ r.shown = out[j] /\ r.last = Stamp(out[j])
      \/ /\ \A i \in 1 .. n : i > 1 => Stamp(out[i]) < t
         /\ r.pos = k + n /\ r.pending = <<out[n + 1]>>
         /\ n > 1 => r.shown = out[n] /\ r.last = Stamp(out[n])
         /\ n <= 1 => r.shown = shown /\ r.last = NoTime
  BY <1>4, Zenon DEF LoopResult
<1>7. CASE \E j \in 1 .. n :
             /\ j > 1 /\ Stamp(out[j]) >= t
             /\ \A i \in 1 .. j - 1 : i > 1 => Stamp(out[i]) < t
             /\ r.pos = k + j /\ r.pending = <<out[j + 1]>>
             /\ r.shown = out[j] /\ r.last = Stamp(out[j])
  <2>1. PICK j \in 1 .. n :
             /\ j > 1 /\ Stamp(out[j]) >= t
             /\ \A i \in 1 .. j - 1 : i > 1 => Stamp(out[i]) < t
             /\ r.pos = k + j /\ r.pending = <<out[j + 1]>>
             /\ r.shown = out[j] /\ r.last = Stamp(out[j])
    BY <1>7
  <2>2. out[j] = k + j - 2 /\ out[j + 1] = k + j - 1 /\ k + j - 2 \in Frames
    <3>1. j \in 2 .. n + 1 /\ j + 1 \in 2 .. n + 1
      BY <1>5, <2>1
    <3>2. out[j] = k + j - 2 /\ out[j] \in Frames
      BY <1>5, <3>1
    <3>3. out[j + 1] = k + (j + 1) - 2
      BY <1>5, <3>1
    <3>4. k + (j + 1) - 2 = k + j - 1
      BY <1>2, <3>1 DEF Frames
    <3> QED
      BY <3>2, <3>3, <3>4, Zenon
  <2>3. pos' = k + j /\ pending' = <<(k + j) - 1>>
    <3>1. pos' = k + j /\ pending' = <<out[j + 1]>>
      BY <1>3, <2>1, Zenon
    <3>2. (k + j) - 1 = k + j - 1
      BY <1>2 DEF Frames
    <3> QED
      BY <2>2, <3>1, <3>2, Zenon
  <2>4. shown' = k + j - 2 /\ last_video_timestamp' = Stamp(k + j - 2)
    BY <1>3, <2>1, <2>2, Zenon
  <2>5. Stamp(k + j - 2) \in Nat /\ Stamp(k + j - 2) >= t
    BY <1>1, <2>1, <2>2, FileFacts
  <2>6. k + j - 2 = 1 \/ Stamp(k + j - 2 - 1) <= t
    <3>1. CASE j = 2
      <4>1. k + j - 2 = k /\ k + j - 2 - 1 = k - 1
        BY <1>2, <3>1 DEF Frames
      <4>2. k > 1 => Stamp(k - 1) < Stamp(k) /\ Stamp(k) \in Nat /\ Stamp(k - 1) \in Nat
        BY <1>1, <1>2, StampBefore
      <4>3. k = 1 \/ Stamp(k - 1) <= t
        BY <1>1, <1>2, <4>2 DEF Frames
      <4> QED
        BY <4>1, <4>3
    <3>2. CASE j > 2
      <4>1. j - 1 \in 1 .. j - 1 /\ j - 1 > 1 /\ j - 1 \in 2 .. n + 1
        BY <1>5, <3>2
      <4>2. out[j - 1] = k + j - 2 - 1 /\ out[j - 1] \in Frames
        <5>1. k + (j - 1) - 2 = k + j - 2 - 1
          BY <1>2, <4>1 DEF Frames
        <5> QED
          BY <1>5, <4>1, <5>1
      <4>3. Stamp(out[j - 1]) < t /\ Stamp(out[j - 1]) \in Nat
        <5>1. Stamp(out[j - 1]) < t
          BY <2>1, <4>1
        <5> QED
          BY <1>1, <4>2, <5>1, FileFacts
      <4> QED
        BY <1>1, <4>2, <4>3
    <3> QED
      BY <1>5, <2>1, <3>1, <3>2
  <2>7. PostOK(t, k + j, k + j - 2, Stamp(k + j - 2))
    <3> DEFINE P0 == k + j
               S0 == k + j - 2
               V0 == Stamp(k + j - 2)
    <3>1. P0 \in 2 .. Len(file.stamps) + 1 /\ S0 \in 0 .. Len(file.stamps)
      BY <1>1, <1>2, <1>5, <2>2 DEF Frames
    <3>2. V0 # NoTime
      BY <2>5, VideoAssumption
    <3>3. S0 \in Frames /\ S0 = P0 - 2 /\ V0 = Stamp(S0)
      BY <1>2, <2>2 DEF Frames
    <3>4. S0 = 1 \/ Stamp(S0 - 1) <= t
      BY <1>2, <2>2, <2>6 DEF S0, Stamp, Frames
    <3>5. Covered(t) => Stamp(S0) >= t
      BY <2>5
    <3> HIDE DEF P0, S0, V0
    <3>6. PostOK(t, P0, S0, V0)
      BY <3>1, <3>2, <3>3, <3>4, <3>5 DEF PostOK
    <3> QED
      BY <3>6 DEF P0, S0, V0
  <2> QED
    BY <1>1, <2>3, <2>4, <2>7, VInvPrime
<1>8. CASE /\ \A i \in 1 .. n : i > 1 => Stamp(out[i]) < t
           /\ r.pos = k + n /\ r.pending = <<out[n + 1]>>
           /\ n > 1 => r.shown = out[n] /\ r.last = Stamp(out[n])
           /\ n <= 1 => r.shown = shown /\ r.last = NoTime
  <2>0. L - 1 \in Frames /\ L \in Frames
    BY <1>1 DEF Frames
  <2>1. pos' = L + 1 /\ pending' = <<(L + 1) - 1>>
    <3>1. n + 1 \in 2 .. n + 1 /\ k + (n + 1) - 2 = L /\ k + n = L + 1 /\ (L + 1) - 1 = L
      BY <1>1, <1>2, <1>5 DEF Frames
    <3>2. out[n + 1] = L
      BY <1>5, <3>1
    <3>3. pos' = k + n /\ pending' = <<out[n + 1]>>
      BY <1>3, <1>8, Zenon
    <3> QED
      BY <3>1, <3>2, <3>3, Zenon
  <2>2. CASE n > 1
    <3>1. n \in 2 .. n + 1 /\ n \in 1 .. n /\ k + n - 2 = L - 1
      BY <1>1, <1>2, <1>5, <2>2 DEF Frames
    <3>2. out[n] = L - 1
      BY <1>5, <3>1
    <3>3. shown' = L - 1 /\ last_video_timestamp' = Stamp(L - 1)
      BY <1>3, <1>8, <2>2, <3>2, Zenon
    <3>4. Stamp(L - 1) < t /\ Stamp(L - 1) \in Nat
      <4>1. Stamp(out[n]) < t
        BY <1>8, <2>2, <3>1
      <4>2. Stamp(L - 1) < t
        BY <3>2, <4>1
      <4> QED
        BY <1>1, <2>0, <4>2, FileFacts
    <3>5. ~Covered(t)
      BY <1>1, <3>4, NotCoveredBelow
    <3>6. L - 1 = 1 \/ Stamp(L - 1 - 1) <= t
      <4>1. L - 1 = 1 \/ L - 1 > 1
        <5>1. L - 1 \in Int /\ L - 1 >= 1
          BY <1>1
        <5> QED
          BY <5>1, OneOrMore, Zenon
      <4>2. CASE L - 1 > 1
        <5>1. Stamp(L - 1 - 1) < Stamp(L - 1) /\ Stamp(L - 1 - 1) \in Nat
          BY <1>1, <2>0, <4>2, StampBefore
        <5> QED
          BY <1>1, <3>4, <5>1
      <4> QED
        BY <4>1, <4>2, Zenon
    <3>7. PostOK(t, L + 1, L - 1, Stamp(L - 1))
      <4> DEFINE P0 == L + 1
                 S0 == L - 1
                 V0 == Stamp(L - 1)
      <4>1. P0 \in 2 .. Len(file.stamps) + 1 /\ S0 \in 0 .. Len(file.stamps)
        BY <1>1
      <4>2. V0 # NoTime
        BY <3>4, VideoAssumption
      <4>3. S0 \in Frames /\ S0 = P0 - 2 /\ V0 = Stamp(S0)
        BY <1>1, <2>0
      <4>4. S0 = 1 \/ Stamp(S0 - 1) <= t
        BY <1>1, <3>6 DEF S0, Stamp
      <4>5. Covered(t) => Stamp(S0) >= t
        BY <3>5
      <4> HIDE DEF P0, S0, V0
      <4>6. PostOK(t, P0, S0, V0)
        BY <4>1, <4>2, <4>3, <4>4, <4>5 DEF PostOK
      <4> QED
        BY <4>6 DEF P0, S0, V0
    <3> QED
      BY <1>1, <2>1, <3>3, <3>7, VInvPrime
  <2>3. CASE n <= 1
    <3>1. k = L
      BY <1>1, <1>2, <1>5, <2>3 DEF Frames
    <3>2. Stamp(L - 1) < t
      <4>1. k > 1
        BY <1>1, <3>1
      <4>2. Stamp(k) <= t
        <5>1. ~(k = 1)
          BY <4>1
        <5> QED
          BY <1>2, <5>1, Zenon
      <4>3. Stamp(L - 1) < Stamp(L) /\ Stamp(L - 1) \in Nat /\ Stamp(L) \in Nat
        <5>1. L > 1
          BY <1>1
        <5> QED
          BY <1>1, <2>0, <5>1, StampBefore
      <4>4. Stamp(L) <= t
        BY <3>1, <4>2
      <4> QED
        BY <1>1, <4>3, <4>4
    <3>3. ~Covered(t)
      BY <1>1, <3>2, NotCoveredBelow
    <3>4. shown' = shown /\ last_video_timestamp' = NoTime
      BY <1>3, <1>8, <2>3, Zenon
    <3>5. PostOK(t, L + 1, shown, NoTime)
      BY <1>1, <3>3 DEF PostOK
    <3> QED
      BY <1>1, <2>1, <3>4, <3>5, VInvPrime
  <2> QED
    BY <1>5, <2>2, <2>3
<1> QED
  BY <1>6, <1>7, <1>8

(* Every step of Video::Update, and every stutter, keeps the invariant. *)
LEMMA VInvStep ==
  ASSUME CodecDelay = 1
  PROVE  VInv /\ [Next]_vars => VInv'
<1> SUFFICES ASSUME VInv, [Next]_vars PROVE VInv'
  OBVIOUS
<1>1. CASE Next
  <2>1. PICK t \in Times :
          /\ \/ NeedsSeek(t) /\ Seek(t)
             \/ ~NeedsSeek(t) /\ AtOrAfter(t, last_video_timestamp) /\ Step(t)
             \/ /\ ~NeedsSeek(t) /\ ~AtOrAfter(t, last_video_timestamp)
                /\ UNCHANGED <<pos, pending, shown, last_video_timestamp>>
          /\ last_timestamp' = t
          /\ UNCHANGED file
    BY <1>1, Zenon DEF Next, Update
  <2>2. CASE NeedsSeek(t) /\ Seek(t)
    BY <2>1, <2>2, SeekKeeps
  <2>3. CASE ~NeedsSeek(t) /\ AtOrAfter(t, last_video_timestamp) /\ Step(t)
    BY <2>1, <2>3, StepKeeps
  <2>4. CASE /\ ~NeedsSeek(t) /\ ~AtOrAfter(t, last_video_timestamp)
             /\ UNCHANGED <<pos, pending, shown, last_video_timestamp>>
    BY <2>1, <2>4, HoldKeeps
  <2> QED
    BY <2>1, <2>2, <2>3, <2>4
<1>2. CASE UNCHANGED vars
  BY <1>2 DEF VInv, vars, TypeOK, Covered, Decodable, Frames, Stamp
<1> QED
  BY <1>1, <1>2

(* With a codec that holds one frame back, VInv holds in every state of *)
(* the Video pane: the constructor establishes it and Video::Update,    *)
(* whether it seeks, steps or holds the picture, keeps it.              *)
THEOREM VideoInvariant ==
  ASSUME CodecDelay = 1
  PROVE  Spec => []VInv
<1>1. Init => VInv
  BY VInvInit
<1>2. VInv /\ [Next]_vars => VInv'
  BY VInvStep
<1> QED
  BY <1>1, <1>2, PTL DEF Spec

(* TypeOK: the reader stays within the file (pos at most one past its  *)
(* last packet), the codec holds frames of the file, and               *)
(* last_video_timestamp_ is unset or the stamp of a frame.             *)
THEOREM TypeCorrect ==
  ASSUME CodecDelay = 1
  PROVE  Spec => []TypeOK
<1>1. VInv => TypeOK
  BY DEF VInv
<1> QED
  BY <1>1, VideoInvariant, PTL

(* NoFrameSkipped: after every Video::Update to a time some decodable    *)
(* frame reaches, the picture stored in texture_ is at or after that    *)
(* time and no frame of the file lies strictly between the time and the *)
(* picture, whether the update sought (Video::Seek with discard_first)  *)
(* or stepped (Video::Step).                                              *)
THEOREM NoSkip ==
  ASSUME CodecDelay = 1
  PROVE  Spec => []NoFrameSkipped
<1>1. VInv => NoFrameSkipped
  BY VInvNoSkip
<1> QED
  BY <1>1, VideoInvariant, PTL

=============================================================================
