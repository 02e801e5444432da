----------------------- MODULE RuntimeStream_proofs -----------------------
(***************************************************************************)
(* Proofs about the progress events of a run and their readers.            *)
(***************************************************************************)
EXTENDS RuntimeStream, WellFoundedInduction, TLAPS

Frame == Events \cup Marks

-----------------------------------------------------------------------------
(* Numbers, sequences and sums. *)

\* Every nonempty set of natural numbers has a least element.
LEMMA Least ==
  ASSUME NEW T \in SUBSET Nat, T # {}
  PROVE  \E x \in T : \A y \in T : x <= y
<1>. DEFINE R == {ss \in Nat \X Nat : ss[1] < ss[2]}
<1>1. IsWellFoundedOn(R, Nat)
  BY NatLessThanWellFounded DEF OpToRel
<1>2. \A x, y \in Nat : <<y, x>> \in R <=> y < x
  OBVIOUS
<1>. HIDE DEF R
<1>3. PICK x \in T : \A y \in T : ~ (<<y, x>> \in R)
  BY <1>1, WFMin
<1>4. \A y \in T : x \in Nat /\ y \in Nat /\ ~(y < x)
  BY <1>2, <1>3
<1>5. \A y \in T : x <= y
  BY <1>4
<1>6. QED
  BY <1>5

\* So Min is that element ...
LEMMA MinIsLeast ==
  ASSUME NEW T \in SUBSET Nat, T # {}
  PROVE  Min(T) \in T /\ \A y \in T : Min(T) <= y
<1>1. \E x \in T : \A y \in T : x =< y
  BY Least
<1>2. QED
  BY <1>1 DEF Min

\* ... and the larger of a number and zero is a natural number.
LEMMA ClampNat ==
  ASSUME NEW n \in Int
  PROVE  Max({0, n}) \in Nat
<1>1. \E x \in {0, n} : \A y \in {0, n} : x >= y
  OBVIOUS
<1>2. Max({0, n}) \in {0, n} /\ \A y \in {0, n} : Max({0, n}) >= y
  BY <1>1 DEF Max
<1>3. QED
  BY <1>2

\* A frame takes a natural number of bytes.
LEMMA FrameSizeNat ==
  ASSUME NEW f \in Frame
  PROVE  FrameSize(f) \in Nat
<1>1. f \in Events => f.size \in Nat
  BY LimitAssumption DEF Events
<1>2. f \in Marks => f.size \in Nat
  BY DEF Marks
<1>3. QED
  BY <1>1, <1>2, LimitAssumption DEF Frame, FrameSize

\* f adds up the sizes of the first n frames of s.
Adds(f, s, n) ==
  /\ f \in [0..n -> Nat] /\ f[0] = 0
  /\ \A i \in 1..n : f[i] = f[i-1] + FrameSize(s[i])

\* The sizes of a sequence of frames can be added up.
LEMMA SumsExist ==
  ASSUME NEW s \in Seq(Frame)
  PROVE  \E f : Adds(f, s, Len(s))
<1>. DEFINE T == {n \in 0..Len(s) : ~ \E f : Adds(f, s, n)}
<1>1. Len(s) \in Nat /\ T \in SUBSET Nat
  OBVIOUS
<1>2. ASSUME T # {}
      PROVE  FALSE
  <2>. HIDE DEF T
  <2>1. PICK n \in T : \A m \in T : n <= m
    BY <1>1, <1>2, Least
  <2>. USE DEF T
  <2>2. n # 0
    <3>1. Adds([i \in 0..0 |-> 0], s, 0)
      BY DEF Adds
    <3>2. QED
      BY <3>1
  <2>3. n \in 1..Len(s) /\ n-1 \in 0..Len(s) /\ n-1 \in 0..n-1 /\ n \in Nat
    BY <1>1, <2>2
  <2>4. s[n] \in Frame
    BY <2>3
  <2>5. FrameSize(s[n]) \in Nat
    BY <2>4, FrameSizeNat
  <2>6. ~(n-1 \in T)
    <3>. HIDE DEF T
    <3>1. QED
      BY <2>1, <2>3
  <2>7. PICK f : Adds(f, s, n-1)
    BY <2>3, <2>6
  <2>. HIDE DEF T
  <2>. DEFINE g == [i \in 0..n |-> IF i = n THEN f[n-1] + FrameSize(s[n]) ELSE f[i]]
  <2>8. f[n-1] \in Nat
    BY <2>3, <2>7 DEF Adds
  <2>9. g \in [0..n -> Nat]
    BY <2>3, <2>5, <2>7, <2>8 DEF Adds
  <2>10. g[0] = 0
    BY <2>3, <2>7 DEF Adds
  <2>11. \A i \in 1..n : g[i] = g[i-1] + FrameSize(s[i])
    BY <2>3, <2>7 DEF Adds
  <2>. HIDE DEF g
  <2>12. Adds(g, s, n)
    BY <2>9, <2>10, <2>11 DEF Adds
  <2>13. QED
    BY <2>1, <2>12 DEF T
<1>3. QED
  BY <1>1, <1>2

\* Bytes is that sum.
LEMMA BytesAdds ==
  ASSUME NEW s \in Seq(Frame)
  PROVE  \E f : Adds(f, s, Len(s)) /\ Bytes(s) = f[Len(s)]
<1>. DEFINE P(f) == f = [i \in 0..Len(s) |-> IF i = 0 THEN 0 ELSE f[i-1] + FrameSize(s[i])]
            c == CHOOSE f : P(f)
<1>1. PICK f : Adds(f, s, Len(s))
  BY SumsExist
<1>2. P(f)
  <2>1. \A i \in 0..Len(s) : f[i] = IF i = 0 THEN 0 ELSE f[i-1] + FrameSize(s[i])
    BY <1>1 DEF Adds
  <2>2. f = [i \in 0..Len(s) |-> f[i]]
    BY <1>1 DEF Adds
  <2>3. QED
    BY <2>1, <2>2
<1>3. P(c)
  <2>. HIDE DEF P
  <2>1. QED
    BY <1>2
<1>4. Bytes(s) = c[Len(s)]
  BY DEF Bytes
<1>. DEFINE T == {i \in 0..Len(s) : c[i] # f[i]}
<1>5. ASSUME T # {}
      PROVE  FALSE
  <2>. HIDE DEF T, c
  <2>1. Len(s) \in Nat /\ T \in SUBSET Nat
    BY DEF T
  <2>2. PICK n \in T : \A m \in T : n <= m
    BY <1>5, <2>1, Least
  <2>3. n \in 0..Len(s) /\ c[n] # f[n]
    BY <2>2 DEF T
  <2>4. n # 0
    BY <1>1, <1>3, <2>1, <2>3 DEF Adds
  <2>5. n-1 \in 0..Len(s) /\ n \in 1..Len(s)
    BY <2>1, <2>3, <2>4
  <2>6. ~(n-1 \in T)
    BY <2>2, <2>5
  <2>7. c[n-1] = f[n-1]
    BY <2>5, <2>6 DEF T
  <2>8. c[n] = c[n-1] + FrameSize(s[n])
    BY <1>3, <2>3, <2>4
  <2>9. f[n] = f[n-1] + FrameSize(s[n])
    BY <1>1, <2>5 DEF Adds
  <2>10. QED
    BY <2>3, <2>7, <2>8, <2>9
<1>6. Len(s) \in 0..Len(s)
  OBVIOUS
<1>7. c[Len(s)] = f[Len(s)]
  <2>. HIDE DEF c
  <2>1. QED
    BY <1>5, <1>6
<1>8. QED
  BY <1>1, <1>4, <1>7

\* Two sums that grow alike differ by what they began with.
LEMMA SumsAgree ==
  ASSUME NEW n \in Nat, NEW f \in [0..n -> Nat], NEW g \in [0..n -> Nat], NEW d \in Nat,
         f[0] = g[0] + d,
         \A i \in 1..n : f[i] - f[i-1] = g[i] - g[i-1]
  PROVE  f[n] = g[n] + d
<1>. DEFINE T == {i \in 0..n : f[i] # g[i] + d}
<1>1. ASSUME T # {}
      PROVE  FALSE
  <2>. HIDE DEF T
  <2>1. T \in SUBSET Nat
    BY DEF T
  <2>2. PICK k \in T : \A m \in T : k <= m
    BY <1>1, <2>1, Least
  <2>3. k \in 0..n /\ f[k] # g[k] + d
    BY <2>2 DEF T
  <2>4. k # 0
    BY <2>3
  <2>5. k-1 \in 0..n /\ k \in 1..n
    BY <2>3, <2>4
  <2>6. ~(k-1 \in T)
    BY <2>2, <2>5
  <2>7. f[k-1] = g[k-1] + d
    BY <2>5, <2>6 DEF T
  <2>8. f[k] - f[k-1] = g[k] - g[k-1]
    BY <2>5
  <2>9. f[k] \in Nat /\ f[k-1] \in Nat /\ g[k] \in Nat /\ g[k-1] \in Nat
    BY <2>3, <2>5
  <2>. DEFINE a == f[k]
              b == f[k-1]
              x == g[k]
              y == g[k-1]
  <2>10. a \in Nat /\ b \in Nat /\ x \in Nat /\ y \in Nat /\ a - b = x - y /\ b = y + d
    BY <2>7, <2>8, <2>9
  <2>. HIDE DEF a, b, x, y
  <2>11. a = x + d
    BY <2>10
  <2>12. QED
    BY <2>3, <2>11 DEF a, x
<1>2. n \in 0..n
  OBVIOUS
<1>3. ~(n \in T)
  <2>. HIDE DEF T
  <2>1. QED
    BY <1>1
<1>4. QED
  BY <1>2, <1>3

\* What Bytes makes of no frames, one more frame and one frame less.
LEMMA BytesNat ==
  ASSUME NEW s \in Seq(Frame)
  PROVE  Bytes(s) \in Nat
<1>1. PICK f : Adds(f, s, Len(s)) /\ Bytes(s) = f[Len(s)]
  BY BytesAdds
<1>2. QED
  BY <1>1 DEF Adds

\* No frames take no bytes.
LEMMA BytesEmpty == Bytes(<<>>) = 0
<1>. <<>> \in Seq(Frame)
  OBVIOUS
<1>1. PICK f : Adds(f, <<>>, Len(<<>>)) /\ Bytes(<<>>) = f[Len(<<>>)]
  BY BytesAdds
<1>2. QED
  BY <1>1 DEF Adds

\* A frame more adds its size ...
LEMMA BytesAppend ==
  ASSUME NEW s \in Seq(Frame), NEW e \in Frame
  PROVE  Bytes(Append(s, e)) = Bytes(s) + FrameSize(e)
<1>. DEFINE t == Append(s, e)
            n == Len(s)
<1>1. t \in Seq(Frame) /\ Len(t) = n + 1 /\ t[n+1] = e /\ n \in Nat
  OBVIOUS
<1>2. \A i \in 1..n : t[i] = s[i]
  OBVIOUS
<1>. HIDE DEF t
<1>3. PICK f : Adds(f, s, n) /\ Bytes(s) = f[n]
  BY BytesAdds
<1>4. PICK g : Adds(g, t, n+1) /\ Bytes(t) = g[n+1]
  BY <1>1, BytesAdds
<1>. HIDE DEF n
<1>. DEFINE h == [i \in 0..n |-> g[i]]
<1>5. h \in [0..n -> Nat] /\ f \in [0..n -> Nat] /\ h[0] = f[0] + 0 /\ h[n] = g[n]
  BY <1>1, <1>3, <1>4 DEF Adds
<1>6. ASSUME NEW i \in 1..n
      PROVE  h[i] - h[i-1] = f[i] - f[i-1]
  <2>1. i \in 0..n /\ i-1 \in 0..n /\ i \in 1..n+1
    BY <1>1
  <2>2. h[i] = h[i-1] + FrameSize(s[i])
    BY <1>2, <1>4, <2>1 DEF Adds
  <2>3. f[i] = f[i-1] + FrameSize(s[i])
    BY <1>3 DEF Adds
  <2>4. h[i] \in Nat /\ h[i-1] \in Nat /\ f[i] \in Nat /\ f[i-1] \in Nat
    BY <1>5, <2>1
  <2>. HIDE DEF h
  <2>5. s[i] \in Frame
    BY <1>1 DEF n
  <2>6. FrameSize(s[i]) \in Nat
    BY <2>5, FrameSizeNat
  <2>7. QED
    BY <2>2, <2>3, <2>4, <2>6
<1>. HIDE DEF h
<1>7. h[n] = f[n] + 0
  BY <1>1, <1>5, <1>6, SumsAgree
<1>8. g[n+1] = g[n] + FrameSize(e)
  BY <1>1, <1>4 DEF Adds
<1>9. f[n] \in Nat
  BY <1>1, <1>5
<1>10. g[n] = f[n]
  BY <1>5, <1>7, <1>9
<1>11. Bytes(t) = Bytes(s) + FrameSize(e)
  BY <1>3, <1>4, <1>8, <1>10
<1>12. QED
  BY <1>11 DEF t

\* ... and a frame less takes its size away.
LEMMA BytesTail ==
  ASSUME NEW s \in Seq(Frame), s # <<>>
  PROVE  Bytes(s) = Bytes(Tail(s)) + FrameSize(Head(s))
<1>. DEFINE t == Tail(s)
            n == Len(t)
<1>1. t \in Seq(Frame) /\ Len(s) = n + 1 /\ n \in Nat /\ Head(s) = s[1] /\ s[1] \in Frame
  OBVIOUS
<1>2. \A i \in 1..n : t[i] = s[i+1]
  OBVIOUS
<1>. HIDE DEF t
<1>3. PICK f : Adds(f, s, n+1) /\ Bytes(s) = f[n+1]
  BY <1>1, BytesAdds
<1>4. PICK g : Adds(g, t, n) /\ Bytes(t) = g[n]
  BY <1>1, BytesAdds
<1>. HIDE DEF n
<1>. DEFINE h == [i \in 0..n |-> f[i+1]]
            d == FrameSize(s[1])
<1>5. d \in Nat
  BY <1>1, FrameSizeNat
<1>6. h \in [0..n -> Nat] /\ g \in [0..n -> Nat] /\ h[n] = f[n+1]
  BY <1>1, <1>3, <1>4 DEF Adds
<1>7. h[0] = g[0] + d
  <2>1. f[1] = f[1-1] + FrameSize(s[1]) /\ f[0] = 0 /\ g[0] = 0
    BY <1>1, <1>3, <1>4 DEF Adds
  <2>2. h[0] = f[1]
    BY <1>1
  <2>3. QED
    BY <1>5, <2>1, <2>2
<1>8. ASSUME NEW i \in 1..n
      PROVE  h[i] - h[i-1] = g[i] - g[i-1]
  <2>1. i \in 0..n /\ i-1 \in 0..n /\ i+1 \in 1..n+1 /\ i+1-1 = i /\ i-1+1 = i
    BY <1>1
  <2>2. f[i+1] = f[i+1-1] + FrameSize(s[i+1])
    BY <1>3, <2>1 DEF Adds
  <2>3. h[i] = h[i-1] + FrameSize(t[i])
    BY <1>2, <2>1, <2>2
  <2>4. g[i] = g[i-1] + FrameSize(t[i])
    BY <1>4 DEF Adds
  <2>5. t[i] \in Frame
    BY <1>1 DEF n
  <2>6. FrameSize(t[i]) \in Nat
    BY <2>5, FrameSizeNat
  <2>7. h[i] \in Nat /\ h[i-1] \in Nat /\ g[i] \in Nat /\ g[i-1] \in Nat
    BY <1>6, <2>1
  <2>. HIDE DEF h
  <2>8. QED
    BY <2>3, <2>4, <2>6, <2>7
<1>. HIDE DEF h, d
<1>9. h[n] = g[n] + d
  BY <1>1, <1>5, <1>6, <1>7, <1>8, SumsAgree
<1>10. QED
  BY <1>1, <1>3, <1>4, <1>6, <1>9 DEF t, d

-----------------------------------------------------------------------------
(* The inductive invariant. *)

\* Frames that lead a reader from the event c to the event n: perhaps the frame
\* that opens a stream, then the events after c, one by one.
Follows(fs, c, n) ==
  \E o \in 0..1 :
    /\ o <= Len(fs) /\ c + Len(fs) = n + o
    /\ \A i \in 1..Len(fs) : IF i <= o THEN fs[i].kind = "subscribed"
                             ELSE fs[i].kind = "event" /\ fs[i].seq + o = c + i

\* A subscription of a reader at the event c of a run with n events that is over
\* (t) or being ended (e).
Streams(s, c, n, t, e) ==
  /\ Follows(s.frames, c, n)
  /\ s.attached <=> ~s.finishing
  /\ s.attached => ~t \/ e
  /\ s.finishing => t

Small(fs) == Len(fs) <= SubMaxEvents /\ Bytes(fs) <= SubMaxBytes

\* What a reader holds.
Served(x, n, t, e) ==
  /\ x.phase # "open" => x.sub = Unsubscribed
  /\ x.phase = "open" => x.sub = Resynced \/ Streams(x.sub, x.cursor, n, t, e)
  /\ x.phase = "ended" /\ ~x.resync => t /\ x.cursor = n
  /\ Small(x.sub.frames)

\* The ring holds the last events, and all of them unless it was cut.
Latest(h, n) == /\ Len(h) <= RingMaxEvents /\ Len(h) <= n
                /\ \A i \in DOMAIN h : h[i].seq = n - Len(h) + i
Retained == Latest(ring, seq) /\ (~truncated => Len(ring) = seq)

\* Only what ends the run comes on top of the progress events.
Counted == seq <= emits + (IF terminal THEN 2 ELSE IF closing THEN 1 ELSE 0)

IInv == /\ TypeOK /\ Counted /\ Retained
        /\ \A r \in Readers : Served(reader[r], seq, terminal, closing)

-----------------------------------------------------------------------------
(* Subscriptions. *)

Sub == [frames : Seq(Frame), attached : BOOLEAN, finishing : BOOLEAN]
Row(n) == [phase : {"none", "snapshot", "open", "ended"}, cursor : 0..n, resync : BOOLEAN,
           sub : Sub]

\* The limits are positive numbers.
LEMMA LimitsNat ==
  /\ SubMaxEvents \in Nat /\ SubMaxEvents >= 1 /\ SubMaxBytes \in Nat
  /\ RingMaxEvents \in Nat /\ RingMaxEvents >= 1 /\ RingMaxBytes \in Nat
  /\ MaxEvents \in Nat /\ MaxEventBytes \in Nat /\ MaxEmits \in Nat
  /\ Overhead \in Nat /\ Sizes \subseteq Nat
  BY LimitAssumption

\* A control frame is a frame without a payload.
LEMMA MarkIsFrame ==
  ASSUME NEW k \in {"subscribed", "resync_required"}
  PROVE  Mark(k) \in Marks /\ Mark(k) \in Frame /\ FrameSize(Mark(k)) = Overhead
  BY LimitsNat DEF Mark, Marks, Frame, FrameSize

\* An empty subscription is small, and so is one with a single control frame.
LEMMA NothingIsSmall == Small(<<>>) /\ <<>> \in Seq(Frame)
  BY BytesEmpty, LimitsNat DEF Small

\* A control frame alone fits into a subscription.
LEMMA MarkIsSmall ==
  ASSUME NEW k \in {"subscribed", "resync_required"}
  PROVE  Small(<<Mark(k)>>) /\ <<Mark(k)>> \in Seq(Frame)
<1>. DEFINE m == Mark(k)
<1>1. m \in Frame /\ FrameSize(m) = Overhead
  BY MarkIsFrame
<1>. HIDE DEF m
<1>2. <<m>> = Append(<<>>, m) /\ <<m>> \in Seq(Frame) /\ <<>> \in Seq(Frame) /\ Len(<<m>>) = 1
  BY <1>1
<1>3. Bytes(<<m>>) = 0 + Overhead
  BY <1>1, <1>2, BytesAppend, BytesEmpty
<1>4. Small(<<m>>)
  BY <1>2, <1>3, LimitsNat, MarkerAssumption DEF Small
<1>5. QED
  BY <1>2, <1>4 DEF m

\* So does what an overflow leaves ...
LEMMA ResyncedTyped == Resynced \in Sub /\ Small(Resynced.frames)
  BY MarkIsSmall DEF Resynced, Sub

\* ... and nothing at all.
LEMMA UnsubscribedTyped == Unsubscribed \in Sub /\ Small(Unsubscribed.frames)
  BY NothingIsSmall DEF Unsubscribed, Sub

\* A frame that fits leaves the subscription small; one that does not leaves the
\* recovery marker.
LEMMA PushedOn ==
  ASSUME NEW s \in Sub, NEW f \in Frame, Small(s.frames)
  PROVE  /\ Push(s, f) \in Sub /\ Small(Push(s, f).frames)
         /\ \/ Push(s, f) = Resynced
            \/ Push(s, f) = [s EXCEPT !.frames = Append(s.frames, f)]
<1>1. CASE Overflows(s, f)
  BY <1>1, ResyncedTyped DEF Push
<1>2. CASE ~Overflows(s, f)
  <2>. DEFINE p == [s EXCEPT !.frames = Append(s.frames, f)]
  <2>1. Push(s, f) = p
    BY <1>2 DEF Push
  <2>2. s.frames \in Seq(Frame) /\ Append(s.frames, f) \in Seq(Frame)
    BY DEF Sub
  <2>3. p \in Sub /\ p.frames = Append(s.frames, f)
    BY <2>2 DEF Sub
  <2>4. Bytes(p.frames) = Bytes(s.frames) + FrameSize(f)
    BY <2>2, <2>3, BytesAppend
  <2>5. Len(p.frames) = Len(s.frames) + 1 /\ Len(s.frames) \in Nat
    BY <2>2, <2>3
  <2>. HIDE DEF p
  <2>6. Bytes(s.frames) \in Nat /\ FrameSize(f) \in Nat
    BY <2>2, BytesNat, FrameSizeNat
  <2>7. Small(p.frames)
    BY <1>2, <2>4, <2>5, <2>6, LimitsNat DEF Small, Overflows
  <2>8. QED
    BY <2>1, <2>3, <2>7 DEF p
<1>3. QED
  BY <1>1, <1>2

\* The next event continues the frames of a stream.
LEMMA FollowsOn ==
  ASSUME NEW fs \in Seq(Frame), NEW c \in Nat, NEW n \in Nat, Follows(fs, c, n),
         NEW f \in Frame, f.kind = "event", f.seq = n + 1
  PROVE  Follows(Append(fs, f), c, n + 1)
<1>. DEFINE gs == Append(fs, f)
<1>1. PICK o \in 0..1 :
        /\ o <= Len(fs) /\ c + Len(fs) = n + o
        /\ \A i \in 1..Len(fs) : IF i <= o THEN fs[i].kind = "subscribed"
                                 ELSE fs[i].kind = "event" /\ fs[i].seq + o = c + i
  BY DEF Follows
<1>2. Len(gs) = Len(fs) + 1 /\ Len(fs) \in Nat
  OBVIOUS
<1>3. gs[Len(gs)] = f /\ \A i \in 1..Len(fs) : gs[i] = fs[i]
  OBVIOUS
<1>. HIDE DEF gs
<1>4. o <= Len(gs) /\ c + Len(gs) = n + 1 + o
  BY <1>1, <1>2
<1>5. \A i \in 1..Len(gs) : IF i <= o THEN gs[i].kind = "subscribed"
                            ELSE gs[i].kind = "event" /\ gs[i].seq + o = c + i
  <2>1. TAKE i \in 1..Len(gs)
  <2>2. CASE i \in 1..Len(fs)
    <3>1. gs[i] = fs[i]
      BY <1>3, <2>2
    <3>2. IF i <= o THEN fs[i].kind = "subscribed"
          ELSE fs[i].kind = "event" /\ fs[i].seq + o = c + i
      BY <1>1, <2>2
    <3>3. QED
      BY <3>1, <3>2
  <2>3. CASE i = Len(gs)
    <3>1. ~(i <= o) /\ (n + 1) + o = c + i
      BY <1>1, <1>2, <2>3
    <3>2. gs[i] = f
      BY <1>3, <2>3
    <3>3. QED
      BY <3>1, <3>2
  <2>4. QED
    BY <1>2, <2>2, <2>3
<1>6. Follows(gs, c, n + 1)
  BY <1>4, <1>5 DEF Follows
<1>7. QED
  BY <1>6 DEF gs

\* Reading a frame of a stream leads to the next event or leaves the cursor where
\* it was, and never meets a recovery marker.
LEMMA FollowsDown ==
  ASSUME NEW fs \in Seq(Frame), fs # <<>>, NEW c \in Nat, NEW n \in Nat, Follows(fs, c, n)
  PROVE  \/ /\ Head(fs).kind = "event" /\ Head(fs).seq = c + 1 /\ c + 1 <= n
            /\ Follows(Tail(fs), c + 1, n)
         \/ Head(fs).kind = "subscribed" /\ Follows(Tail(fs), c, n)
<1>. DEFINE gs == Tail(fs)
<1>1. PICK o \in 0..1 :
        /\ o <= Len(fs) /\ c + Len(fs) = n + o
        /\ \A i \in 1..Len(fs) : IF i <= o THEN fs[i].kind = "subscribed"
                                 ELSE fs[i].kind = "event" /\ fs[i].seq + o = c + i
  BY DEF Follows
<1>2. Len(gs) \in Nat /\ Len(fs) = Len(gs) + 1 /\ Head(fs) = fs[1]
  OBVIOUS
<1>3. \A i \in 1..Len(gs) : gs[i] = fs[i+1]
  OBVIOUS
<1>4. fs[1] \in Frame /\ \A i \in 1..Len(gs) : fs[i+1] \in Frame
  BY <1>2
<1>5. \A f \in Frame : f.seq \in Nat
  BY DEF Frame, Events, Marks
<1>. HIDE DEF gs
<1>6. CASE o = 0
  <2>1. fs[1].kind = "event" /\ fs[1].seq = c + 1 /\ c + 1 <= n
    BY <1>1, <1>2, <1>4, <1>5, <1>6
  <2>2. \A i \in 1..Len(gs) : IF i <= 0 THEN gs[i].kind = "subscribed"
                              ELSE gs[i].kind = "event" /\ gs[i].seq + 0 = (c + 1) + i
    <3>1. TAKE i \in 1..Len(gs)
    <3>2. i+1 \in 1..Len(fs) /\ ~(i+1 <= o) /\ ~(i <= 0) /\ i \in Nat
      BY <1>2, <1>6
    <3>3. fs[i+1].kind = "event" /\ fs[i+1].seq + o = c + (i+1)
      BY <1>1, <3>2
    <3>4. gs[i] = fs[i+1] /\ gs[i].seq \in Nat
      BY <1>3, <1>4, <1>5
    <3>5. \A q \in Nat : q + 0 = c + (i+1) => q + 0 = (c + 1) + i
      BY <3>2
    <3>6. gs[i].kind = "event" /\ gs[i].seq + 0 = (c + 1) + i
      BY <1>6, <3>3, <3>4, <3>5
    <3>7. QED
      BY <3>2, <3>6
  <2>3. Follows(gs, c + 1, n)
    BY <1>1, <1>2, <1>6, <2>2 DEF Follows
  <2>4. QED
    BY <1>2, <2>1, <2>3 DEF gs
<1>7. CASE o = 1
  <2>1. fs[1].kind = "subscribed"
    BY <1>1, <1>2, <1>7
  <2>2. \A i \in 1..Len(gs) : IF i <= 0 THEN gs[i].kind = "subscribed"
                              ELSE gs[i].kind = "event" /\ gs[i].seq + 0 = c + i
    <3>1. TAKE i \in 1..Len(gs)
    <3>2. i+1 \in 1..Len(fs) /\ ~(i+1 <= o) /\ ~(i <= 0) /\ i \in Nat
      BY <1>2, <1>7
    <3>3. fs[i+1].kind = "event" /\ fs[i+1].seq + o = c + (i+1)
      BY <1>1, <3>2
    <3>4. gs[i] = fs[i+1] /\ gs[i].seq \in Nat
      BY <1>3, <1>4, <1>5
    <3>5. \A q \in Nat : q + 1 = c + (i+1) => q + 0 = c + i
      BY <3>2
    <3>6. gs[i].kind = "event" /\ gs[i].seq + 0 = c + i
      BY <1>7, <3>3, <3>4, <3>5
    <3>7. QED
      BY <3>2, <3>6
  <2>3. Follows(gs, c, n)
    BY <1>1, <1>2, <1>7, <2>2 DEF Follows
  <2>4. QED
    BY <1>2, <2>1, <2>3 DEF gs
<1>8. QED
  BY <1>6, <1>7

\* A stream that has been read to its end has led to the last event.
LEMMA FollowsOut ==
  ASSUME NEW c \in Nat, NEW n \in Nat, Follows(<<>>, c, n)
  PROVE  c = n
  BY DEF Follows

\* What is left of a small subscription is small.
LEMMA SmallTail ==
  ASSUME NEW fs \in Seq(Frame), fs # <<>>, Small(fs)
  PROVE  Small(Tail(fs)) /\ Tail(fs) \in Seq(Frame) /\ Head(fs) \in Frame
<1>1. Tail(fs) \in Seq(Frame) /\ Head(fs) \in Frame /\ Len(fs) = Len(Tail(fs)) + 1
      /\ Len(Tail(fs)) \in Nat
  OBVIOUS
<1>2. Bytes(fs) = Bytes(Tail(fs)) + FrameSize(Head(fs)) /\ Bytes(Tail(fs)) \in Nat
      /\ FrameSize(Head(fs)) \in Nat
  BY <1>1, BytesTail, BytesNat, FrameSizeNat
<1>3. QED
  BY <1>1, <1>2, LimitsNat DEF Small

\* A new event reaches every reader that is attached, or cuts it off.
LEMMA RowPublished ==
  ASSUME NEW n \in Nat, NEW x \in Row(n), NEW e \in BOOLEAN, Served(x, n, FALSE, e),
         NEW t2 \in BOOLEAN, NEW e2 \in BOOLEAN, ~t2 \/ e2,
         NEW f \in Events, f.seq = n + 1
  PROVE  /\ [x EXCEPT !.sub = Deliver(x.sub, f)] \in Row(n + 1)
         /\ Served([x EXCEPT !.sub = Deliver(x.sub, f)], n + 1, t2, e2)
<1>. DEFINE s == x.sub
            d == Deliver(s, f)
            y == [x EXCEPT !.sub = d]
<1>1. s \in Sub /\ x.cursor \in Nat /\ x.cursor \in 0..n+1 /\ s.frames \in Seq(Frame)
      /\ Small(s.frames) /\ s.attached \in BOOLEAN /\ s.finishing \in BOOLEAN
  BY DEF Row, Sub, Served
<1>2. f \in Frame /\ f.kind = "event"
  BY DEF Frame, Events
<1>3. /\ x.phase # "open" => s = Unsubscribed
      /\ x.phase = "open" => s = Resynced \/ Streams(s, x.cursor, n, FALSE, e)
      /\ ~(x.phase = "ended" /\ ~x.resync)
  BY DEF Served
<1>. HIDE DEF s
<1>4. d \in Sub /\ Small(d.frames)
  BY <1>1, <1>2, PushedOn DEF Deliver
<1>5. x.phase # "open" => d = Unsubscribed
  <2>1. ~Unsubscribed.attached
    BY DEF Unsubscribed
  <2>2. s = Unsubscribed => d = s
    BY <2>1 DEF Deliver
  <2>3. QED
    BY <1>3, <2>2
<1>6. ASSUME x.phase = "open"
      PROVE  d = Resynced \/ Streams(d, x.cursor, n + 1, t2, e2)
  <2>1. CASE s = Resynced
    BY <2>1 DEF Deliver, Resynced
  <2>2. CASE Streams(s, x.cursor, n, FALSE, e)
    <3>1. s.attached /\ ~s.finishing /\ Follows(s.frames, x.cursor, n)
      BY <1>1, <2>2 DEF Streams
    <3>2. d = Push(s, f)
      BY <3>1 DEF Deliver
    <3>3. CASE d = [s EXCEPT !.frames = Append(s.frames, f)]
      <4>1. d.frames = Append(s.frames, f) /\ d.attached /\ ~d.finishing
        BY <1>1, <3>1, <3>3 DEF Sub
      <4>2. Follows(d.frames, x.cursor, n + 1)
        BY <1>1, <1>2, <3>1, <4>1, FollowsOn
      <4>3. QED
        BY <4>1, <4>2 DEF Streams
    <3>4. QED
      BY <1>1, <1>2, <3>2, <3>3, PushedOn
  <2>3. QED
    BY <1>3, <1>6, <2>1, <2>2
<1>. HIDE DEF d
<1>7. y \in Row(n + 1) /\ y.sub = d /\ y.phase = x.phase /\ y.cursor = x.cursor
      /\ y.resync = x.resync
  BY <1>1, <1>4 DEF Row
<1>. HIDE DEF y
<1>8. Served(y, n + 1, t2, e2)
  BY <1>3, <1>4, <1>5, <1>6, <1>7 DEF Served
<1>9. QED
  BY <1>7, <1>8 DEF y, d, s

-----------------------------------------------------------------------------
(* The ring. *)

\* Something can always be dropped until the rest fits.
LEMMA FitDrops ==
  ASSUME NEW h, h.ring \in Seq(Events)
  PROVE  \E k \in 0..Len(h.ring) : Fit(h) = Dropped(h, k) /\ ~TooLong(Dropped(h, k))
<1>. DEFINE T == {k \in 0..Len(h.ring) : ~TooLong(Dropped(h, k))}
            n == Len(h.ring)
<1>1. n \in Nat /\ n \in 0..n /\ T \in SUBSET Nat
  OBVIOUS
<1>2. SubSeq(h.ring, n + 1, n) = <<>>
  OBVIOUS
<1>3. ~TooLong(Dropped(h, n))
  BY <1>2, LimitsNat DEF TooLong, Dropped
<1>4. n \in T
  BY <1>1, <1>3
<1>5. Fit(h) = Dropped(h, Min(T))
  BY DEF Fit
<1>6. Min(T) \in T
  <2>. HIDE DEF T
  <2>1. QED
    BY <1>1, <1>4, MinIsLeast
<1>7. QED
  BY <1>5, <1>6

\* What remains of a run of events is its end.
LEMMA RestFollows ==
  ASSUME NEW g \in Seq(Events), NEW m \in Nat, NEW k \in 0..Len(g),
         \A i \in 1..Len(g) : g[i].seq = m - Len(g) + i
  PROVE  LET d == SubSeq(g, k + 1, Len(g))
         IN  /\ d \in Seq(Events) /\ Len(d) = Len(g) - k
             /\ \A i \in 1..Len(d) : d[i] = g[k+i] /\ d[i].seq = m - Len(d) + i
<1>. DEFINE d == SubSeq(g, k + 1, Len(g))
<1>1. Len(g) \in Nat /\ k \in Nat /\ k <= Len(g)
  OBVIOUS
<1>2. d \in Seq(Events) /\ Len(d) = Len(g) - k
  BY <1>1
<1>3. \A i \in 1..Len(d) : d[i] = g[k+i]
  BY <1>1
<1>. HIDE DEF d
<1>4. ASSUME NEW i \in 1..Len(d)
      PROVE  d[i].seq = m - Len(d) + i
  <2>1. k+i \in 1..Len(g) /\ m - Len(g) + (k+i) = m - Len(d) + i
    BY <1>1, <1>2
  <2>2. QED
    BY <1>3, <2>1
<1>5. QED
  BY <1>2, <1>3, <1>4 DEF d

\* The ring after an event holds the last events of the run again.
LEMMA RingPublished ==
  ASSUME TypeOK, Retained, NEW size \in Sizes, Publish(size)
  PROVE  /\ ring' \in Seq(Events) /\ ringBytes' \in Nat /\ truncated' \in BOOLEAN
         /\ Retained'
<1>. DEFINE e == Event(seq + 1, size)
            g == Append(ring, e)
            h == [ring |-> g, cut |-> truncated, bytes |-> ringBytes + size]
<1>1. seq \in Nat /\ ring \in Seq(Events) /\ Len(ring) \in Nat /\ truncated \in BOOLEAN
      /\ ringBytes \in Nat
  BY LimitsNat DEF TypeOK
<1>2. e \in Events /\ e.seq = seq + 1 /\ size \in Nat
  BY <1>1, LimitsNat DEF Event, Events
<1>3. seq' = seq + 1 /\ ring' = Fit(h).ring /\ ringBytes' = Fit(h).bytes
      /\ truncated' = Fit(h).cut
  BY DEF Publish
<1>. HIDE DEF e
<1>4. g \in Seq(Events) /\ Len(g) = Len(ring) + 1
  BY <1>1, <1>2
<1>5. \A i \in 1..Len(ring) : ring[i].seq = seq - Len(ring) + i
  BY <1>1 DEF Retained, Latest
<1>6. \A i \in 1..Len(g) : g[i].seq = (seq + 1) - Len(g) + i
  <2>1. TAKE i \in 1..Len(g)
  <2>2. CASE i \in 1..Len(ring)
    <3>1. g[i] = ring[i] /\ ring[i].seq = seq - Len(ring) + i
      BY <1>1, <1>2, <1>5, <2>2
    <3>2. seq - Len(ring) + i = (seq + 1) - Len(g) + i
      BY <1>1, <1>4
    <3>3. QED
      BY <3>1, <3>2
  <2>3. CASE i = Len(ring) + 1
    <3>1. g[i] = e
      BY <1>1, <1>2, <2>3
    <3>2. seq + 1 = (seq + 1) - Len(g) + i
      BY <1>1, <1>4, <2>3
    <3>3. QED
      BY <1>2, <3>1, <3>2
  <2>4. QED
    BY <1>1, <1>4, <2>2, <2>3
<1>. HIDE DEF g
<1>7. h.ring = g /\ h.cut = truncated /\ h.bytes = ringBytes + size
  OBVIOUS
<1>. HIDE DEF h
<1>8. PICK k \in 0..Len(g) : Fit(h) = Dropped(h, k) /\ ~TooLong(Dropped(h, k))
  BY <1>4, <1>7, FitDrops
<1>9. k \in Nat /\ ring' = SubSeq(g, k + 1, Len(g)) /\ truncated' = (truncated \/ k > 0)
      /\ ringBytes' = Max({0, (ringBytes + size) - Bytes(SubSeq(g, 1, k))})
  BY <1>3, <1>4, <1>7, <1>8 DEF Dropped
<1>10. ring' \in Seq(Events) /\ Len(ring') = Len(g) - k
       /\ \A i \in 1..Len(ring') : ring'[i].seq = (seq + 1) - Len(ring') + i
  <2>. DEFINE d == SubSeq(g, k + 1, Len(g))
  <2>1. seq + 1 \in Nat
    BY <1>1
  <2>2. /\ d \in Seq(Events) /\ Len(d) = Len(g) - k
        /\ \A i \in 1..Len(d) : d[i].seq = (seq + 1) - Len(d) + i
    BY <1>4, <1>6, <2>1, RestFollows
  <2>3. ring' = d
    BY <1>9
  <2>. HIDE DEF d
  <2>4. QED
    BY <2>2, <2>3
<1>11. Len(ring') <= RingMaxEvents
  <2>1. Dropped(h, k).ring = ring'
    BY <1>3, <1>8
  <2>2. Len(ring') \in Nat
    BY <1>10
  <2>3. QED
    BY <1>8, <2>1, <2>2, LimitsNat DEF TooLong
<1>12. ringBytes' \in Nat
  <2>1. SubSeq(g, 1, k) \in Seq(Events)
    BY <1>4
  <2>2. SubSeq(g, 1, k) \in Seq(Frame)
    BY <2>1 DEF Frame
  <2>3. Bytes(SubSeq(g, 1, k)) \in Nat
    BY <2>2, BytesNat
  <2>4. (ringBytes + size) - Bytes(SubSeq(g, 1, k)) \in Int
    BY <1>1, <1>2, <2>3
  <2>5. QED
    BY <1>9, <2>4, ClampNat
<1>13. truncated' \in BOOLEAN
  BY <1>9
<1>14. Latest(ring', seq')
  <2>1. Len(ring') <= seq'
    BY <1>1, <1>3, <1>4, <1>9, <1>10 DEF Retained, Latest
  <2>2. \A i \in DOMAIN ring' : ring'[i].seq = seq' - Len(ring') + i
    <3>1. DOMAIN ring' = 1..Len(ring')
      BY <1>10
    <3>2. QED
      BY <1>3, <1>10, <3>1
  <2>3. QED
    BY <1>11, <2>1, <2>2 DEF Latest
<1>15. ~truncated' => Len(ring') = seq'
  <2>1. ASSUME ~truncated'
        PROVE  Len(ring') = seq'
    <3>1. ~truncated /\ ~(k > 0)
      BY <1>9, <2>1
    <3>2. Len(ring) = seq
      BY <3>1 DEF Retained
    <3>3. k = 0
      BY <1>9, <3>1
    <3>4. QED
      BY <1>1, <1>3, <1>4, <1>10, <3>2, <3>3
  <2>2. QED
    BY <2>1
<1>16. QED
  BY <1>10, <1>12, <1>13, <1>14, <1>15 DEF Retained

\* What is replayed to a cursor that can be served is what follows it, event by
\* event up to the last one.
LEMMA PastFollows ==
  ASSUME TypeOK, Retained, NEW c \in 0..seq, Replayable(c)
  PROVE  /\ Past(c) \in Seq(Events) /\ Len(Past(c)) = seq - c
         /\ \A i \in 1..Len(Past(c)) : Past(c)[i].seq = c + i
<1>. DEFINE new == {i \in DOMAIN ring : ring[i].seq > c}
            n == Len(ring)
<1>1. seq \in Nat /\ c \in Nat /\ c <= seq /\ ring \in Seq(Events) /\ n \in Nat /\ n <= seq
      /\ DOMAIN ring = 1..n
  BY LimitsNat DEF TypeOK, Retained, Latest
<1>2. \A i \in 1..n : ring[i].seq = seq - n + i
  BY <1>1 DEF Retained, Latest
<1>3. new = {i \in 1..n : seq - n + i > c}
  BY <1>1, <1>2
<1>4. n # 0 => seq - n <= c
  <2>1. ASSUME n # 0
        PROVE  seq - n <= c
    <3>1. ring # <<>> /\ 1 \in 1..n
      BY <1>1, <2>1
    <3>2. CASE ~truncated
      BY <1>1, <3>2 DEF Retained
    <3>3. CASE c >= ring[1].seq - 1
      <4>1. ring[1].seq = seq - n + 1
        BY <1>2, <3>1
      <4>2. QED
        BY <1>1, <3>3, <4>1
    <3>4. QED
      BY <3>1, <3>2, <3>3 DEF Replayable
  <2>2. QED
    BY <2>1
<1>5. n = 0 => seq = c
  <2>1. n = 0 => ring = <<>>
    BY <1>1
  <2>2. QED
    BY <2>1 DEF Replayable
<1>6. CASE new = {}
  <2>1. Past(c) = <<>>
    BY <1>6 DEF Past
  <2>2. n # 0 => n \in 1..n /\ ~(n \in new)
    BY <1>1, <1>6
  <2>3. n # 0 => ~(seq - n + n > c)
    <3>. HIDE DEF new, n
    <3>1. QED
      BY <1>3, <2>2
  <2>4. seq = c
    BY <1>1, <1>5, <2>3
  <2>5. <<>> \in Seq(Events) /\ Len(<<>>) = 0
    OBVIOUS
  <2>6. QED
    BY <1>1, <2>1, <2>4, <2>5
<1>7. CASE new # {}
  <2>. DEFINE j == c - (seq - n)
  <2>1. n # 0
    BY <1>1, <1>7
  <2>2. j \in Nat /\ j <= n
    BY <1>1, <1>4, <2>1
  <2>. HIDE DEF new
  <2>3. new \in SUBSET Nat /\ \A i \in Nat : i \in new <=> (i \in 1..n /\ i > j)
    BY <1>1, <1>3
  <2>4. Min(new) \in new /\ \A i \in new : Min(new) <= i
    BY <1>7, <2>3, MinIsLeast
  <2>. DEFINE m == Min(new)
  <2>. HIDE DEF m, n, j
  <2>5. m \in Nat /\ m \in 1..n /\ m > j /\ \A i \in new : m <= i
    BY <2>3, <2>4 DEF m
  <2>6. j + 1 \in new
    BY <1>1, <2>2, <2>3, <2>5
  <2>7. m = j + 1
    BY <2>2, <2>5, <2>6
  <2>8. Past(c) = SubSeq(ring, j + 1, n)
    BY <1>7, <2>7 DEF Past, new, m, n
  <2>9. j \in 0..Len(ring) /\ \A i \in 1..Len(ring) : ring[i].seq = seq - Len(ring) + i
    BY <1>1, <1>2, <2>2 DEF n
  <2>. DEFINE d == SubSeq(ring, j + 1, Len(ring))
  <2>10. /\ d \in Seq(Events) /\ Len(d) = Len(ring) - j
         /\ \A i \in 1..Len(d) : d[i].seq = seq - Len(d) + i
    BY <1>1, <2>9, RestFollows
  <2>11. Past(c) = d
    BY <2>8 DEF n
  <2>. HIDE DEF d
  <2>12. Len(ring) - j = seq - c
    BY <1>1 DEF j, n
  <2>13. QED
    BY <1>1, <2>10, <2>11, <2>12
<1>8. QED
  BY <1>6, <1>7

\* A new subscription leads on from its cursor, or it asks for a new start.
LEMMA SubscriptionServes ==
  ASSUME TypeOK, Retained, NEW c \in 0..seq, Replayable(c), ~closing
  PROVE  /\ Subscription(c) \in Sub /\ Small(Subscription(c).frames)
         /\ \/ Subscription(c) = Resynced
            \/ Streams(Subscription(c), c, seq, terminal, closing)
<1>. DEFINE p == Past(c)
            fs == <<Mark("subscribed")>> \o p
            s == [frames |-> fs, attached |-> TRUE, finishing |-> FALSE]
            f == [frames |-> fs, attached |-> FALSE, finishing |-> TRUE]
<1>1. p \in Seq(Events) /\ Len(p) = seq - c /\ \A i \in 1..Len(p) : p[i].seq = c + i
  BY PastFollows
<1>2. seq \in Nat /\ c \in Nat /\ c <= seq /\ terminal \in BOOLEAN /\ closing \in BOOLEAN
  BY LimitsNat DEF TypeOK
<1>. HIDE DEF p
<1>3. Mark("subscribed") \in Frame /\ Mark("subscribed").kind = "subscribed"
  BY MarkIsFrame DEF Mark
<1>4. p \in Seq(Frame) /\ \A i \in 1..Len(p) : p[i].kind = "event"
  <2>1. p \in Seq(Frame)
    BY <1>1 DEF Frame
  <2>2. \A i \in 1..Len(p) : p[i] \in Events
    BY <1>1
  <2>3. QED
    BY <2>1, <2>2 DEF Events
<1>5. fs \in Seq(Frame) /\ Len(fs) = Len(p) + 1 /\ fs[1] = Mark("subscribed")
      /\ \A i \in 1..Len(fs) : i # 1 => i-1 \in 1..Len(p) /\ fs[i] = p[i-1]
  BY <1>3, <1>4
<1>. HIDE DEF fs
<1>6. Follows(fs, c, seq)
  <2>1. 1 \in 0..1 /\ 1 <= Len(fs) /\ c + Len(fs) = seq + 1
    BY <1>1, <1>2, <1>5
  <2>2. ASSUME NEW i \in 1..Len(fs)
        PROVE  IF i <= 1 THEN fs[i].kind = "subscribed"
               ELSE fs[i].kind = "event" /\ fs[i].seq + 1 = c + i
    <3>1. CASE i = 1
      BY <1>3, <1>5, <3>1
    <3>2. CASE i # 1
      <4>1. i-1 \in 1..Len(p) /\ fs[i] = p[i-1] /\ ~(i <= 1) /\ i \in Nat
        BY <1>5, <3>2
      <4>2. p[i-1].seq = c + (i-1) /\ p[i-1].kind = "event"
        BY <1>1, <1>4, <4>1
      <4>3. c + (i-1) + 1 = c + i
        BY <1>2, <4>1
      <4>4. QED
        BY <4>1, <4>2, <4>3
    <3>3. QED
      BY <3>1, <3>2
  <2>3. QED
    BY <2>1, <2>2 DEF Follows
<1>7. Subscribed(c) = IF Len(fs) > SubMaxEvents \/ Bytes(fs) > SubMaxBytes THEN Resynced ELSE s
  BY DEF Subscribed, fs, p
<1>8. Finish(Resynced) = Resynced /\ Finish(s) = f
  BY DEF Finish, Resynced
<1>9. \/ Subscription(c) = Resynced
      \/ Subscription(c) = s /\ ~terminal /\ Small(fs)
      \/ Subscription(c) = f /\ terminal /\ Small(fs)
  <2>1. Len(fs) \in Nat /\ Bytes(fs) \in Nat
    BY <1>5, BytesNat
  <2>2. CASE Subscribed(c) = Resynced
    BY <1>8, <2>2 DEF Subscription
  <2>3. CASE Subscribed(c) = s /\ ~(Len(fs) > SubMaxEvents \/ Bytes(fs) > SubMaxBytes)
    <3>1. Small(fs)
      BY <2>1, <2>3, LimitsNat DEF Small
    <3>2. CASE terminal
      BY <1>8, <2>3, <3>1, <3>2 DEF Subscription
    <3>3. CASE ~terminal
      BY <2>3, <3>1, <3>3 DEF Subscription
    <3>4. QED
      BY <3>2, <3>3
  <2>4. QED
    BY <1>7, <2>2, <2>3
<1>10. s \in Sub /\ f \in Sub
  BY <1>5 DEF Sub
<1>11. CASE Subscription(c) = Resynced
  BY <1>11, ResyncedTyped
<1>12. CASE Subscription(c) = s /\ ~terminal /\ Small(fs)
  <2>1. Streams(s, c, seq, terminal, closing)
    BY <1>6, <1>12 DEF Streams
  <2>2. s.frames = fs
    OBVIOUS
  <2>. HIDE DEF s
  <2>3. QED
    BY <1>10, <1>12, <2>1, <2>2
<1>13. CASE Subscription(c) = f /\ terminal /\ Small(fs)
  <2>1. Streams(f, c, seq, terminal, closing)
    BY <1>6, <1>13 DEF Streams
  <2>2. f.frames = fs
    OBVIOUS
  <2>. HIDE DEF f
  <2>3. QED
    BY <1>10, <1>13, <2>1, <2>2
<1>14. QED
  BY <1>9, <1>11, <1>12, <1>13

-----------------------------------------------------------------------------
(* Every step preserves the invariant. *)

RunTyped ==
  /\ seq \in 0..LastSeq /\ emits \in 0..MaxEmits
  /\ ring \in Seq(Events) /\ ringBytes \in Nat /\ truncated \in BOOLEAN
  /\ budget \in [events : 0..MaxEvents, bytes : 0..MaxEventBytes, cut : BOOLEAN]
  /\ terminal \in BOOLEAN /\ closing \in BOOLEAN

AllServed == \A r \in Readers : Served(reader[r], seq, terminal, closing)

\* The invariant is one of the run, one of the ring and one of each reader.
LEMMA Parts ==
  /\ TypeOK <=> RunTyped /\ reader \in [Readers -> Row(seq)]
  /\ TypeOK' <=> RunTyped' /\ reader' \in [Readers -> Row(seq')]
  /\ IInv <=> TypeOK /\ Counted /\ Retained /\ AllServed
  /\ IInv' <=> TypeOK' /\ Counted' /\ Retained' /\ AllServed'
  BY DEF TypeOK, RunTyped, Row, Sub, Frame, IInv, AllServed

\* It holds at first.
LEMMA InvInit == Init => IInv
<1>. SUFFICES ASSUME Init PROVE IInv
  OBVIOUS
<1>. USE DEF Init
<1>1. RunTyped
  <2>1. seq \in 0..LastSeq /\ emits \in 0..MaxEmits /\ ringBytes \in Nat
    BY LimitsNat DEF LastSeq
  <2>2. ring \in Seq(Events)
    OBVIOUS
  <2>3. budget \in [events : 0..MaxEvents, bytes : 0..MaxEventBytes, cut : BOOLEAN]
    BY LimitsNat
  <2>4. QED
    BY <2>1, <2>2, <2>3 DEF RunTyped
<1>2. NewReader \in Row(0) /\ NewReader.sub = Unsubscribed /\ NewReader.phase = "none"
  BY UnsubscribedTyped DEF NewReader, Row
<1>3. Served(NewReader, 0, FALSE, FALSE)
  BY <1>2, UnsubscribedTyped DEF Served
<1>4. reader \in [Readers -> Row(seq)] /\ AllServed
  BY <1>2, <1>3 DEF AllServed
<1>5. Counted
  BY DEF Counted
<1>6. Retained
  BY LimitsNat DEF Retained, Latest
<1>7. QED
  BY <1>1, <1>4, <1>5, <1>6, Parts

\* A step of one reader.
LEMMA OneReader ==
  ASSUME IInv, NEW r \in Readers, NEW y \in Row(seq), Served(y, seq, terminal, closing),
         reader' = [reader EXCEPT ![r] = y], UNCHANGED runVars
  PROVE  IInv'
<1>1. TypeOK /\ Counted /\ Retained /\ AllServed /\ RunTyped /\ reader \in [Readers -> Row(seq)]
  BY Parts
<1>2. /\ seq' = seq /\ ring' = ring /\ ringBytes' = ringBytes /\ truncated' = truncated
      /\ budget' = budget /\ terminal' = terminal /\ closing' = closing /\ emits' = emits
  BY DEF runVars
<1>3. RunTyped' /\ Counted' /\ Retained'
  BY <1>1, <1>2 DEF RunTyped, Counted, Retained
<1>4. reader' \in [Readers -> Row(seq')]
  BY <1>1, <1>2
<1>5. \A x \in Readers : reader'[x] \in {y, reader[x]}
  BY <1>1
<1>6. AllServed'
  BY <1>1, <1>2, <1>5 DEF AllServed
<1>7. QED
  BY <1>3, <1>4, <1>6, Parts

\* A new event.
LEMMA PublishServes ==
  ASSUME IInv, NEW size \in Sizes, Publish(size), ~terminal,
         terminal' \in BOOLEAN, closing' \in BOOLEAN, ~terminal' \/ closing',
         emits' \in 0..MaxEmits, Counted',
         budget' \in [events : 0..MaxEvents, bytes : 0..MaxEventBytes, cut : BOOLEAN]
  PROVE  IInv'
<1>. DEFINE e == Event(seq + 1, size)
<1>1. TypeOK /\ Counted /\ Retained /\ AllServed /\ RunTyped /\ reader \in [Readers -> Row(seq)]
  BY Parts
<1>2. seq \in Nat /\ seq' = seq + 1 /\ closing \in BOOLEAN
  BY <1>1, LimitsNat DEF RunTyped, Publish
<1>3. e \in Events /\ e.seq = seq + 1
  BY <1>2, LimitsNat DEF Event, Events
<1>4. reader' = [r \in Readers |-> [reader[r] EXCEPT !.sub = Deliver(reader[r].sub, e)]]
  BY DEF Publish
<1>. HIDE DEF e
<1>5. ring' \in Seq(Events) /\ ringBytes' \in Nat /\ truncated' \in BOOLEAN /\ Retained'
  BY <1>1, RingPublished
<1>6. ASSUME NEW r \in Readers
      PROVE  reader'[r] \in Row(seq') /\ Served(reader'[r], seq', terminal', closing')
  <2>1. terminal = FALSE
    BY <1>1 DEF RunTyped
  <2>2. reader[r] \in Row(seq) /\ Served(reader[r], seq, FALSE, closing)
    BY <1>1, <2>1 DEF AllServed
  <2>. DEFINE y == [reader[r] EXCEPT !.sub = Deliver(reader[r].sub, e)]
  <2>3. y \in Row(seq + 1) /\ Served(y, seq + 1, terminal', closing')
    BY <1>2, <1>3, <2>2, RowPublished
  <2>4. reader'[r] = y
    BY <1>4
  <2>. HIDE DEF y
  <2>5. QED
    BY <1>2, <2>3, <2>4
<1>7. reader' \in [Readers -> Row(seq')]
  <2>1. reader' = [r \in Readers |-> reader'[r]]
    BY <1>4
  <2>2. QED
    BY <1>6, <2>1
<1>8. seq' \in 0..LastSeq
  <2>. DEFINE k == IF terminal' THEN 2 ELSE IF closing' THEN 1 ELSE 0
  <2>1. seq' <= emits' + k
    BY DEF Counted
  <2>2. k \in {0, 1, 2}
    OBVIOUS
  <2>. HIDE DEF k
  <2>3. emits' \in Nat /\ emits' <= MaxEmits
    BY LimitsNat
  <2>4. seq' \in Nat
    BY <1>2
  <2>5. \A a, b, m \in Nat : a <= b + k /\ b <= m => a \in 0..m+2
    BY <2>2
  <2>6. QED
    BY <2>1, <2>3, <2>4, <2>5, LimitsNat DEF LastSeq
<1>9. RunTyped'
  BY <1>5, <1>8 DEF RunTyped
<1>10. AllServed'
  BY <1>6 DEF AllServed
<1>11. QED
  BY <1>5, <1>7, <1>9, <1>10, Parts

\* Progress within the budget.
LEMMA EmitInv ==
  ASSUME IInv, NEW size \in Sizes, Emit(size)
  PROVE  IInv'
<1>1. RunTyped /\ Counted
  BY Parts
<1>2. emits' = emits + 1 /\ emits < MaxEmits /\ ~terminal /\ ~closing /\ Fits(size)
      /\ terminal' = terminal /\ closing' = closing /\ Publish(size)
      /\ budget' = [budget EXCEPT !.events = budget.events + 1, !.bytes = budget.bytes + size]
  BY DEF Emit
<1>3. emits' \in 0..MaxEmits
  BY <1>1, <1>2, LimitsNat DEF RunTyped
<1>4. seq \in Nat /\ emits \in Nat /\ seq' = seq + 1
  BY <1>1, <1>2, LimitsNat DEF RunTyped, Publish
<1>5. Counted'
  BY <1>1, <1>2, <1>4 DEF Counted
<1>6. budget.events + 1 \in 0..MaxEvents /\ budget.bytes + size \in 0..MaxEventBytes
  <2>1. budget.events \in Nat /\ budget.bytes \in Nat /\ size \in Nat
    BY <1>1, LimitsNat DEF RunTyped
  <2>2. budget.events < MaxEvents /\ budget.bytes + size <= MaxEventBytes
    BY <1>2 DEF Fits
  <2>3. QED
    BY <2>1, <2>2, LimitsNat
<1>7. budget' \in [events : 0..MaxEvents, bytes : 0..MaxEventBytes, cut : BOOLEAN]
  BY <1>1, <1>2, <1>6 DEF RunTyped
<1>8. QED
  BY <1>1, <1>2, <1>3, <1>5, <1>7, PublishServes DEF RunTyped

\* The error event of a failed run.
LEMMA FailInv ==
  ASSUME IInv, NEW size \in Sizes, Fail(size)
  PROVE  IInv'
<1>1. RunTyped /\ Counted
  BY Parts
<1>2. emits' = emits /\ budget' = budget /\ ~terminal /\ ~closing /\ closing' = TRUE
      /\ terminal' = terminal /\ Publish(size)
  BY DEF Fail
<1>3. seq \in Nat /\ emits \in Nat /\ seq' = seq + 1
  BY <1>1, <1>2, LimitsNat DEF RunTyped, Publish
<1>4. Counted'
  BY <1>1, <1>2, <1>3 DEF Counted
<1>5. QED
  BY <1>1, <1>2, <1>4, PublishServes DEF RunTyped

\* The completed event.
LEMMA CompleteInv ==
  ASSUME IInv, NEW size \in Sizes, Complete(size)
  PROVE  IInv'
<1>1. RunTyped /\ Counted
  BY Parts
<1>2. emits' = emits /\ budget' = budget /\ ~terminal /\ closing' = TRUE
      /\ terminal' = TRUE /\ Publish(size)
  BY DEF Complete
<1>3. seq \in Nat /\ emits \in Nat /\ seq' = seq + 1
  BY <1>1, <1>2, LimitsNat DEF RunTyped, Publish
<1>4. Counted'
  BY <1>1, <1>2, <1>3 DEF Counted
<1>5. QED
  BY <1>1, <1>2, <1>4, PublishServes DEF RunTyped

\* Readers that are sent to the saved record.
LEMMA EmitRefusedInv ==
  ASSUME IInv, NEW size \in Sizes, EmitRefused(size)
  PROVE  IInv'
<1>1. TypeOK /\ Counted /\ Retained /\ AllServed /\ RunTyped /\ reader \in [Readers -> Row(seq)]
  BY Parts
<1>2. /\ seq' = seq /\ ring' = ring /\ ringBytes' = ringBytes /\ truncated' = truncated
      /\ terminal' = terminal /\ closing' = closing
      /\ emits < MaxEmits /\ emits' = emits + 1 /\ budget' = [budget EXCEPT !.cut = TRUE]
  BY DEF EmitRefused
<1>3. RunTyped'
  <2>1. emits' \in 0..MaxEmits
    BY <1>1, <1>2, LimitsNat DEF RunTyped
  <2>2. budget' \in [events : 0..MaxEvents, bytes : 0..MaxEventBytes, cut : BOOLEAN]
    BY <1>1, <1>2 DEF RunTyped
  <2>3. QED
    BY <1>1, <1>2, <2>1, <2>2 DEF RunTyped
<1>4. Counted' /\ Retained'
  <2>1. seq \in Nat /\ emits \in Nat
    BY <1>1, LimitsNat DEF RunTyped
  <2>2. \A k \in {0, 1, 2} : seq <= emits + k => seq <= (emits + 1) + k
    BY <2>1
  <2>3. (IF terminal THEN 2 ELSE IF closing THEN 1 ELSE 0) \in {0, 1, 2}
    OBVIOUS
  <2>4. Counted'
    BY <1>1, <1>2, <2>2, <2>3 DEF Counted
  <2>5. Retained'
    BY <1>1, <1>2 DEF Retained
  <2>6. QED
    BY <2>4, <2>5
<1>5. CASE budget.cut
  <2>1. reader' = reader
    BY <1>5 DEF EmitRefused
  <2>2. reader' \in [Readers -> Row(seq')] /\ AllServed'
    BY <1>1, <1>2, <2>1 DEF AllServed
  <2>3. QED
    BY <1>3, <1>4, <2>2, Parts
<1>6. CASE ~budget.cut
  <2>1. reader' = [r \in Readers |-> [reader[r] EXCEPT !.sub = CutOff(reader[r].sub)]]
    BY <1>6 DEF EmitRefused
  <2>2. ASSUME NEW r \in Readers
        PROVE  reader'[r] \in Row(seq') /\ Served(reader'[r], seq', terminal', closing')
    <3>. DEFINE x == reader[r]
                d == CutOff(x.sub)
                y == [x EXCEPT !.sub = d]
    <3>1. x \in Row(seq) /\ Served(x, seq, terminal, closing) /\ x.sub \in Sub
      BY <1>1 DEF AllServed, Row
    <3>2. reader'[r] = y
      BY <2>1
    <3>. HIDE DEF x
    <3>3. d \in {x.sub, Resynced} /\ (d = x.sub \/ x.sub.attached)
      BY DEF CutOff
    <3>4. ~Unsubscribed.attached
      BY DEF Unsubscribed
    <3>5. d \in Sub /\ Small(d.frames)
      BY <3>1, <3>3, ResyncedTyped DEF Served
    <3>. HIDE DEF d
    <3>6. y \in Row(seq) /\ y.sub = d /\ y.phase = x.phase /\ y.cursor = x.cursor
          /\ y.resync = x.resync
      BY <3>1, <3>5 DEF Row
    <3>. HIDE DEF y
    <3>7. Served(y, seq, terminal, closing)
      BY <3>1, <3>3, <3>4, <3>5, <3>6 DEF Served
    <3>8. QED
      BY <1>2, <3>2, <3>6, <3>7
  <2>3. reader' \in [Readers -> Row(seq')]
    <3>1. reader' = [r \in Readers |-> reader'[r]]
      BY <2>1
    <3>2. QED
      BY <2>2, <3>1
  <2>4. AllServed'
    BY <2>2 DEF AllServed
  <2>5. QED
    BY <1>3, <1>4, <2>3, <2>4, Parts
<1>7. QED
  BY <1>5, <1>6

\* Readers that are told that nothing follows.
LEMMA CloseSubscribersInv ==
  ASSUME IInv, CloseSubscribers
  PROVE  IInv'
<1>1. TypeOK /\ Counted /\ Retained /\ AllServed /\ RunTyped /\ reader \in [Readers -> Row(seq)]
  BY Parts
<1>2. /\ seq' = seq /\ ring' = ring /\ ringBytes' = ringBytes /\ truncated' = truncated
      /\ terminal' = terminal /\ terminal /\ closing' = FALSE /\ emits' = emits /\ budget' = budget
  BY DEF CloseSubscribers
<1>3. RunTyped'
  BY <1>1, <1>2, LimitsNat DEF RunTyped
<1>4. Counted' /\ Retained'
  BY <1>1, <1>2, LimitsNat DEF Counted, Retained, RunTyped
<1>5. reader' = [r \in Readers |-> [reader[r] EXCEPT !.sub = Finish(reader[r].sub)]]
  BY DEF CloseSubscribers
<1>6. ASSUME NEW r \in Readers
      PROVE  reader'[r] \in Row(seq') /\ Served(reader'[r], seq', terminal', closing')
  <2>. DEFINE x == reader[r]
              s == x.sub
              d == Finish(s)
              y == [x EXCEPT !.sub = d]
  <2>1. x \in Row(seq) /\ Served(x, seq, terminal, closing) /\ s \in Sub
    BY <1>1 DEF AllServed, Row
  <2>2. reader'[r] = y
    BY <1>5
  <2>3. s = x.sub
    OBVIOUS
  <2>. HIDE DEF x, s
  <2>4. ~Unsubscribed.attached /\ ~Resynced.attached
    BY DEF Unsubscribed, Resynced
  <2>5. CASE ~s.attached
    <3>1. d = s
      BY <2>5 DEF Finish
    <3>2. y = x
      BY <2>1, <2>3, <3>1 DEF Row
    <3>. HIDE DEF y
    <3>3. Streams(s, x.cursor, seq, terminal, closing) => Streams(s, x.cursor, seq, terminal, FALSE)
      BY <2>5 DEF Streams
    <3>4. Served(x, seq, terminal, FALSE)
      BY <2>1, <2>3, <3>3 DEF Served
    <3>5. QED
      BY <1>2, <2>1, <2>2, <3>2, <3>4
  <2>6. CASE s.attached
    <3>1. d = [s EXCEPT !.attached = FALSE, !.finishing = TRUE]
      BY <2>6 DEF Finish
    <3>2. d \in Sub /\ d.frames = s.frames /\ ~d.attached /\ d.finishing
      BY <2>1, <3>1 DEF Sub
    <3>3. Small(d.frames) /\ x.phase = "open" /\ Streams(s, x.cursor, seq, terminal, closing)
      BY <2>1, <2>3, <2>4, <2>6, <3>2 DEF Served
    <3>4. Streams(d, x.cursor, seq, terminal, FALSE)
      BY <1>2, <3>2, <3>3 DEF Streams
    <3>. HIDE DEF d
    <3>5. y \in Row(seq) /\ y.sub = d /\ y.phase = x.phase /\ y.cursor = x.cursor
          /\ y.resync = x.resync
      BY <2>1, <3>2 DEF Row
    <3>. HIDE DEF y
    <3>6. Served(y, seq, terminal, FALSE)
      BY <3>3, <3>4, <3>5 DEF Served
    <3>7. QED
      BY <1>2, <2>2, <3>5, <3>6
  <2>7. QED
    BY <2>5, <2>6
<1>7. reader' \in [Readers -> Row(seq')]
  <2>1. reader' = [r \in Readers |-> reader'[r]]
    BY <1>5
  <2>2. QED
    BY <1>6, <2>1
<1>8. AllServed'
  BY <1>6 DEF AllServed
<1>9. QED
  BY <1>3, <1>4, <1>7, <1>8, Parts

\* A reader takes a fresh snapshot.
LEMMA SnapshotInv ==
  ASSUME IInv, NEW r \in Readers, Snapshot(r)
  PROVE  IInv'
<1>1. RunTyped /\ Retained
  BY Parts
<1>2. PICK n \in {seq} \cup {ring[i].seq : i \in DOMAIN ring} :
        reader' = [reader EXCEPT ![r] = [NewReader EXCEPT !.phase = "snapshot", !.cursor = n]]
  BY DEF Snapshot
<1>. DEFINE y == [NewReader EXCEPT !.phase = "snapshot", !.cursor = n]
<1>3. n \in 0..seq
  <2>1. seq \in Nat /\ ring \in Seq(Events) /\ Len(ring) <= seq /\ DOMAIN ring = 1..Len(ring)
    BY <1>1, LimitsNat DEF RunTyped, Retained, Latest
  <2>2. \A i \in DOMAIN ring : ring[i].seq = seq - Len(ring) + i
    BY <1>1 DEF Retained, Latest
  <2>3. \A i \in DOMAIN ring : seq - Len(ring) + i \in 0..seq
    BY <2>1
  <2>4. QED
    BY <1>2, <2>1, <2>2, <2>3
<1>4. y \in Row(seq) /\ y.phase = "snapshot" /\ y.sub = Unsubscribed
  BY <1>3, UnsubscribedTyped DEF NewReader, Row
<1>5. Served(y, seq, terminal, closing)
  <2>. HIDE DEF y
  <2>1. QED
    BY <1>4, UnsubscribedTyped DEF Served
<1>6. reader' = [reader EXCEPT ![r] = y] /\ UNCHANGED runVars
  BY <1>2 DEF Snapshot
<1>. HIDE DEF y
<1>7. QED
  BY <1>4, <1>5, <1>6, OneReader

\* A reader that asked for what is no longer there starts anew.
LEMMA RefusedServes ==
  ASSUME NEW n \in Nat, NEW x \in Row(n), NEW t, NEW e, Served(x, n, t, e), x.phase = "snapshot"
  PROVE  /\ [x EXCEPT !.phase = "ended", !.resync = TRUE] \in Row(n)
         /\ Served([x EXCEPT !.phase = "ended", !.resync = TRUE], n, t, e)
<1>. DEFINE y == [x EXCEPT !.phase = "ended", !.resync = TRUE]
<1>1. y \in Row(n) /\ y.phase = "ended" /\ y.resync /\ y.sub = x.sub
  BY DEF Row
<1>2. x.sub = Unsubscribed
  BY DEF Served
<1>. HIDE DEF y
<1>3. Served(y, n, t, e)
  BY <1>1, <1>2, UnsubscribedTyped DEF Served
<1>4. QED
  BY <1>1, <1>3 DEF y

\* A reader takes over what came after its cursor, or a page of it.
LEMMA RefreshInv ==
  ASSUME IInv, NEW r \in Readers, Refresh(r)
  PROVE  IInv'
<1>. DEFINE x == reader[r]
<1>1. RunTyped /\ reader \in [Readers -> Row(seq)] /\ seq \in Nat
  BY Parts, LimitsNat DEF RunTyped
<1>2. x \in Row(seq) /\ Served(x, seq, terminal, closing) /\ x.phase = "snapshot"
      /\ UNCHANGED runVars
  BY <1>1, Parts DEF AllServed, Refresh
<1>3. CASE Replayable(reader[r].cursor)
  <2>1. PICK n \in reader[r].cursor + 1 .. seq : reader' = [reader EXCEPT ![r].cursor = n]
    BY <1>3 DEF Refresh
  <2>. DEFINE y == [x EXCEPT !.cursor = n]
  <2>2. reader' = [reader EXCEPT ![r] = y]
    BY <2>1
  <2>3. x.cursor \in Nat /\ n \in 0..seq
    BY <1>1, <1>2 DEF Row
  <2>. HIDE DEF x
  <2>4. y \in Row(seq) /\ y.phase = "snapshot" /\ y.sub = x.sub
    BY <1>2, <2>3 DEF Row
  <2>5. x.sub = Unsubscribed
    BY <1>2 DEF Served
  <2>. HIDE DEF y
  <2>6. Served(y, seq, terminal, closing)
    BY <2>4, <2>5, UnsubscribedTyped DEF Served
  <2>7. QED
    BY <1>2, <2>2, <2>4, <2>6, OneReader
<1>4. CASE ~Replayable(reader[r].cursor)
  <2>. DEFINE y == [x EXCEPT !.phase = "ended", !.resync = TRUE]
  <2>1. reader' = [reader EXCEPT ![r].phase = "ended", ![r].resync = TRUE]
    BY <1>4 DEF Refresh
  <2>2. reader' = [reader EXCEPT ![r] = y]
    BY <1>1, <2>1
  <2>. HIDE DEF x
  <2>3. y \in Row(seq) /\ Served(y, seq, terminal, closing)
    BY <1>1, <1>2, RefusedServes
  <2>. HIDE DEF y
  <2>4. QED
    BY <1>2, <2>2, <2>3, OneReader
<1>5. QED
  BY <1>3, <1>4

\* A reader subscribes after its cursor.
LEMMA SubscribeInv ==
  ASSUME IInv, NEW r \in Readers, Subscribe(r)
  PROVE  IInv'
<1>. DEFINE x == reader[r]
            s == Subscription(x.cursor)
<1>1. TypeOK /\ RunTyped /\ Retained /\ reader \in [Readers -> Row(seq)] /\ seq \in Nat
  BY Parts, LimitsNat DEF RunTyped
<1>2. x \in Row(seq) /\ Served(x, seq, terminal, closing) /\ x.phase = "snapshot" /\ ~closing
      /\ UNCHANGED runVars
  BY <1>1, Parts DEF AllServed, Subscribe
<1>3. reader' = [reader EXCEPT ![r] =
                   IF Replayable(x.cursor) THEN [x EXCEPT !.phase = "open", !.sub = s]
                   ELSE [x EXCEPT !.phase = "ended", !.resync = TRUE]]
  BY <1>1 DEF Subscribe
<1>4. x.cursor \in 0..seq
  BY <1>2 DEF Row
<1>. HIDE DEF x
<1>5. CASE Replayable(x.cursor)
  <2>. DEFINE y == [x EXCEPT !.phase = "open", !.sub = s]
  <2>1. s \in Sub /\ Small(s.frames)
        /\ (s = Resynced \/ Streams(s, x.cursor, seq, terminal, closing))
    BY <1>1, <1>2, <1>4, <1>5, SubscriptionServes
  <2>2. reader' = [reader EXCEPT ![r] = y]
    BY <1>3, <1>5
  <2>. HIDE DEF s
  <2>3. y \in Row(seq) /\ y.phase = "open" /\ y.sub = s /\ y.cursor = x.cursor
    BY <1>2, <2>1 DEF Row
  <2>. HIDE DEF y
  <2>4. Served(y, seq, terminal, closing)
    BY <2>1, <2>3 DEF Served
  <2>5. QED
    BY <1>2, <2>2, <2>3, <2>4, OneReader
<1>6. CASE ~Replayable(x.cursor)
  <2>. DEFINE y == [x EXCEPT !.phase = "ended", !.resync = TRUE]
  <2>1. y \in Row(seq) /\ Served(y, seq, terminal, closing)
    BY <1>1, <1>2, RefusedServes
  <2>2. reader' = [reader EXCEPT ![r] = y]
    BY <1>3, <1>6
  <2>. HIDE DEF y
  <2>3. QED
    BY <1>2, <2>1, <2>2, OneReader
<1>7. QED
  BY <1>5, <1>6

\* After a frame a reader is served as before, one event further at most.
LEMMA AfterServes ==
  ASSUME NEW n \in Nat, NEW x \in Row(n), NEW t \in BOOLEAN, NEW e \in BOOLEAN,
         Served(x, n, t, e), x.phase = "open", x.sub.frames # <<>>
  PROVE  /\ Read(x) \in Row(n) /\ Served(Read(x), n, t, e)
         /\ Read(x).cursor \in {x.cursor, x.cursor + 1}
<1>. DEFINE s == x.sub
            fs == s.frames
            f == Head(fs)
            gs == Tail(fs)
            ends == f.kind = "resync_required" \/ (s.finishing /\ Len(fs) = 1)
            c == IF f.kind = "event" THEN f.seq ELSE x.cursor
            d == IF ends THEN Unsubscribed ELSE [s EXCEPT !.frames = gs]
            y == Read(x)
<1>1. s \in Sub /\ fs \in Seq(Frame) /\ fs # <<>> /\ Small(fs) /\ x.cursor \in 0..n
      /\ x.cursor \in Nat
  BY DEF Row, Sub, Served
<1>2. gs \in Seq(Frame) /\ f \in Frame /\ Small(gs) /\ Len(fs) = Len(gs) + 1 /\ Len(gs) \in Nat
  BY <1>1, SmallTail
<1>3. s = Resynced \/ Streams(s, x.cursor, n, t, e)
  BY DEF Served
<1>4. \/ /\ f.kind = "resync_required" /\ ends /\ c = x.cursor
      \/ /\ f.kind = "event" /\ c = x.cursor + 1 /\ c <= n /\ Follows(gs, c, n)
         /\ Streams(s, x.cursor, n, t, e) /\ (ends <=> s.finishing /\ Len(fs) = 1)
      \/ /\ f.kind = "subscribed" /\ c = x.cursor /\ Follows(gs, c, n)
         /\ Streams(s, x.cursor, n, t, e) /\ (ends <=> s.finishing /\ Len(fs) = 1)
  <2>1. CASE s = Resynced
    <3>1. f = Mark("resync_required")
      BY <2>1 DEF Resynced
    <3>2. f.kind = "resync_required"
      BY <3>1 DEF Mark
    <3>3. QED
      BY <3>2
  <2>2. CASE Streams(s, x.cursor, n, t, e)
    <3>1. Follows(fs, x.cursor, n)
      BY <2>2 DEF Streams
    <3>. HIDE DEF fs
    <3>2. \/ /\ f.kind = "event" /\ f.seq = x.cursor + 1 /\ x.cursor + 1 <= n
             /\ Follows(gs, x.cursor + 1, n)
          \/ f.kind = "subscribed" /\ Follows(gs, x.cursor, n)
      BY <1>1, <3>1, FollowsDown
    <3>. HIDE DEF f, gs
    <3>3. QED
      BY <2>2, <3>2
  <2>3. QED
    BY <1>3, <2>1, <2>2
<1>. HIDE DEF fs, f, gs
<1>5. c \in 0..n /\ c \in {x.cursor, x.cursor + 1}
  BY <1>1, <1>4
<1>6. d \in Sub /\ Small(d.frames)
  <2>1. [s EXCEPT !.frames = gs] \in Sub /\ [s EXCEPT !.frames = gs].frames = gs
    BY <1>1, <1>2 DEF Sub
  <2>2. QED
    BY <1>2, <2>1, UnsubscribedTyped
<1>7. y = [x EXCEPT !.cursor = c, !.resync = x.resync \/ f.kind = "resync_required",
                    !.phase = IF ends THEN "ended" ELSE "open", !.sub = d]
  BY DEF Read, f, fs, gs
<1>8. y \in Row(n) /\ y.cursor = c /\ y.sub = d
      /\ y.phase = (IF ends THEN "ended" ELSE "open")
      /\ (f.kind = "resync_required" => y.resync)
  <2>. HIDE DEF c, d, y, ends, s
  <2>1. QED
    BY <1>5, <1>6, <1>7 DEF Row
<1>9. ASSUME ends, f.kind # "resync_required"
      PROVE  t /\ c = n
  <2>1. Streams(s, x.cursor, n, t, e) /\ s.finishing /\ Len(fs) = 1 /\ Follows(gs, c, n)
    BY <1>4, <1>9
  <2>2. gs = <<>>
    <3>1. Len(fs) = 1 /\ Len(fs) = Len(gs) + 1 /\ Len(gs) \in Nat
      BY <1>2, <2>1
    <3>2. Len(gs) = 0
      BY <3>1
    <3>3. QED
      BY <1>2, <3>2
  <2>3. c \in Nat /\ Follows(<<>>, c, n)
    BY <1>5, <2>1, <2>2
  <2>4. t
    BY <2>1 DEF Streams
  <2>. HIDE DEF c
  <2>5. c = n
    BY <2>3, FollowsOut
  <2>6. QED
    BY <2>4, <2>5
<1>10. ASSUME ~ends
       PROVE  Streams(d, c, n, t, e)
  <2>1. Follows(gs, c, n) /\ Streams(s, x.cursor, n, t, e)
    BY <1>4, <1>10
  <2>2. d = [s EXCEPT !.frames = gs]
    BY <1>10
  <2>. HIDE DEF d, c, ends
  <2>3. d.frames = gs /\ d.attached = s.attached /\ d.finishing = s.finishing
    BY <1>1, <2>2 DEF Sub
  <2>4. QED
    BY <2>1, <2>3 DEF Streams
<1>11. ends => d = Unsubscribed
  OBVIOUS
<1>. HIDE DEF c, d, ends, y, s
<1>12. Served(y, n, t, e)
  <2>1. CASE ends
    <3>1. y.phase = "ended" /\ y.sub = Unsubscribed
      BY <1>8, <1>11, <2>1
    <3>2. ~y.resync => t /\ y.cursor = n
      BY <1>8, <1>9, <2>1
    <3>3. QED
      BY <3>1, <3>2, UnsubscribedTyped DEF Served
  <2>2. CASE ~ends
    <3>1. y.phase = "open" /\ y.sub = d /\ y.cursor = c
      BY <1>8, <2>2
    <3>2. QED
      BY <1>6, <1>10, <2>2, <3>1 DEF Served
  <2>3. QED
    BY <2>1, <2>2
<1>13. QED
  BY <1>5, <1>8, <1>12 DEF y

\* A reader gets a frame.
LEMMA GetReads ==
  ASSUME IInv, NEW r \in Readers, Get(r)
  PROVE  /\ IInv' /\ reader' = [reader EXCEPT ![r] = Read(reader[r])]
         /\ Read(reader[r]).cursor \in {reader[r].cursor, reader[r].cursor + 1}
<1>. DEFINE x == reader[r]
<1>1. RunTyped /\ reader \in [Readers -> Row(seq)] /\ seq \in Nat /\ terminal \in BOOLEAN
      /\ closing \in BOOLEAN
  BY Parts, LimitsNat DEF RunTyped
<1>2. x \in Row(seq) /\ Served(x, seq, terminal, closing) /\ x.phase = "open"
      /\ x.sub.frames # <<>> /\ UNCHANGED runVars
  BY <1>1, Parts DEF AllServed, Get
<1>3. reader' = [reader EXCEPT ![r] = Read(reader[r])]
  BY DEF Get
<1>. HIDE DEF x
<1>4. /\ Read(x) \in Row(seq) /\ Served(Read(x), seq, terminal, closing)
      /\ Read(x).cursor \in {x.cursor, x.cursor + 1}
  BY <1>1, <1>2, AfterServes
<1>. DEFINE y == Read(x)
<1>5. reader' = [reader EXCEPT ![r] = y]
  BY <1>3 DEF x
<1>. HIDE DEF y
<1>6. IInv'
  BY <1>2, <1>4, <1>5, OneReader DEF y
<1>7. QED
  BY <1>3, <1>4, <1>6 DEF x

\* A reader is told that its stream has ended.
LEMMA StopInv ==
  ASSUME IInv, NEW r \in Readers, Stop(r)
  PROVE  IInv'
<1>. DEFINE x == reader[r]
            y == [x EXCEPT !.phase = "ended", !.sub = Unsubscribed]
<1>1. RunTyped /\ reader \in [Readers -> Row(seq)] /\ seq \in Nat
  BY Parts, LimitsNat DEF RunTyped
<1>2. x \in Row(seq) /\ Served(x, seq, terminal, closing) /\ x.phase = "open"
      /\ x.sub.frames = <<>> /\ x.sub.finishing /\ UNCHANGED runVars
  BY <1>1, Parts DEF AllServed, Stop
<1>3. reader' = [reader EXCEPT ![r] = y]
  BY <1>1 DEF Stop
<1>. HIDE DEF x
<1>4. Streams(x.sub, x.cursor, seq, terminal, closing)
  <2>1. Resynced.frames # <<>>
    BY DEF Resynced
  <2>2. QED
    BY <1>2, <2>1 DEF Served
<1>5. terminal /\ Follows(<<>>, x.cursor, seq) /\ x.cursor \in Nat
  BY <1>2, <1>4 DEF Streams, Row
<1>6. x.cursor = seq
  BY <1>1, <1>5, FollowsOut
<1>7. y \in Row(seq) /\ y.phase = "ended" /\ y.sub = Unsubscribed /\ y.cursor = x.cursor
  BY <1>2, UnsubscribedTyped DEF Row
<1>. HIDE DEF y
<1>8. Served(y, seq, terminal, closing)
  BY <1>5, <1>6, <1>7, UnsubscribedTyped DEF Served
<1>9. QED
  BY <1>2, <1>3, <1>7, <1>8, OneReader

\* A reader goes away.
LEMMA DisconnectInv ==
  ASSUME IInv, NEW r \in Readers, Disconnect(r)
  PROVE  IInv'
<1>. DEFINE x == reader[r]
            y == [x EXCEPT !.phase = "snapshot", !.sub = Unsubscribed]
<1>1. RunTyped /\ reader \in [Readers -> Row(seq)] /\ seq \in Nat
  BY Parts, LimitsNat DEF RunTyped
<1>2. x \in Row(seq) /\ UNCHANGED runVars
  BY <1>1 DEF Disconnect
<1>3. reader' = [reader EXCEPT ![r] = y]
  BY <1>1 DEF Disconnect
<1>. HIDE DEF x
<1>4. y \in Row(seq) /\ y.phase = "snapshot" /\ y.sub = Unsubscribed
  BY <1>2, UnsubscribedTyped DEF Row
<1>. HIDE DEF y
<1>5. Served(y, seq, terminal, closing)
  BY <1>4, UnsubscribedTyped DEF Served
<1>6. QED
  BY <1>2, <1>3, <1>4, <1>5, OneReader

\* No step leaves the invariant.
LEMMA InvNext == IInv /\ [Next]_vars => IInv'
<1>. SUFFICES ASSUME IInv, [Next]_vars PROVE IInv'
  OBVIOUS
<1>1. ASSUME NEW size \in Sizes, Emit(size) PROVE IInv'
  BY <1>1, EmitInv
<1>2. ASSUME NEW size \in Sizes, EmitRefused(size) PROVE IInv'
  BY <1>2, EmitRefusedInv
<1>3. ASSUME NEW size \in Sizes, Fail(size) PROVE IInv'
  BY <1>3, FailInv
<1>4. ASSUME NEW size \in Sizes, Complete(size) PROVE IInv'
  BY <1>4, CompleteInv
<1>5. ASSUME CloseSubscribers PROVE IInv'
  BY <1>5, CloseSubscribersInv
<1>6. ASSUME NEW r \in Readers, Snapshot(r) PROVE IInv'
  BY <1>6, SnapshotInv
<1>7. ASSUME NEW r \in Readers, Refresh(r) PROVE IInv'
  BY <1>7, RefreshInv
<1>8. ASSUME NEW r \in Readers, Subscribe(r) PROVE IInv'
  BY <1>8, SubscribeInv
<1>9. ASSUME NEW r \in Readers, Get(r) PROVE IInv'
  BY <1>9, GetReads
<1>10. ASSUME NEW r \in Readers, Stop(r) PROVE IInv'
  BY <1>10, StopInv
<1>11. ASSUME NEW r \in Readers, Disconnect(r) PROVE IInv'
  BY <1>11, DisconnectInv
<1>12. CASE UNCHANGED vars
  BY <1>12 DEF vars, IInv, TypeOK, Counted, Retained
<1>13. QED
  BY <1>1, <1>2, <1>3, <1>4, <1>5, <1>6, <1>7, <1>8, <1>9, <1>10, <1>11, <1>12 DEF Next

-----------------------------------------------------------------------------
(* Results. *)

\* The ring, the budget and every subscription fit together in every reachable
\* state, whatever the limits, the sizes of the events and the number of readers.
THEOREM StreamInvariant == Spec => []IInv
<1>1. QED
  BY InvInit, InvNext, PTL DEF Spec

\* The manager's counters and queues keep their types and stay in their budget.
THEOREM TypeCorrect == Spec => []TypeOK
<1>1. IInv => TypeOK
  BY DEF IInv
<1>2. QED
  BY <1>1, StreamInvariant, PTL

\* A stream that ends without a recovery marker was complete.
THEOREM EndsComplete == Spec => []EndMeansComplete
<1>1. IInv => EndMeansComplete
  BY DEF IInv, Served, EndMeansComplete
<1>2. QED
  BY <1>1, StreamInvariant, PTL

\* What is kept for a run and for its readers is bounded, and the ring is one run
\* of consecutive events.
THEOREM StaysBounded == Spec => []Bounded
<1>1. IInv => Bounded
  BY DEF IInv, Retained, Latest, Served, Small, Bounded
<1>2. QED
  BY <1>1, StreamInvariant, PTL

\* Once the manager has ended a run, every open stream of it knows that it ends.
THEOREM EndIsTold ==
  Spec => [](terminal /\ ~closing =>
               \A r \in Readers : reader[r].phase = "open" => reader[r].sub.finishing)
<1>1. IInv => (terminal /\ ~closing =>
               \A r \in Readers : reader[r].phase = "open" => reader[r].sub.finishing)
  <2>1. ASSUME IInv, terminal, ~closing, NEW r \in Readers, reader[r].phase = "open"
        PROVE  reader[r].sub.finishing
    <3>1. reader[r].sub = Resynced
          \/ Streams(reader[r].sub, reader[r].cursor, seq, terminal, closing)
      BY <2>1 DEF IInv, Served
    <3>2. Resynced.finishing
      BY DEF Resynced
    <3>3. QED
      BY <2>1, <3>1, <3>2 DEF Streams
  <2>2. QED
    BY <2>1
<1>2. QED
  BY <1>1, StreamInvariant, PTL

\* A reader is moved on event by event: nothing is skipped and nothing comes
\* twice.
LEMMA GapStep ==
  ASSUME IInv, [Next]_vars, NEW r \in Readers, reader[r].phase = "open"
  PROVE  reader'[r].cursor \in {reader[r].cursor, reader[r].cursor + 1}
<1>1. reader \in [Readers -> Row(seq)]
  BY Parts
<1>2. reader[r] \in Row(seq)
  BY <1>1
<1>3. ASSUME NEW d, reader'[r] = [reader[r] EXCEPT !.sub = d]
      PROVE  reader'[r].cursor = reader[r].cursor
  BY <1>2, <1>3 DEF Row
<1>4. ASSUME NEW q \in Readers, Get(q) PROVE reader'[r].cursor \in {reader[r].cursor, reader[r].cursor + 1}
  <2>1. CASE q = r
    <3>1. reader' = [reader EXCEPT ![r] = Read(reader[r])]
          /\ Read(reader[r]).cursor \in {reader[r].cursor, reader[r].cursor + 1}
      BY <1>4, <2>1, GetReads
    <3>2. reader'[r] = Read(reader[r])
      BY <1>1, <3>1
    <3>3. QED
      BY <3>1, <3>2
  <2>2. CASE q # r
    <3>1. reader' = [reader EXCEPT ![q] = Read(reader[q])]
      BY <1>4, GetReads
    <3>2. QED
      BY <1>1, <2>2, <3>1
  <2>3. QED
    BY <2>1, <2>2
<1>5. ASSUME NEW size \in Sizes, Publish(size) PROVE reader'[r].cursor = reader[r].cursor
  BY <1>3, <1>5 DEF Publish
<1>6. ASSUME NEW size \in Sizes, EmitRefused(size) PROVE reader'[r].cursor = reader[r].cursor
  <2>1. CASE budget.cut
    BY <1>6, <2>1 DEF EmitRefused
  <2>2. CASE ~budget.cut
    <3>1. reader'[r] = [reader[r] EXCEPT !.sub = CutOff(reader[r].sub)]
      BY <1>6, <2>2 DEF EmitRefused
    <3>2. QED
      BY <1>3, <3>1
  <2>3. QED
    BY <2>1, <2>2
<1>7. ASSUME CloseSubscribers PROVE reader'[r].cursor = reader[r].cursor
  BY <1>3, <1>7 DEF CloseSubscribers
<1>8. ASSUME NEW q \in Readers, Snapshot(q) \/ Refresh(q) \/ Subscribe(q)
      PROVE  reader'[r].cursor = reader[r].cursor
  <2>1. q # r
    BY <1>8 DEF Snapshot, Refresh, Subscribe
  <2>2. QED
    BY <1>1, <1>8, <2>1 DEF Snapshot, Refresh, Subscribe
<1>9. ASSUME NEW q \in Readers, Stop(q) \/ Disconnect(q)
      PROVE  reader'[r].cursor = reader[r].cursor
  <2>1. PICK p, s : reader' = [reader EXCEPT ![q] = [reader[q] EXCEPT !.phase = p, !.sub = s]]
    <3>1. Stop(q) => reader' = [reader EXCEPT ![q] =
                       [reader[q] EXCEPT !.phase = "ended", !.sub = Unsubscribed]]
      BY <1>1 DEF Stop
    <3>2. Disconnect(q) => reader' = [reader EXCEPT ![q] =
                       [reader[q] EXCEPT !.phase = "snapshot", !.sub = Unsubscribed]]
      BY <1>1 DEF Disconnect
    <3>3. QED
      BY <1>9, <3>1, <3>2
  <2>2. CASE q # r
    BY <1>1, <2>1, <2>2
  <2>3. CASE q = r
    <3>1. reader'[r] = [reader[r] EXCEPT !.phase = p, !.sub = s]
      BY <1>1, <2>1, <2>3
    <3>2. QED
      BY <1>2, <3>1 DEF Row
  <2>4. QED
    BY <2>2, <2>3
<1>10. CASE UNCHANGED vars
  BY <1>10 DEF vars
<1>11. QED
  BY <1>4, <1>5, <1>6, <1>7, <1>8, <1>9, <1>10 DEF Next, Emit, Fail, Complete

\* Nothing is skipped, through every overflow, reconnection and reclaimed ring.
THEOREM NothingSkipped == Spec => NoSilentGap
<1>1. IInv /\ [Next]_vars =>
        [\A r \in Readers :
           reader[r].phase = "open" =>
             reader'[r].cursor \in {reader[r].cursor, reader[r].cursor + 1}]_vars
  BY GapStep
<1>2. QED
  BY <1>1, StreamInvariant, PTL DEF Spec, NoSilentGap

==============================================================================
