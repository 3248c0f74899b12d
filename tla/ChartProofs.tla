----------------------------- MODULE ChartProofs -----------------------------
(***************************************************************************)
(* The chart of a pane is of the pane's symbol, its tag is the last of its *)
(* samples, and its accessible name is of all of them: for any symbols, any *)
(* capacity of the buffer, any lag and any number of panes and requests.   *)
(*                                                                         *)
(* A chart is of its pane because everything it is made of is: the quote,  *)
(* the tick that waits, the price as rendered and the history.  A request  *)
(* keeps the symbol it was made for, and once the effects of the pane have *)
(* run, the one that is still wanted is that of the pane (RequestIsOf), so *)
(* a late answer is of no other.  Before they have run it is that of the   *)
(* pane before, and then the history, and what is seeded with it, may be   *)
(* of another symbol (OnChart), but the prices of the header are not.      *)
(*                                                                         *)
(* While a sample draws in, what is plotted is behind the buffer, and the  *)
(* tag is taken from the sample; otherwise the plot is the buffer          *)
(* (DrawInv).  What is plotted is empty only with the buffer, which is why *)
(* a discard has to settle the sample that is drawing in.                  *)
(***************************************************************************)
EXTENDS DetailChart, WellFoundedInduction, TLAPS

PointsOf(s) == [t : Int, symbol : s, stream : Streams]   \* of some symbols
Buffers(s) == {b \in Seq(PointsOf(s)) : Len(b) <= Capacity}

RequestIsOf(r) ==
  /\ r = [kind |-> r.kind, mount |-> r.mount, symbol |-> r.symbol, answer |-> r.answer]
  /\ r.mount \in 1 .. ran /\ r.symbol \in Symbols
  /\ r.mount = mount => r.symbol = pane
  /\ r.answer = None \/ (r.answer \in Seq(PointsOf({r.symbol})) /\ r.answer # <<>>)

PaneTypes ==
  /\ now \in Nat /\ mount \in Nat /\ stream \in Streams /\ strayed \in BOOLEAN
  /\ ran \in 0 .. mount /\ (strayed => pane # None)
  /\ ran # mount => pane # None /\ phase = "loading"
  /\ pane \in Symbols \cup {None} /\ phase \in {"loading", "ready", "not-found"}
Quotes == PointsOf({pane}) \cup {None}
OnChart == IF strayed THEN Symbols ELSE {pane}
HeaderIsOf  == quote \in Quotes /\ waiting \in Quotes /\ live \in Quotes
HistoryIsOf == history = None \/ history \in Seq(PointsOf(OnChart))
BufferIsOf  == buffer # None => buffer \in Buffers(OnChart)
ChartThere  == buffer # None <=> pane # None /\ ran = mount /\ Charted
RequestsAre == \A r \in requests : RequestIsOf(r)

PaneInv ==
  /\ PaneTypes /\ HeaderIsOf /\ HistoryIsOf /\ BufferIsOf /\ ChartThere /\ RequestsAre

----------------------------------------------------------------------------
(* The buffer, for the points of some symbols.                             *)

(* The constants, as far as the proofs use them.                           *)
LEMMA Bounds == Capacity \in Nat /\ Capacity >= 1 /\ Lag \in Nat
  BY ChartAssumption

(* A sequence of some values is one of more values.                        *)
LEMMA SeqGrows ==
  ASSUME NEW S, NEW T, S \subseteq T, NEW b \in Seq(S)
  PROVE  b \in Seq(T)
<1>1. Len(b) \in Nat /\ b \in [1 .. Len(b) -> S]
  OBVIOUS
<1>2. b \in [1 .. Len(b) -> T]
  BY <1>1
<1>3. \A n \in Nat : \A f \in [1 .. n -> T] : f \in Seq(T)
  OBVIOUS
<1> QED  BY <1>1, <1>2, <1>3

(* Nothing is neither a point, nor points, nor a sample that draws in.     *)
LEMMA NothingIs ==
  ASSUME NEW s, s \subseteq Symbols \cup {None}
  PROVE  /\ None \notin PointsOf(s) /\ None \notin Seq(PointsOf(s))
         /\ PointsOf(s) \subseteq Points
         /\ \A b \in Seq(PointsOf(s)), p \in PointsOf(s) :
              [before |-> b, sample |-> p] \in Draws
<1>1. PointsOf(s) \subseteq Points
  BY DEF PointsOf, Points
<1>2. \A b \in Seq(PointsOf(s)) : b \in Seq(Points)
  BY <1>1, SeqGrows
<1> QED  BY <1>1, <1>2, ChartAssumption DEF Draws

(* A point pushed is the last one, and the buffer stays within its arrays. *)
LEMMA PushFits ==
  ASSUME NEW s, NEW b \in Buffers(s), NEW p \in PointsOf(s)
  PROVE  Push(b, p) \in Buffers(s) /\ Push(b, p) # <<>> /\ Last(Push(b, p)) = p
<1> DEFINE kept == IF Len(b) < Capacity THEN b ELSE Tail(b)
<1>1. b \in Seq(PointsOf(s)) /\ Len(b) \in Nat /\ Len(b) <= Capacity
  BY DEF Buffers
<1>2. kept \in Seq(PointsOf(s)) /\ Len(kept) \in Nat /\ Len(kept) + 1 <= Capacity
  <2>1. CASE Len(b) < Capacity
    BY <1>1, <2>1, Bounds
  <2>2. CASE ~(Len(b) < Capacity)
    <3>1. Len(b) = Capacity /\ b # <<>>
      BY <1>1, <2>2, Bounds
    <3>2. Tail(b) \in Seq(PointsOf(s)) /\ Len(Tail(b)) = Len(b) - 1
      BY <1>1, <3>1
    <3> QED  BY <2>2, <3>1, <3>2, Bounds
  <2> QED  BY <2>1, <2>2
<1> HIDE DEF kept
<1>3. /\ Append(kept, p) \in Seq(PointsOf(s)) /\ Len(Append(kept, p)) = Len(kept) + 1
      /\ Append(kept, p)[Len(kept) + 1] = p
  BY <1>2
<1>4. Append(kept, p) # <<>>
  BY <1>2, <1>3
<1>5. Push(b, p) = Append(kept, p)
  BY DEF Push, kept
<1> QED  BY <1>2, <1>3, <1>4, <1>5, Bounds DEF Buffers, Last

(* The empty buffer is one.                                                *)
LEMMA EmptyFits == \A s : <<>> \in Buffers(s)
  BY Bounds DEF Buffers

(* So is the line that a lone price is made.                               *)
LEMMA FlatFits ==
  ASSUME NEW s, NEW p \in PointsOf(s)
  PROVE  SeedFlat(p) \in Buffers(s) /\ SeedFlat(p) # <<>>
<1> DEFINE q == [p EXCEPT !.t = @ - 1]
<1>1. q \in PointsOf(s)
  BY DEF PointsOf
<1> HIDE DEF q
<1>2. Push(<<>>, q) \in Buffers(s)
  BY <1>1, EmptyFits, PushFits
<1> QED  BY <1>2, PushFits DEF SeedFlat, q

----------------------------------------------------------------------------
(* Recursion over the points.                                              *)

(* A nonempty set of natural numbers has a least member.                   *)
LEMMA LeastOf ==
  ASSUME NEW S, S \subseteq Nat, S # {}
  PROVE  \E x \in S : \A y \in S : x <= y
<1>1. PICK x \in S : \A y \in S : ~ (<<y, x>> \in OpToRel(<, Nat))
  BY WFMin, NatLessThanWellFounded
<1>2. ASSUME NEW y \in S, y < x
      PROVE  FALSE
  <2>1. <<y, x>> \in OpToRel(<, Nat)
    BY <1>2 DEF OpToRel
  <2> QED  BY <1>1, <2>1
<1> QED  BY <1>2

(* Induction up to a number, for the numbers of a set.                     *)
LEMMA Induction ==
  ASSUME NEW k \in Nat, NEW T, 0 \in T, \A n \in 1 .. k : n - 1 \in T => n \in T
  PROVE  \A n \in 0 .. k : n \in T
<1> DEFINE S == {n \in 0 .. k : n \notin T}
<1> SUFFICES ASSUME S # {} PROVE FALSE
  OBVIOUS
<1>1. PICK n \in S : \A m \in S : n <= m
  <2>1. S \subseteq Nat
    OBVIOUS
  <2> QED  BY <2>1, LeastOf
<1>2. n \in 1 .. k /\ n - 1 \in 0 .. k /\ n - 1 < n
  OBVIOUS
<1>3. n - 1 \in T
  BY <1>1, <1>2
<1> QED  BY <1>2, <1>3

(* There is a function that starts where it should and takes the steps of F. *)
Steps(g, base, F, k) ==
  g = [n \in 0 .. k |-> IF n = 0 THEN base ELSE F[<<n, g[n - 1]>>]]

(* Every such recursion has a solution.                                    *)
LEMMA StepsExist ==
  ASSUME NEW base, NEW F, NEW k \in Nat
  PROVE  \E g : Steps(g, base, F, k)
<1> DEFINE T == {n \in 0 .. k : \E g : Steps(g, base, F, n)}
<1>1. 0 \in T
  <2> DEFINE g == [n \in 0 .. 0 |-> base]
  <2>1. Steps(g, base, F, 0)
    BY DEF Steps
  <2> QED  BY <2>1
<1>2. ASSUME NEW m \in 1 .. k, m - 1 \in T
      PROVE  m \in T
  <2>1. m - 1 \in Nat /\ m \in Nat
    OBVIOUS
  <2>2. PICK g : Steps(g, base, F, m - 1)
    BY <1>2
  <2> DEFINE h == [n \in 0 .. m |-> IF n = m THEN F[<<m, g[m - 1]>>] ELSE g[n]]
  <2>3. \A n \in 0 .. m - 1 : g[n] = IF n = 0 THEN base ELSE F[<<n, g[n - 1]>>]
    BY <2>1, <2>2 DEF Steps
  <2>4. ASSUME NEW n \in 0 .. m
        PROVE  h[n] = IF n = 0 THEN base ELSE F[<<n, h[n - 1]>>]
    <3>1. CASE n = m
      BY <3>1, <2>1
    <3>2. CASE n # m /\ n = 0
      <4>1. n \in 0 .. m - 1
        BY <3>2, <2>1
      <4> QED  BY <3>2, <4>1, <2>3
    <3>3. CASE n # m /\ n # 0
      <4>1. n \in 0 .. m - 1 /\ n - 1 \in 0 .. m /\ n - 1 # m
        BY <3>3, <2>1
      <4> QED  BY <3>3, <4>1, <2>3
    <3> QED  BY <3>1, <3>2, <3>3
  <2>5. h = [n \in 0 .. m |-> h[n]]
    OBVIOUS
  <2> HIDE DEF h
  <2>6. Steps(h, base, F, m)
    BY <2>4, <2>5 DEF Steps
  <2> QED  BY <2>6
<1> HIDE DEF T
<1>3. \A n \in 0 .. k : n \in T
  BY <1>1, <1>2, Induction
<1>4. k \in T
  BY <1>3
<1> QED  BY <1>4 DEF T

StaysIn(F, S, k) == \A n \in 1 .. k, x \in S : F[<<n, x>>] \in S
GoesBy(g, base, F, k) == g[0] = base /\ \A n \in 1 .. k : g[n] = F[<<n, g[n - 1]>>]

(* Steps that never leave a set have a solution in it.                     *)
LEMMA StepsStay ==
  ASSUME NEW S, NEW base \in S, NEW k \in Nat, NEW F, StaysIn(F, S, k)
  PROVE  \E g \in [0 .. k -> S] : GoesBy(g, base, F, k)
<1>1. PICK g : Steps(g, base, F, k)
  BY StepsExist
<1>2. \A n \in 0 .. k : g[n] = IF n = 0 THEN base ELSE F[<<n, g[n - 1]>>]
  BY <1>1 DEF Steps
<1>3. 0 \in 0 .. k /\ \A n \in 1 .. k : n \in 0 .. k /\ n # 0
  OBVIOUS
<1>4. g[0] = base
  BY <1>3, <1>2, Zenon
<1>5. \A n \in 1 .. k : g[n] = F[<<n, g[n - 1]>>]
  BY <1>3, <1>2, Zenon
<1> DEFINE T == {n \in 0 .. k : g[n] \in S}
<1>6. 0 \in T
  BY <1>3, <1>4
<1>7. ASSUME NEW n \in 1 .. k, n - 1 \in T
      PROVE  n \in T
  <2>1. n \in 0 .. k /\ n # 0 /\ g[n - 1] \in S
    BY <1>7
  <2>2. g[n] = F[<<n, g[n - 1]>>]
    BY <1>5
  <2>3. F[<<n, g[n - 1]>>] \in S
    BY <2>1 DEF StaysIn
  <2> QED  BY <2>1, <2>2, <2>3
<1> HIDE DEF T
<1>8. \A n \in 0 .. k : n \in T
  BY <1>6, <1>7, Induction
<1>9. \A n \in 0 .. k : g[n] \in S
  BY <1>8 DEF T
<1>10. g = [n \in 0 .. k |-> g[n]]
  BY <1>1 DEF Steps
<1>11. g \in [0 .. k -> S]
  <2> DEFINE D == 0 .. k
  <2>1. \A n \in D : g[n] \in S
    BY <1>9
  <2>2. g = [n \in D |-> g[n]]
    BY <1>10
  <2> HIDE DEF D
  <2>3. g \in [D -> S]
    BY <2>1, <2>2, Zenon
  <2> QED  BY <2>3 DEF D
<1> QED  BY <1>11, <1>4, <1>5 DEF GoesBy

(* What each step leaves in a set is in it at the end.                     *)
LEMMA EndStays ==
  ASSUME NEW S, NEW h, NEW k \in Nat, h[0] \in S, \A n \in 1 .. k : h[n - 1] \in S => h[n] \in S
  PROVE  h[k] \in S
<1> DEFINE T == {n \in 0 .. k : h[n] \in S}
<1>1. 0 \in T /\ \A n \in 1 .. k : n - 1 \in T => n \in T
  OBVIOUS
<1> HIDE DEF T
<1>2. \A n \in 0 .. k : n \in T
  BY <1>1, Induction
<1>3. k \in T
  BY <1>2
<1> QED  BY <1>3 DEF T

(* The buffer that is pushed points of some symbols is of these symbols.   *)
LEMMA FilledFits ==
  ASSUME NEW s, NEW points \in Seq(PointsOf(s))
  PROVE  Filled(points) \in Buffers(s)
<1> DEFINE k == Len(points)
           step(b, n) == Push(b, points[n])
           By(h) == h = [n \in 0 .. k |-> IF n = 0 THEN <<>> ELSE step(h[n - 1], n)]
           F == [x \in (1 .. k) \X Buffers(s) |-> step(x[2], x[1])]
           filled == CHOOSE h : By(h)
<1>1. k \in Nat /\ <<>> \in Buffers(s)
  BY EmptyFits
<1>2. \A n \in 1 .. k, b \in Buffers(s) : step(b, n) \in Buffers(s)
  <2> TAKE n \in 1 .. k, b \in Buffers(s)
  <2>1. points[n] \in PointsOf(s)
    OBVIOUS
  <2> QED  BY <2>1, PushFits
<1>7. Filled(points) = filled[k]
  BY DEF Filled
<1> HIDE DEF k
<1>3. \A n \in 1 .. k, b \in Buffers(s) : F[<<n, b>>] = step(b, n)
  OBVIOUS
<1> HIDE DEF step, F
<1>4. StaysIn(F, Buffers(s), k)
  BY <1>2, <1>3 DEF StaysIn
<1>5. \E h : By(h)
  <2>1. PICK g \in [0 .. k -> Buffers(s)] : GoesBy(g, <<>>, F, k)
    BY <1>1, <1>4, StepsStay
  <2>2. \A n \in 1 .. k : n - 1 \in 0 .. k /\ g[n - 1] \in Buffers(s)
    BY <1>1, <2>1
  <2>3. g[0] = <<>> /\ \A n \in 1 .. k : g[n] = step(g[n - 1], n)
    BY <1>3, <2>1, <2>2 DEF GoesBy
  <2>4. By(g)
    BY <2>1, <2>3
  <2> QED  BY <2>4
<1>6. By(filled)
  BY <1>5
<1> HIDE DEF filled
<1>8. filled[0] = <<>> /\ \A n \in 1 .. k : filled[n] = step(filled[n - 1], n)
  BY <1>1, <1>6
<1>9. \A n \in 1 .. k : filled[n - 1] \in Buffers(s) => filled[n] \in Buffers(s)
  BY <1>2, <1>8
<1>10. filled[k] \in Buffers(s)
  BY <1>1, <1>8, <1>9, EndStays
<1> QED  BY <1>7, <1>10

(* What is seeded with points of some symbols is of these symbols.         *)
LEMMA SeededFits ==
  ASSUME NEW s, NEW points \in Seq(PointsOf(s)), NEW seed \in PointsOf(s) \cup {None}
  PROVE  Seeded(points, seed) \in Buffers(s)
<1> DEFINE filled == Filled(points)
<1>1. filled \in Buffers(s)
  BY FilledFits
<1>2. Len(filled) = 1 => filled[1] \in PointsOf(s)
  BY <1>1 DEF Buffers
<1> HIDE DEF filled
<1>3. seed # None => seed \in PointsOf(s)
  OBVIOUS
<1>4. CASE seed # None
  BY <1>1, <1>3, <1>4, FlatFits, PushFits DEF Seeded, filled
<1>5. CASE seed = None
  BY <1>1, <1>2, <1>5, FlatFits DEF Seeded, filled
<1> QED  BY <1>4, <1>5

(* The points of a range are some of the points.                           *)
LEMMA RangeIsOf ==
  ASSUME NEW s, NEW points \in Seq(PointsOf(s)), NEW r, NEW at
  PROVE  InRange(points, r, at) \in Seq(PointsOf(s))
<1> DEFINE k == Len(points)
           S == Seq(PointsOf(s))
           step(b, n) == IF r = "SESSION" \/ points[n].t >= at - Window
                         THEN Append(b, points[n]) ELSE b
           By(h) == h = [n \in 0 .. k |-> IF n = 0 THEN <<>> ELSE step(h[n - 1], n)]
           F == [x \in (1 .. k) \X S |-> step(x[2], x[1])]
           kept == CHOOSE h : By(h)
<1>1. k \in Nat /\ <<>> \in S
  OBVIOUS
<1>2. \A n \in 1 .. k, b \in S : step(b, n) \in S
  <2> TAKE n \in 1 .. k, b \in S
  <2>1. points[n] \in PointsOf(s)
    OBVIOUS
  <2>2. Append(b, points[n]) \in S
    BY <2>1
  <2> QED  BY <2>2
<1>3. InRange(points, r, at) = kept[k]
  BY DEF InRange
<1> HIDE DEF k, S
<1>4. \A n \in 1 .. k, b \in S : F[<<n, b>>] = step(b, n)
  OBVIOUS
<1> HIDE DEF step, F
<1>5. StaysIn(F, S, k)
  BY <1>2, <1>4 DEF StaysIn
<1>6. \E h : By(h)
  <2>1. PICK g \in [0 .. k -> S] : GoesBy(g, <<>>, F, k)
    BY <1>1, <1>5, StepsStay
  <2>2. \A n \in 1 .. k : n - 1 \in 0 .. k /\ g[n - 1] \in S
    BY <1>1, <2>1
  <2>3. g[0] = <<>> /\ \A n \in 1 .. k : g[n] = step(g[n - 1], n)
    BY <1>4, <2>1, <2>2 DEF GoesBy
  <2>4. By(g)
    BY <2>1, <2>3
  <2> QED  BY <2>4
<1>7. By(kept)
  BY <1>6
<1> HIDE DEF kept
<1>8. kept[0] = <<>> /\ \A n \in 1 .. k : kept[n] = step(kept[n - 1], n)
  BY <1>1, <1>7
<1>9. \A n \in 1 .. k : kept[n - 1] \in S => kept[n] \in S
  BY <1>2, <1>8
<1>10. kept[k] \in S
  BY <1>1, <1>8, <1>9, EndStays
<1> QED  BY <1>3, <1>10 DEF S

(* A symbol's tape is of its points.                                       *)
LEMMA TapeIsOf ==
  ASSUME NEW s, NEW st \in Streams, now \in Nat
  PROVE  Tape(s, st) \in Seq(PointsOf({s}))
<1> DEFINE S == Seq(PointsOf({s}))
           add(b, t) == IF t \in Visible(st) THEN Append(b, Point(t, s, st)) ELSE b
           By(h) == h = [t \in 0 .. now |->
                           LET earlier == IF t = 0 THEN <<>> ELSE h[t - 1]
                           IN  IF t \in Visible(st) THEN Append(earlier, Point(t, s, st))
                               ELSE earlier]
           F == [x \in (1 .. now) \X S |-> add(x[2], x[1])]
           tape == CHOOSE h : By(h)
<1>1. Tape(s, st) = tape[now]
  BY DEF Tape
<1>2. <<>> \in S
  OBVIOUS
<1>3. \A t \in 0 .. now, b \in S : add(b, t) \in S
  <2> TAKE t \in 0 .. now, b \in S
  <2>1. Point(t, s, st) \in PointsOf({s})
    BY DEF Point, PointsOf
  <2>2. Append(b, Point(t, s, st)) \in S
    BY <2>1
  <2> QED  BY <2>2
<1> HIDE DEF S
<1>4. \A n \in 1 .. now, b \in S : F[<<n, b>>] = add(b, n)
  OBVIOUS
<1>5. \A h : By(h) <=>
        h = [t \in 0 .. now |-> IF t = 0 THEN add(<<>>, 0) ELSE add(h[t - 1], t)]
  <2> TAKE h
  <2>1. \A t \in 0 .. now :
          (LET earlier == IF t = 0 THEN <<>> ELSE h[t - 1]
           IN  IF t \in Visible(st) THEN Append(earlier, Point(t, s, st)) ELSE earlier)
          = IF t = 0 THEN add(<<>>, 0) ELSE add(h[t - 1], t)
    OBVIOUS
  <2> QED  BY <2>1
<1> HIDE DEF add, F
<1>6. StaysIn(F, S, now)
  <2>1. \A n \in 1 .. now : n \in 0 .. now
    OBVIOUS
  <2> QED  BY <2>1, <1>3, <1>4 DEF StaysIn
<1>7. add(<<>>, 0) \in S
  BY <1>2, <1>3
<1>8. \E h : By(h)
  <2> HIDE DEF By
  <2>1. PICK g \in [0 .. now -> S] : GoesBy(g, add(<<>>, 0), F, now)
    BY <1>6, <1>7, StepsStay
  <2>2. \A n \in 1 .. now : n - 1 \in 0 .. now /\ g[n - 1] \in S
    BY <2>1
  <2>4. g[0] = add(<<>>, 0) /\ \A n \in 1 .. now : g[n] = add(g[n - 1], n)
    BY <1>4, <2>1, <2>2 DEF GoesBy
  <2>3. g = [t \in 0 .. now |-> IF t = 0 THEN add(<<>>, 0) ELSE add(g[t - 1], t)]
    BY <2>1, <2>4
  <2> QED  BY <1>5, <2>3
<1>9. By(tape)
  <2> HIDE DEF By
  <2> QED  BY <1>8
<1> HIDE DEF tape, By
<1>10. tape[0] = add(<<>>, 0) /\ \A n \in 1 .. now : tape[n] = add(tape[n - 1], n)
  <2>1. tape = [t \in 0 .. now |-> IF t = 0 THEN add(<<>>, 0) ELSE add(tape[t - 1], t)]
    BY <1>5, <1>9
  <2> QED  BY <2>1
<1>11. \A n \in 1 .. now : tape[n - 1] \in S => tape[n] \in S
  BY <1>3, <1>10
<1>12. tape[0] \in S
  BY <1>7, <1>10
<1>13. tape[now] \in S
  BY <1>11, <1>12, EndStays
<1> QED  BY <1>1, <1>13 DEF S


----------------------------------------------------------------------------
(* What is plotted.                                                        *)

Shown == tween = None /\ plot = buffer /\ described = ToSet(buffer)

DrawInv ==
  /\ buffer = None => tween = None
  /\ buffer # None =>
       /\ plot = <<>> <=> buffer = <<>>
       /\ IF tween = None THEN plot = buffer
          ELSE buffer # <<>> /\ tween \in Draws /\ tween.sample = Last(buffer)

ChartInv == PaneInv /\ DrawInv /\ NameFitsTheLine

(* A chart that shows its buffer is in order, and so is no chart.          *)
LEMMA ShownDraws ==
  ASSUME Shown \/ (buffer = None /\ tween = None)
  PROVE  DrawInv /\ NameFitsTheLine
  BY DEF Shown, DrawInv, NameFitsTheLine

(* What is known of the pane and of the buffer of its chart.               *)
LEMMA PaneIs ==
  ASSUME PaneInv
  PROVE  /\ OnChart \subseteq Symbols \cup {None} /\ pane \in OnChart
         /\ {pane} \subseteq Symbols \cup {None} /\ PointsOf({pane}) \subseteq PointsOf(OnChart)
         /\ buffer # None => buffer \in Buffers(OnChart) /\ buffer \in Seq(PointsOf(OnChart))
         /\ \A b \in Buffers(OnChart) : b # None
         /\ <<>> # None
<1>1. OnChart \subseteq Symbols \cup {None} /\ pane \in OnChart /\ pane \in Symbols \cup {None}
  BY DEF PaneInv, PaneTypes, OnChart
<1>2. None \notin Seq(PointsOf(OnChart))
  BY <1>1, NothingIs
<1>3. <<>> \in Seq(PointsOf(OnChart))
  OBVIOUS
<1>4. PointsOf({pane}) \subseteq PointsOf(OnChart)
  BY <1>1 DEF PointsOf
<1> QED  BY <1>1, <1>2, <1>3, <1>4 DEF PaneInv, BufferIsOf, Buffers

(* A chart that mounts shows what it was seeded with.                      *)
LEMMA MountShows ==
  ASSUME PaneInv, NEW points \in Seq(PointsOf(OnChart)), NEW seed \in Quotes, NEW r, NEW at,
         Mount(points, r, at, seed)
  PROVE  buffer' \in Buffers(OnChart) /\ buffer' # None /\ Shown'
<1>1. InRange(points, r, at) \in Seq(PointsOf(OnChart))
  BY RangeIsOf
<1>2. seed \in PointsOf(OnChart) \cup {None}
  BY PaneIs DEF Quotes
<1>3. buffer' = Seeded(InRange(points, r, at), seed)
  BY DEF Mount
<1>4. buffer' \in Buffers(OnChart)
  BY <1>1, <1>2, <1>3, SeededFits
<1> QED  BY <1>4, PaneIs DEF Mount, Shown

(* A redraw after a sample has been settled shows the buffer.              *)
LEMMA RedrawShows ==
  ASSUME ChartInv, buffer # None, Redraw, tween' = None, buffer' # <<>> \/ UNCHANGED buffer
  PROVE  Shown'
<1>1. CASE buffer' = <<>>
  BY <1>1 DEF Redraw, Shown, ChartInv, DrawInv, NameFitsTheLine
<1>2. CASE buffer' # <<>>
  BY <1>2 DEF Redraw, Describe, Shown
<1> QED  BY <1>1, <1>2

(* The steps that leave the chart alone leave it in order.                 *)
LEMMA ChartAlone ==
  ASSUME ChartInv, UNCHANGED chartVars
  PROVE  DrawInv' /\ NameFitsTheLine'
  BY DEF ChartInv, DrawInv, NameFitsTheLine, chartVars

(* Requests that are done with leave the others as they were.              *)
LEMMA RequestsLess ==
  ASSUME RequestsAre, requests' \subseteq requests, UNCHANGED <<mount, ran, pane>>
  PROVE  RequestsAre'
  BY DEF RequestsAre, RequestIsOf

----------------------------------------------------------------------------
(* The steps.                                                              *)

(* Time passes, and the tick that is due is of the pane.                   *)
LEMMA AdvanceKeeps ==
  ASSUME ChartInv, Advance
  PROVE  ChartInv'
<1>1. UNCHANGED <<mount, ran, strayed, pane, stream, phase, quote, live, history, buffer, requests>>
  BY DEF Advance, streamVars, paneVars, historyVars, chartVars
<1>2. now' \in Nat
  BY DEF Advance, ChartInv, PaneInv, PaneTypes
<1>3. waiting' \in PointsOf({pane}) \cup {None}
  <2>1. CASE UNCHANGED waiting
    BY <2>1 DEF ChartInv, PaneInv, HeaderIsOf, Quotes
  <2>2. CASE Receive(now' - Delay(stream))
    <3>1. now' - Delay(stream) \in Int
      BY <1>2, Bounds DEF Delay
    <3>2. Point(now' - Delay(stream), pane, stream) \in PointsOf({pane})
      BY <3>1 DEF Point, PointsOf, ChartInv, PaneInv, PaneTypes
    <3> QED
      BY <2>2, <3>2 DEF Receive, ChartInv, PaneInv, HeaderIsOf, Quotes
  <2> QED  BY <2>1, <2>2 DEF Advance
<1>4. PaneInv'
  BY <1>1, <1>2, <1>3
     DEF ChartInv, PaneInv, PaneTypes, HeaderIsOf, Quotes, HistoryIsOf, OnChart, BufferIsOf,
         ChartThere, Charted, RequestsAre, RequestIsOf
<1> QED  BY <1>4, ChartAlone DEF Advance, ChartInv

(* A request is answered with points of the symbol it was made for.        *)
LEMMA AnswerKeeps ==
  ASSUME ChartInv, NEW r \in requests, Answer(r)
  PROVE  ChartInv'
<1>1. UNCHANGED <<now, mount, ran, strayed, pane, stream, phase, quote, waiting, live, history, buffer>>
  BY DEF Answer, tapeVars, streamVars, headerVars, paneVars, historyVars, chartVars
<1> DEFINE points == Tape(r.symbol, stream)
           answered == [r EXCEPT !.answer = points]
<1>2. RequestIsOf(r)
  BY DEF ChartInv, PaneInv, RequestsAre
<1>3. points \in Seq(PointsOf({r.symbol}))
  BY TapeIsOf DEF ChartInv, PaneInv, PaneTypes
<1>4. points # <<>> /\ requests' = (requests \ {r}) \cup {answered}
  BY DEF Answer
<1> HIDE DEF points
<1>5. answered = [kind |-> r.kind, mount |-> r.mount, symbol |-> r.symbol, answer |-> points]
  BY <1>2 DEF RequestIsOf
<1>6. /\ answered.kind = r.kind /\ answered.mount = r.mount /\ answered.symbol = r.symbol
      /\ answered.answer = points
  BY <1>5
<1> HIDE DEF answered
<1>7. RequestIsOf(answered)
  BY <1>2, <1>3, <1>4, <1>5, <1>6 DEF RequestIsOf
<1>8. RequestsAre'
  BY <1>1, <1>4, <1>7 DEF ChartInv, PaneInv, RequestsAre, RequestIsOf
<1>9. PaneInv'
  BY <1>1, <1>8
     DEF ChartInv, PaneInv, PaneTypes, HeaderIsOf, Quotes, HistoryIsOf, OnChart, BufferIsOf,
         ChartThere, Charted
<1> QED  BY <1>9, ChartAlone DEF Answer, ChartInv

(* A discard settles what draws in, and leaves an empty chart.             *)
LEMMA EntitleKeeps ==
  ASSUME ChartInv, NEW st \in Streams, Entitle(st)
  PROVE  ChartInv'
<1>1. /\ UNCHANGED <<now, mount, ran, strayed, pane, phase, live, history, requests>>
      /\ stream' = st /\ quote' = None /\ waiting' = None
  BY DEF Entitle, tapeVars, paneVars, historyVars
<1>2. /\ buffer # None <=> buffer' # None
      /\ buffer' # None => buffer' \in Buffers(OnChart)
      /\ DrawInv' /\ NameFitsTheLine'
  <2>1. CASE st # stream /\ buffer # None
    <3>1. tween' = None /\ buffer' = <<>> /\ plot' = <<>> /\ described' = {}
      BY <2>1 DEF Entitle, Settled
    <3>2. Shown'
      BY <3>1 DEF Shown, ToSet
    <3> QED  BY <2>1, <3>1, <3>2, EmptyFits, PaneIs, ShownDraws DEF ChartInv, Shown, DrawInv, NameFitsTheLine
  <2>2. CASE ~(st # stream /\ buffer # None)
    BY <2>2, ChartAlone, PaneIs DEF Entitle, ChartInv, chartVars
  <2> QED  BY <2>1, <2>2
<1>3. PaneInv'
  BY <1>1, <1>2
     DEF ChartInv, PaneInv, PaneTypes, HeaderIsOf, Quotes, HistoryIsOf, OnChart, BufferIsOf,
         ChartThere, Charted, RequestsAre, RequestIsOf
<1> QED  BY <1>2, <1>3 DEF ChartInv

(* A snapshot is used by the pane that asked for it.                       *)
LEMMA SnapshotKeeps ==
  ASSUME ChartInv, NEW r \in requests, SnapshotArrives(r)
  PROVE  ChartInv'
<1>1. UNCHANGED <<now, mount, ran, strayed, pane, stream, waiting, live, history, buffer>>
  BY DEF SnapshotArrives, tapeVars, streamVars, paneVars, historyVars, chartVars
<1>2. RequestIsOf(r) /\ r.answer # None
  BY DEF SnapshotArrives, ChartInv, PaneInv, RequestsAre
<1>3. /\ phase' \in {"loading", "ready", "not-found"}
      /\ phase = "not-found" <=> phase' = "not-found"
      /\ (ran # mount => phase' = phase)
  BY DEF SnapshotArrives, TakesSnapshot, ChartInv, PaneInv, PaneTypes
<1>4. quote' \in Quotes
  <2>1. CASE TakesSnapshot(r)
    <3>1. r.symbol = pane
      BY <1>2, <2>1 DEF RequestIsOf, StillWanted, TakesSnapshot
    <3>2. r.answer \in Seq(PointsOf({pane})) /\ r.answer # <<>>
      BY <1>2, <3>1 DEF RequestIsOf
    <3>3. Last(r.answer) \in PointsOf({pane})
      <4> DEFINE b == r.answer
      <4>1. b \in Seq(PointsOf({pane})) /\ b # <<>>
        BY <3>2
      <4> HIDE DEF b
      <4>2. Last(b) \in PointsOf({pane})
        BY <4>1 DEF Last
      <4> QED  BY <4>2 DEF b
    <3> QED
      BY <3>3 DEF SnapshotArrives, NewerOf, ChartInv, PaneInv, HeaderIsOf, Quotes
  <2>2. CASE ~TakesSnapshot(r)
    BY <2>2 DEF SnapshotArrives, ChartInv, PaneInv, HeaderIsOf
  <2> QED  BY <2>1, <2>2
<1>5. RequestsAre'
  BY <1>1, RequestsLess DEF SnapshotArrives, ChartInv, PaneInv
<1>6. PaneInv'
  BY <1>1, <1>3, <1>4, <1>5
     DEF ChartInv, PaneInv, PaneTypes, HeaderIsOf, Quotes, HistoryIsOf, OnChart, BufferIsOf,
         ChartThere, Charted
<1> QED  BY <1>6, ChartAlone DEF SnapshotArrives, ChartInv

(* A pane whose instrument is not found has no chart.                      *)
LEMMA NotFoundKeeps ==
  ASSUME ChartInv, NEW r \in requests, SnapshotFails(r)
  PROVE  ChartInv'
<1>1. UNCHANGED <<now, mount, ran, strayed, pane, stream, quote, waiting, history>>
  BY DEF SnapshotFails, tapeVars, streamVars, paneVars, historyVars
<1>2. RequestsAre'
  BY <1>1, RequestsLess DEF SnapshotFails, ChartInv, PaneInv
<1>3. CASE TakesSnapshot(r)
  <2>1. /\ phase' = "not-found" /\ live' = quote /\ buffer' = None /\ tween' = None
        /\ ran = mount
    BY <1>3 DEF SnapshotFails, TakesSnapshot, Rendered, NoChart
  <2>2. PaneInv'
    BY <1>1, <1>2, <2>1
       DEF ChartInv, PaneInv, PaneTypes, HeaderIsOf, Quotes, HistoryIsOf, OnChart, BufferIsOf,
           ChartThere, Charted
  <2> QED  BY <2>1, <2>2 DEF ChartInv, DrawInv, NameFitsTheLine
<1>4. CASE ~TakesSnapshot(r)
  <2>1. UNCHANGED <<phase, live>> /\ UNCHANGED chartVars
    BY <1>4 DEF SnapshotFails
  <2>2. PaneInv'
    BY <1>1, <1>2, <2>1
       DEF ChartInv, PaneInv, PaneTypes, HeaderIsOf, Quotes, HistoryIsOf, OnChart, BufferIsOf,
           ChartThere, Charted, chartVars
  <2> QED  BY <2>1, <2>2, ChartAlone DEF ChartInv
<1> QED  BY <1>3, <1>4

(* The history of the pane that asked for it seeds the chart that mounts.  *)
LEMMA SeedsKeeps ==
  ASSUME ChartInv, NEW r \in requests, NEW points \in Seq(PointsOf({r.symbol})),
         HistoryIs(r, points), StillWanted(r), Seeds(points)
  PROVE  ChartInv'
<1>1. UNCHANGED <<now, mount, ran, strayed, pane, stream, phase, quote, waiting>> /\ ran = mount
  BY DEF HistoryIs, Seeds, tapeVars, streamVars, headerVars, paneVars
<1>2. RequestsAre'
  BY <1>1, RequestsLess DEF HistoryIs, ChartInv, PaneInv
<1>3. r.symbol = pane /\ pane # None
  BY <1>1, ChartAssumption DEF StillWanted, ChartInv, PaneInv, RequestsAre, RequestIsOf
<1>4. points \in Seq(PointsOf(OnChart))
  BY <1>3, PaneIs, SeqGrows DEF ChartInv
<1>5. history' = points /\ live' = quote /\ points # None
  BY <1>4, PaneIs, NothingIs DEF Seeds, Rendered, ChartInv
<1>6. UNCHANGED OnChart
  BY <1>1 DEF OnChart
<1>7. CASE buffer = None /\ phase # "not-found"
  <2>1. PICK at : Mount(points, range, at, quote)
    BY <1>7 DEF Seeds
  <2>2. quote \in Quotes
    BY DEF ChartInv, PaneInv, HeaderIsOf
  <2>3. buffer' \in Buffers(OnChart) /\ buffer' # None /\ Shown'
    BY <1>4, <2>1, <2>2, MountShows DEF ChartInv
  <2>4. BufferIsOf' /\ ChartThere'
    BY <1>1, <1>3, <1>5, <1>6, <1>7, <2>3 DEF BufferIsOf, ChartThere, Charted
  <2>5. PaneInv'
    BY <1>1, <1>2, <1>4, <1>5, <1>6, <2>4
       DEF ChartInv, PaneInv, PaneTypes, HeaderIsOf, Quotes, HistoryIsOf
  <2> QED  BY <2>3, <2>5 DEF ChartInv, Shown, DrawInv, NameFitsTheLine
<1>8. CASE ~(buffer = None /\ phase # "not-found")
  <2>1. UNCHANGED chartVars
    BY <1>8 DEF Seeds
  <2>2. BufferIsOf' /\ ChartThere'
    BY <1>1, <1>3, <1>5, <1>6, <1>8, <2>1
       DEF BufferIsOf, ChartThere, Charted, chartVars, ChartInv, PaneInv
  <2>3. PaneInv'
    BY <1>1, <1>2, <1>4, <1>5, <1>6, <2>2
       DEF ChartInv, PaneInv, PaneTypes, HeaderIsOf, Quotes, HistoryIsOf
  <2> QED  BY <2>1, <2>3, ChartAlone DEF ChartInv
<1> QED  BY <1>7, <1>8

(* That of the pane before is stored in this one, which has no chart yet.  *)
LEMMA StraysKeeps ==
  ASSUME ChartInv, NEW r \in requests, NEW points \in Seq(PointsOf({r.symbol})),
         HistoryIs(r, points), Strays(points)
  PROVE  ChartInv'
<1>1. /\ UNCHANGED <<now, mount, ran, pane, stream, phase, quote, waiting, live, buffer>>
      /\ ran # mount /\ history' = points /\ strayed' = TRUE
  BY DEF HistoryIs, Strays, tapeVars, streamVars, headerVars, paneVars, chartVars
<1>2. RequestsAre'
  BY <1>1, RequestsLess DEF HistoryIs, ChartInv, PaneInv
<1>3. buffer = None
  BY <1>1 DEF ChartInv, PaneInv, ChartThere
<1>4. points \in Seq(PointsOf(Symbols))
  <2>1. r.symbol \in Symbols
    BY DEF ChartInv, PaneInv, RequestsAre, RequestIsOf
  <2>2. PointsOf({r.symbol}) \subseteq PointsOf(Symbols)
    BY <2>1 DEF PointsOf
  <2> QED  BY <2>2, SeqGrows
<1>5. HistoryIsOf' /\ BufferIsOf' /\ ChartThere'
  BY <1>1, <1>3, <1>4 DEF HistoryIsOf, OnChart, BufferIsOf, ChartThere
<1>6. PaneInv'
  BY <1>1, <1>2, <1>5 DEF ChartInv, PaneInv, PaneTypes, HeaderIsOf, Quotes
<1> QED  BY <1>6, ChartAlone DEF Strays, ChartInv

(* A history is used, strays or is dropped.                                *)
LEMMA HistoryKeeps ==
  ASSUME ChartInv, NEW r \in requests, HistoryArrives(r) \/ HistoryFails(r)
  PROVE  ChartInv'
<1>1. PICK points : HistoryIs(r, points) /\ points \in Seq(PointsOf({r.symbol}))
  <2>1. RequestIsOf(r)
    BY DEF ChartInv, PaneInv, RequestsAre
  <2>2. <<>> \in Seq(PointsOf({r.symbol}))
    OBVIOUS
  <2> QED  BY <2>1, <2>2 DEF HistoryArrives, HistoryFails, RequestIsOf
<1>2. CASE StillWanted(r)
  BY <1>1, <1>2, SeedsKeeps, StraysKeeps DEF HistoryIs
<1>3. CASE ~StillWanted(r)
  <2>1. /\ UNCHANGED <<now, mount, ran, strayed, pane, stream, phase, quote, waiting, history, live>>
        /\ UNCHANGED chartVars
    BY <1>1, <1>3 DEF HistoryIs, tapeVars, streamVars, headerVars, paneVars, historyVars
  <2>2. RequestsAre'
    BY <1>1, <2>1, RequestsLess DEF HistoryIs, ChartInv, PaneInv
  <2>3. PaneInv'
    BY <2>1, <2>2
       DEF ChartInv, PaneInv, PaneTypes, HeaderIsOf, Quotes, HistoryIsOf, OnChart, BufferIsOf,
           ChartThere, Charted, chartVars
  <2> QED  BY <2>1, <2>3, ChartAlone DEF ChartInv
<1> QED  BY <1>2, <1>3

(* The effects make the requests of the pane, and mount what has strayed.  *)
LEMMA RunEffectsKeeps ==
  ASSUME ChartInv, RunEffects
  PROVE  ChartInv'
<1>1. /\ UNCHANGED <<now, stream, mount, strayed, pane, phase, quote, waiting, live, history>>
      /\ ran # mount /\ ran' = mount
  BY DEF RunEffects, tapeVars, streamVars, headerVars, historyVars
<1>2. pane \in Symbols /\ pane # None /\ mount \in Nat /\ ran \in 0 .. mount /\ ran < mount
  BY <1>1 DEF ChartInv, PaneInv, PaneTypes
<1>3. RequestsAre'
  <2>1. ASSUME NEW r \in requests
        PROVE  RequestIsOf(r)'
    <3>1. RequestIsOf(r)
      BY DEF ChartInv, PaneInv, RequestsAre
    <3>2. r.mount \in 1 .. ran'
      BY <1>1, <1>2, <3>1 DEF RequestIsOf
    <3> QED  BY <1>1, <3>1, <3>2 DEF RequestIsOf
  <2>2. ASSUME NEW r, NEW kind, r = Request(kind, mount)
        PROVE  RequestIsOf(r)'
    <3>1. r = [kind |-> kind, mount |-> mount, symbol |-> pane, answer |-> None]
      BY <2>2 DEF Request
    <3>2. mount \in 1 .. mount
      BY <1>2
    <3> QED  BY <1>1, <1>2, <3>1, <3>2 DEF RequestIsOf
  <2>3. \A r \in requests' :
          r \in requests \/ r = Request("snapshot", mount) \/ r = Request("history", mount)
    BY DEF RunEffects
  <2> QED  BY <2>1, <2>2, <2>3 DEF RequestsAre
<1>4. buffer = None /\ UNCHANGED OnChart /\ phase \in {"loading", "ready", "not-found"}
  BY <1>1 DEF ChartInv, PaneInv, PaneTypes, ChartThere, OnChart
<1>5. PaneTypes' /\ HeaderIsOf' /\ HistoryIsOf'
  BY <1>1, <1>2, <1>4 DEF ChartInv, PaneInv, PaneTypes, HeaderIsOf, Quotes, HistoryIsOf
<1>6. CASE history # None
  <2>1. PICK at : Mount(history, range, at, None)
    BY <1>6 DEF RunEffects
  <2>2. None \in Quotes /\ history \in Seq(PointsOf(OnChart))
    BY <1>6 DEF Quotes, ChartInv, PaneInv, HistoryIsOf
  <2>3. buffer' \in Buffers(OnChart) /\ buffer' # None /\ Shown'
    BY <2>1, <2>2, MountShows DEF ChartInv
  <2>4. phase # "not-found"
    BY <1>1 DEF ChartInv, PaneInv, PaneTypes
  <2>5. BufferIsOf' /\ ChartThere'
    BY <1>1, <1>2, <1>4, <1>6, <2>3, <2>4 DEF BufferIsOf, ChartThere, Charted
  <2>6. PaneInv'
    BY <1>3, <1>5, <2>5 DEF PaneInv
  <2> QED  BY <1>1, <2>3, <2>6 DEF ChartInv, Shown, DrawInv, NameFitsTheLine
<1>7. CASE history = None
  <2>1. UNCHANGED chartVars
    BY <1>7 DEF RunEffects
  <2>2. BufferIsOf' /\ ChartThere'
    BY <1>1, <1>4, <1>7, <2>1 DEF BufferIsOf, ChartThere, Charted, chartVars
  <2>3. PaneInv'
    BY <1>3, <1>5, <2>2 DEF PaneInv
  <2> QED  BY <1>1, <2>1, <2>3, ChartAlone DEF ChartInv
<1> QED  BY <1>6, <1>7

(* The header paints the tick that waits, and renders.                     *)
LEMMA HeaderKeeps ==
  ASSUME ChartInv, Header
  PROVE  ChartInv'
<1>1. CASE Paint
  <2>1. UNCHANGED <<now, mount, ran, strayed, pane, stream, phase, live, history, buffer, requests>>
    BY <1>1 DEF Paint, tapeVars, streamVars, paneVars, historyVars, chartVars
  <2>2. quote' \in Quotes /\ waiting' \in Quotes
    BY <1>1 DEF Paint, ChartInv, PaneInv, HeaderIsOf, Quotes
  <2>3. PaneInv'
    BY <2>1, <2>2
       DEF ChartInv, PaneInv, PaneTypes, HeaderIsOf, Quotes, HistoryIsOf, OnChart, BufferIsOf,
           ChartThere, Charted, RequestsAre, RequestIsOf
  <2> QED  BY <1>1, <2>3, ChartAlone DEF Paint, ChartInv
<1>2. CASE Render
  <2>1. UNCHANGED <<now, mount, ran, strayed, pane, stream, phase, quote, waiting, history, buffer, requests>>
    BY <1>2 DEF Render, tapeVars, streamVars, headerVars, paneVars, historyVars, chartVars
  <2>2. live' = quote
    BY <1>2 DEF Render, Rendered
  <2>3. PaneInv'
    BY <2>1, <2>2
       DEF ChartInv, PaneInv, PaneTypes, HeaderIsOf, Quotes, HistoryIsOf, OnChart, BufferIsOf,
           ChartThere, Charted, RequestsAre, RequestIsOf
  <2> QED  BY <1>2, <2>3, ChartAlone DEF Render, ChartInv
<1>3. CASE RunEffects
  BY <1>3, RunEffectsKeeps
<1> QED  BY <1>1, <1>2, <1>3 DEF Header

(* Another pane begins with nothing.                                       *)
LEMMA SwitchKeeps ==
  ASSUME ChartInv, NEW s \in Symbols \cup {None}, Switch(s)
  PROVE  ChartInv'
<1>1. /\ UNCHANGED <<now, stream, requests>> /\ pane' = s /\ mount' = mount + 1 /\ mount' \in Nat
      /\ ran = mount /\ ran' = IF s = None THEN mount' ELSE ran
  BY DEF Switch, tapeVars, streamVars, ChartInv, PaneInv, PaneTypes
<1>2. /\ phase' = "loading" /\ quote' = None /\ waiting' = None /\ live' = None
      /\ history' = None /\ strayed' = FALSE /\ buffer' = None /\ tween' = None
  BY DEF Switch, Afresh, NoChart
<1>3. RequestsAre'
  <2>1. ASSUME NEW r \in requests
        PROVE  RequestIsOf(r)'
    <3>1. RequestIsOf(r)
      BY DEF ChartInv, PaneInv, RequestsAre
    <3>2. r.mount \in 1 .. ran' /\ r.mount # mount'
      BY <1>1, <3>1 DEF RequestIsOf, ChartInv, PaneInv, PaneTypes
    <3> QED  BY <3>1, <3>2 DEF RequestIsOf
  <2> QED  BY <1>1, <2>1 DEF RequestsAre
<1>4. PaneTypes'
  <2>1. ran' \in 0 .. mount' /\ (ran' # mount' => s # None)
    BY <1>1 DEF ChartInv, PaneInv, PaneTypes
  <2>2. now' \in Nat /\ stream' \in Streams
    BY <1>1 DEF ChartInv, PaneInv, PaneTypes
  <2> QED  BY <1>1, <1>2, <2>1, <2>2 DEF PaneTypes
<1>5. PaneInv'
  BY <1>2, <1>3, <1>4
     DEF PaneInv, HeaderIsOf, Quotes, HistoryIsOf, BufferIsOf, ChartThere, Charted
<1> QED  BY <1>2, <1>5 DEF ChartInv, DrawInv, NameFitsTheLine

(* Another range is a chart of its own, seeded with the same history.      *)
LEMMA PickKeeps ==
  ASSUME ChartInv, NEW r \in Ranges, Pick(r)
  PROVE  ChartInv'
<1>1. UNCHANGED <<now, mount, ran, strayed, pane, stream, phase, quote, waiting, live, history, requests>>
  BY DEF Pick, tapeVars, streamVars, headerVars, historyVars
<1>2. /\ buffer # None <=> buffer' # None
      /\ buffer' # None => buffer' \in Buffers(OnChart)
      /\ DrawInv' /\ NameFitsTheLine'
  <2>1. CASE Charted
    <3>1. Mount(history, r, now, live)
      BY <2>1 DEF Pick
    <3>2. live \in Quotes /\ history \in Seq(PointsOf(OnChart))
      BY <2>1 DEF Charted, ChartInv, PaneInv, HeaderIsOf, HistoryIsOf
    <3>3. buffer' \in Buffers(OnChart) /\ buffer' # None /\ Shown'
      BY <3>1, <3>2, MountShows DEF ChartInv
    <3>4. buffer # None
      BY <2>1 DEF Pick, ChartInv, PaneInv, ChartThere
    <3> QED  BY <3>3, <3>4 DEF Shown, DrawInv, NameFitsTheLine
  <2>2. CASE ~Charted
    BY <2>2, ChartAlone, PaneIs DEF Pick, ChartInv, chartVars
  <2> QED  BY <2>1, <2>2
<1>3. PaneInv'
  BY <1>1, <1>2
     DEF ChartInv, PaneInv, PaneTypes, HeaderIsOf, Quotes, HistoryIsOf, OnChart, BufferIsOf,
         ChartThere, Charted, RequestsAre, RequestIsOf
<1> QED  BY <1>2, <1>3 DEF ChartInv

(* The chart's own steps keep a buffer of the pane, and what is plotted in order. *)
LEMMA ChartMoves ==
  ASSUME ChartInv, Chart
  PROVE  /\ buffer # None <=> buffer' # None
         /\ buffer' # None => buffer' \in Buffers(OnChart)
         /\ DrawInv' /\ NameFitsTheLine'
<1>1. CASE Sample
  <2>1. buffer # None /\ buffer \in Buffers(OnChart)
    BY <1>1, PaneIs DEF Sample, ChartInv
  <2>2. CASE live = None
    <3>1. UNCHANGED buffer /\ Shown'
      BY <1>1, <2>1, <2>2, RedrawShows DEF Sample
    <3> QED  BY <2>1, <3>1 DEF Shown, DrawInv, NameFitsTheLine
  <2>3. CASE live # None
    <3>1. live \in PointsOf({pane}) /\ buffer' = Push(buffer, live)
      BY <1>1, <2>3 DEF Sample, TakeSample, ChartInv, PaneInv, HeaderIsOf, Quotes
    <3>5. live \in PointsOf(OnChart)
      BY <3>1, PaneIs DEF ChartInv
    <3>2. buffer' \in Buffers(OnChart) /\ buffer' # <<>> /\ Last(buffer') = live /\ buffer' # None
      BY <2>1, <3>1, <3>5, PushFits, PaneIs DEF ChartInv
    <3>3. CASE tween' = None /\ Redraw
      <4>1. Shown'
        BY <2>1, <3>2, <3>3, RedrawShows
      <4> QED  BY <2>1, <3>2, <4>1 DEF Shown, DrawInv, NameFitsTheLine
    <3>4. CASE /\ buffer # <<>> /\ tween' = [before |-> buffer, sample |-> live]
               /\ UNCHANGED plot /\ Describe(buffer')
      <4>1. tween' \in Draws /\ tween'.sample = live
        BY <2>1, <3>1, <3>5, <3>4, NothingIs, PaneIs DEF ChartInv
      <4>2. tween' # None
        BY <4>1, ChartAssumption
      <4>3. plot # <<>>
        BY <2>1, <3>4 DEF ChartInv, DrawInv
      <4>4. DrawInv'
        BY <3>2, <3>4, <4>1, <4>2, <4>3 DEF DrawInv
      <4>5. NameFitsTheLine'
        BY <3>4 DEF Describe, NameFitsTheLine
      <4> QED  BY <2>1, <3>2, <4>4, <4>5
    <3> QED  BY <1>1, <2>3, <3>3, <3>4 DEF Sample
  <2> QED  BY <2>2, <2>3
<1>2. CASE Fly
  <2>1. /\ UNCHANGED <<buffer, tween, described>> /\ tween # None
        /\ plot' = Append(tween.before, InFlight)
    BY <1>2 DEF Fly
  <2>2. buffer # None /\ buffer # <<>> /\ tween \in Draws
    BY <2>1 DEF ChartInv, DrawInv
  <2>3. plot' # <<>>
    <3> DEFINE b == tween.before
    <3>1. b \in Seq(Points)
      BY <2>2 DEF Draws
    <3> HIDE DEF b
    <3>2. Append(b, InFlight) # <<>>
      <4>1. InFlight \in Points
        BY DEF InFlight, Point, Points, Streams
      <4>2. Len(Append(b, InFlight)) = Len(b) + 1 /\ Len(b) \in Nat
        BY <3>1, <4>1
      <4> QED  BY <4>2
    <3> QED  BY <2>1, <3>2 DEF b
  <2>4. DrawInv' /\ NameFitsTheLine'
    BY <2>1, <2>2, <2>3 DEF ChartInv, DrawInv, NameFitsTheLine
  <2> QED  BY <2>1, <2>4, PaneIs DEF ChartInv
<1>3. CASE Land
  <2>1. tween # None /\ tween' = None /\ UNCHANGED buffer /\ Redraw
    BY <1>3 DEF Land
  <2>2. buffer # None
    BY <2>1 DEF ChartInv, DrawInv
  <2>3. Shown'
    BY <2>1, <2>2, RedrawShows
  <2> QED  BY <2>1, <2>3, PaneIs, ShownDraws DEF ChartInv, Shown, DrawInv, NameFitsTheLine
<1>4. CASE Notice
  <2>1. CASE buffer = <<>> /\ live # None
    <3>1. /\ buffer' = SeedFlat(live) /\ plot' = buffer' /\ described' = ToSet(buffer')
          /\ UNCHANGED tween
      BY <1>4, <2>1 DEF Notice, Describe
    <3>2. buffer # None /\ live \in PointsOf(OnChart)
      BY <2>1, PaneIs DEF ChartInv, PaneInv, HeaderIsOf, Quotes
    <3>3. tween = None
      BY <2>1, <3>2 DEF ChartInv, DrawInv
    <3>4. buffer' \in Buffers(OnChart) /\ buffer' # None
      BY <3>1, <3>2, FlatFits, PaneIs DEF ChartInv
    <3>5. Shown'
      BY <3>1, <3>3 DEF Shown
    <3> QED  BY <3>2, <3>4, <3>5 DEF Shown, DrawInv, NameFitsTheLine
  <2>2. CASE ~(buffer = <<>> /\ live # None)
    <3>1. UNCHANGED chartVars
      BY <1>4, <2>2 DEF Notice, chartVars
    <3> QED  BY <3>1, ChartAlone, PaneIs DEF ChartInv, chartVars
  <2> QED  BY <2>1, <2>2
<1> QED  BY <1>1, <1>2, <1>3, <1>4 DEF Chart

(* Every step keeps the chart in order.                                    *)
LEMMA ChartKeeps ==
  ASSUME ChartInv, [Next]_vars
  PROVE  ChartInv'
<1>1. CASE UNCHANGED vars
  <2>1. PaneInv'
    BY <1>1
       DEF vars, tapeVars, streamVars, headerVars, paneVars, historyVars, chartVars, ChartInv, PaneInv,
           PaneTypes, HeaderIsOf, Quotes, HistoryIsOf, OnChart, BufferIsOf, ChartThere, Charted,
           RequestsAre, RequestIsOf
  <2> QED  BY <1>1, <2>1, ChartAlone DEF vars, ChartInv
<1>2. CASE Server
  BY <1>2, AdvanceKeeps, AnswerKeeps, EntitleKeeps DEF Server
<1>3. CASE Answers
  BY <1>3, SnapshotKeeps, NotFoundKeeps, HistoryKeeps DEF Answers
<1>4. CASE Header
  BY <1>4, HeaderKeeps
<1>5. CASE Chart
  <2>1. UNCHANGED <<now, mount, ran, strayed, pane, stream, phase, quote, waiting, live, history, requests>>
    BY <1>5
       DEF Chart, Sample, Fly, Land, Notice, tapeVars, streamVars, headerVars, paneVars, historyVars
  <2>2. PaneInv'
    BY <1>5, <2>1, ChartMoves
       DEF ChartInv, PaneInv, PaneTypes, HeaderIsOf, Quotes, HistoryIsOf, OnChart, BufferIsOf,
           ChartThere, Charted, RequestsAre, RequestIsOf
  <2> QED  BY <1>5, <2>2, ChartMoves DEF ChartInv
<1>6. CASE User
  BY <1>6, SwitchKeeps, PickKeeps DEF User
<1> QED  BY <1>1, <1>2, <1>3, <1>4, <1>5, <1>6 DEF Next

(* No pane is open at first.                                               *)
LEMMA ChartBegins ==
  ASSUME Init
  PROVE  ChartInv
<1>1. PaneTypes
  <2>1. now \in Nat /\ mount \in Nat /\ ran \in 0 .. mount /\ ran = mount
    BY Bounds DEF Init
  <2>2. stream \in Streams
    BY ChartAssumption DEF Init
  <2> QED  BY <2>1, <2>2 DEF Init, PaneTypes
<1>2. PaneInv
  BY <1>1
     DEF Init, PaneInv, HeaderIsOf, Quotes, HistoryIsOf, BufferIsOf, ChartThere, Charted,
         RequestsAre
<1> QED  BY <1>2 DEF Init, ChartInv, DrawInv, NameFitsTheLine

----------------------------------------------------------------------------
(* The chart is mounted exactly while its pane has something to chart: with the history or
   without it, but not before the answer, and not for an instrument that is not found. *)
THEOREM ChartStaysTyped == Spec => []TypeOK
<1>1. Init => ChartInv
  BY ChartBegins
<1>2. ChartInv /\ [Next]_vars => ChartInv'
  BY ChartKeeps
<1>3. ChartInv => TypeOK
  BY DEF ChartInv, PaneInv, PaneTypes, BufferIsOf, Buffers, ChartThere, TypeOK
<1> QED  BY <1>1, <1>2, <1>3, PTL DEF Spec

(* Whatever is answered late, and to whichever pane, the price a chart samples is of the symbol
   of the pane that is open, and so are its points, unless a history of the pane before has been
   stored between the render of this one and its effects. *)
THEOREM ChartStaysWithItsPane == Spec => []ChartIsOfItsPane
<1>1. Init => ChartInv
  BY ChartBegins
<1>2. ChartInv /\ [Next]_vars => ChartInv'
  BY ChartKeeps
<1>3. ChartInv => ChartIsOfItsPane
  <2> SUFFICES ASSUME ChartInv PROVE ChartIsOfItsPane
    OBVIOUS
  <2>1. live # None => live.symbol = pane
    BY DEF ChartInv, PaneInv, HeaderIsOf, Quotes, PointsOf
  <2>2. buffer # None => \A p \in ToSet(buffer) : p \in PointsOf(OnChart)
    BY PaneIs DEF ChartInv, ToSet
  <2> QED  BY <2>1, <2>2 DEF PointsOf, OnChart, ChartIsOfItsPane
<1> QED  BY <1>1, <1>2, <1>3, PTL DEF Spec

(* Whenever a sample overtakes the draw-in of another, the stream changes in the middle of one
   or another chart is mounted, the tag prints the last sample, and a chart plots nothing
   exactly when its buffer holds nothing. *)
THEOREM TagStaysASample == Spec => []TagIsLastSample
<1>1. Init => ChartInv
  BY ChartBegins
<1>2. ChartInv /\ [Next]_vars => ChartInv'
  BY ChartKeeps
<1>3. ChartInv => TagIsLastSample
  BY DEF ChartInv, DrawInv, TagIsLastSample, TagOf
<1> QED  BY <1>1, <1>2, <1>3, PTL DEF Spec

(* The points the accessible name is taken from are those of the buffer, although what is
   plotted is behind it while a sample draws in. *)
THEOREM NameStaysWithTheLine == Spec => []NameFitsTheLine
<1>1. Init => ChartInv
  BY ChartBegins
<1>2. ChartInv /\ [Next]_vars => ChartInv'
  BY ChartKeeps
<1>3. ChartInv => NameFitsTheLine
  BY DEF ChartInv
<1> QED  BY <1>1, <1>2, <1>3, PTL DEF Spec

=============================================================================
