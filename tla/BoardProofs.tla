----------------------------- MODULE BoardProofs -----------------------------
(***************************************************************************)
(* Theorems about Board, for any finite set of symbols and any number of   *)
(* events.  First the ranking, which is some arrangement of the rows by an *)
(* order: that there is one, that it has every row once, and what its      *)
(* first row is; then what the rows, the picks and the focus promise and   *)
(* which changes keep it; then every action.  The rows are sorted by the   *)
(* views they show at the time, which is all the order needs; a card is    *)
(* first among all symbols when it is picked, and later only has to be     *)
(* among fewer.                                                            *)
(***************************************************************************)
EXTENDS Board, FiniteSetTheorems, TLAPS

----------------------------------------------------------------------------
(* The ranking.                                                            *)

(* Every symbol is listed by the exchange, once.                           *)
LEMMA UniverseIs ==
  /\ Cardinality(Symbols) \in Nat
  /\ Universe \in [1 .. Cardinality(Symbols) -> Symbols]
  /\ \A s \in Symbols : \E i \in 1 .. Cardinality(Symbols) : Universe[i] = s
<1> DEFINE n == Cardinality(Symbols)
<1>1. n \in Nat /\ ExistsBijection(1 .. n, Symbols)
  BY FS_CardinalityType, BoardAssumption
<1>2. \E f \in [1 .. n -> Symbols] : IsInjective(f)
  BY <1>1 DEF ExistsBijection, Bijection, Injection
<1>3. Universe \in [1 .. n -> Symbols] /\ IsInjective(Universe)
  BY <1>2 DEF Universe, SetToSeq
<1> HIDE DEF n
<1>4. Universe \in Injection(1 .. n, Symbols)
  BY <1>3 DEF Injection
<1>5. Cardinality(1 .. n) = n
  BY <1>1, FS_Interval
<1>6. Universe \in Surjection(1 .. n, Symbols)
  BY <1>4, <1>5, FS_Injection, BoardAssumption DEF n
<1> QED  BY <1>1, <1>3, <1>6 DEF n, Surjection

(* So every symbol has a place of its own.                                 *)
LEMMA PlaceIs ==
  /\ \A s \in Symbols : Place[s] \in Nat
  /\ \A s, t \in Symbols : Place[s] = Place[t] => s = t
<1>1. \A s \in Symbols : Place[s] \in DOMAIN Universe /\ Universe[Place[s]] = s
  BY UniverseIs DEF Place
<1>2. DOMAIN Universe \subseteq Nat
  BY UniverseIs
<1> QED  BY <1>1, <1>2

(* What rows are ranked by is a number.                                    *)
LEMMA KeyIs ==
  ASSUME NEW column, NEW s \in Symbols, NEW view
  PROVE  SortKey(column, s, view) \in Int
<1>1. Place[s] \in Int
  BY PlaceIs
<1> QED  BY <1>1 DEF SortKey, ChangePercent, TradedValue

(* Of two symbols one precedes the other, however they are ranked.         *)
LEMMA PrecedesIs ==
  ASSUME NEW st, NEW view, NEW s \in Symbols, NEW t \in Symbols, NEW u \in Symbols
  PROVE  /\ ~Precedes(s, s, st, view)
         /\ s # t => Precedes(s, t, st, view) \/ Precedes(t, s, st, view)
         /\ Precedes(s, t, st, view) /\ Precedes(t, u, st, view) => Precedes(s, u, st, view)
<1>1. Place[s] \in Int /\ Place[t] \in Int /\ Place[u] \in Int /\ (s # t => Place[s] # Place[t])
  BY PlaceIs
<1>2. CASE st = None
  BY <1>1, <1>2 DEF Precedes
<1>3. CASE st # None
  <2> DEFINE a == SortKey(st.column, s, view)
             b == SortKey(st.column, t, view)
             c == SortKey(st.column, u, view)
  <2>1. a \in Int /\ b \in Int /\ c \in Int
    BY KeyIs
  <2>2. /\ Precedes(s, s, st, view) <=> Place[s] < Place[s]
        /\ Precedes(s, t, st, view) <=>
             IF a = b THEN Place[s] < Place[t] ELSE IF st.direction = "asc" THEN a < b ELSE a > b
        /\ Precedes(t, s, st, view) <=>
             IF b = a THEN Place[t] < Place[s] ELSE IF st.direction = "asc" THEN b < a ELSE b > a
        /\ Precedes(t, u, st, view) <=>
             IF b = c THEN Place[t] < Place[u] ELSE IF st.direction = "asc" THEN b < c ELSE b > c
        /\ Precedes(s, u, st, view) <=>
             IF a = c THEN Place[s] < Place[u] ELSE IF st.direction = "asc" THEN a < c ELSE a > c
    BY <1>3 DEF Precedes
  <2> HIDE DEF a, b, c
  <2> QED  BY <1>1, <2>1, <2>2
<1> QED  BY <1>2, <1>3

Sorted(rows, st, view) ==
  \A i, j \in DOMAIN rows : i < j => Precedes(rows[i], rows[j], st, view)

(* A set of symbols can be ranked: each symbol is put behind those that precede it. *)
LEMMA RankingExists ==
  ASSUME NEW set \in SUBSET Symbols, NEW st, NEW view
  PROVE  \E rows \in [1 .. Cardinality(set) -> set] : Sorted(rows, st, view)
<1> DEFINE n == Cardinality(set)
           before(t, s) == Precedes(t, s, st, view)
           upTo(s) == {t \in set : t = s \/ before(t, s)}
           rank == [s \in set |-> Cardinality(upTo(s))]
<1>1. IsFiniteSet(set) /\ n \in Nat
  BY FS_Subset, FS_CardinalityType, BoardAssumption
<1>2. \A s, t, u \in set :
        /\ ~before(s, s)
        /\ s # t => before(s, t) \/ before(t, s)
        /\ before(s, t) /\ before(t, u) => before(s, u)
  BY PrecedesIs
<1> HIDE DEF before
<1>3. ASSUME NEW s \in set
      PROVE  /\ IsFiniteSet(upTo(s)) /\ Cardinality(upTo(s)) \in 1 .. n
  <2> DEFINE U == upTo(s)
  <2>1. U \in SUBSET set /\ U # {}
    OBVIOUS
  <2> HIDE DEF U
  <2>2. IsFiniteSet(U) /\ Cardinality(U) <= n
    BY <1>1, <2>1, FS_Subset
  <2>3. Cardinality(U) \in Nat /\ Cardinality(U) # 0
    BY <2>1, <2>2, FS_CardinalityType, FS_EmptySet
  <2>4. IsFiniteSet(U) /\ Cardinality(U) \in 1 .. n
    BY <1>1, <2>2, <2>3
  <2> QED  BY <2>4 DEF U
<1>4. ASSUME NEW s \in set, NEW t \in set, before(s, t)
      PROVE  Cardinality(upTo(s)) < Cardinality(upTo(t))
  <2> DEFINE U == upTo(s)
             V == upTo(t)
  <2>1. U \in SUBSET V /\ t \in V /\ t \notin U
    BY <1>2, <1>4
  <2>2. IsFiniteSet(V) /\ Cardinality(V) \in Nat /\ Cardinality(U) \in Nat
    BY <1>1, <1>3
  <2> HIDE DEF U, V
  <2>3. Cardinality(U) <= Cardinality(V) /\ (Cardinality(V) = Cardinality(U) => V = U)
    BY <2>1, <2>2, FS_Subset
  <2>4. Cardinality(U) < Cardinality(V)
    BY <2>1, <2>2, <2>3
  <2> QED  BY <2>4 DEF U, V
<1>5. rank \in [set -> 1 .. n] /\ \A s, t \in set : before(s, t) => rank[s] < rank[t]
  <2> HIDE DEF upTo
  <2>1. rank \in [set -> 1 .. n]
    BY <1>3
  <2>2. \A s, t \in set : before(s, t) => rank[s] < rank[t]
    BY <1>4
  <2> QED  BY <2>1, <2>2
<1> HIDE DEF rank, upTo, n
<1>6. \A s, t \in set : rank[s] \in Int /\ (rank[s] = rank[t] => s = t)
  BY <1>1, <1>2, <1>5
<1>7. rank \in Injection(set, 1 .. n)
  BY <1>5, <1>6 DEF Injection, IsInjective
<1>8. IsFiniteSet(1 .. n) /\ Cardinality(1 .. n) = n
  BY <1>1, FS_Interval
<1>9. rank \in Surjection(set, 1 .. n)
  <2>1. Cardinality(set) = Cardinality(1 .. n)
    BY <1>8 DEF n
  <2> DEFINE D == 1 .. n
  <2> HIDE DEF D
  <2>2. rank \in Surjection(set, D)
    BY <1>7, <1>8, <2>1, FS_Injection DEF D
  <2> QED  BY <2>2 DEF D
<1>10. \A i \in 1 .. n : \E s \in set : rank[s] = i
  BY <1>9 DEF Surjection
<1> DEFINE rows == [i \in 1 .. n |-> CHOOSE s \in set : rank[s] = i]
<1>11. rows \in [1 .. n -> set] /\ \A i \in 1 .. n : rank[rows[i]] = i
  BY <1>10
<1> HIDE DEF rows
<1>12. ASSUME NEW i \in 1 .. n, NEW j \in 1 .. n, i < j
       PROVE  before(rows[i], rows[j])
  <2>1. rows[i] \in set /\ rows[j] \in set /\ rank[rows[i]] = i /\ rank[rows[j]] = j
    BY <1>11
  <2>2. rows[i] # rows[j]
    BY <1>12, <2>1
  <2>3. ~before(rows[j], rows[i])
    <3>1. before(rows[j], rows[i]) => j < i
      BY <1>5, <2>1
    <3> QED  BY <1>1, <1>12, <3>1
  <2> QED  BY <1>2, <2>1, <2>2, <2>3
<1>13. Sorted(rows, st, view)
  BY <1>11, <1>12 DEF Sorted, before
<1> QED  BY <1>11, <1>13 DEF n

(* The rows of a set are its symbols, each once, in the order of the ranking. *)
LEMMA RankedIs ==
  ASSUME NEW set \in SUBSET Symbols, NEW st, NEW view
  PROVE  /\ Cardinality(set) \in Nat
         /\ Ranked(set, st, view) \in [1 .. Cardinality(set) -> set]
         /\ Sorted(Ranked(set, st, view), st, view)
         /\ Range(Ranked(set, st, view)) = set
<1> DEFINE n == Cardinality(set)
           rows == Ranked(set, st, view)
<1>1. IsFiniteSet(set) /\ n \in Nat
  BY FS_Subset, FS_CardinalityType, BoardAssumption
<1>2. rows \in [1 .. n -> set] /\ Sorted(rows, st, view)
  BY RankingExists DEF Ranked, Sorted
<1> HIDE DEF n, rows
<1>3. \A i, j \in 1 .. n : rows[i] = rows[j] => i = j
  <2> TAKE i, j \in 1 .. n
  <2>1. rows[i] \in Symbols /\ rows[j] \in Symbols
    BY <1>2
  <2>2. i < j => Precedes(rows[i], rows[j], st, view)
    BY <1>2 DEF Sorted
  <2>3. j < i => Precedes(rows[j], rows[i], st, view)
    BY <1>2 DEF Sorted
  <2>4. ~Precedes(rows[i], rows[i], st, view)
    BY <2>1, PrecedesIs
  <2> QED  BY <1>1, <2>2, <2>3, <2>4
<1>4. rows \in Injection(1 .. n, set)
  BY <1>2, <1>3 DEF Injection, IsInjective
<1>5. Cardinality(1 .. n) = n
  BY <1>1, FS_Interval
<1>6. rows \in Surjection(1 .. n, set)
  <2> DEFINE D == 1 .. n
  <2> HIDE DEF D
  <2>1. Cardinality(D) = Cardinality(set)
    BY <1>5 DEF D, n
  <2>2. rows \in Surjection(D, set)
    BY <1>1, <1>4, <2>1, FS_Injection DEF D
  <2> QED  BY <2>2 DEF D
<1>7. Range(rows) = set
  BY <1>2, <1>6 DEF Range, Surjection
<1> QED  BY <1>1, <1>2, <1>7 DEF n, rows

(* Rows are a sequence of symbols, and have a first and a last when there are any. *)
LEMMA RowsAre ==
  ASSUME NEW set \in SUBSET Symbols, NEW rows \in [1 .. Cardinality(set) -> Symbols],
         Range(rows) = set
  PROVE  /\ rows \in Seq(Symbols) /\ DOMAIN rows = 1 .. Len(rows)
         /\ rows # <<>> => rows[1] \in set /\ Last(rows) \in set
         /\ set # {} => rows # <<>>
<1>1. Cardinality(set) \in Nat
  BY RankedIs
<1>2. rows \in Seq(Symbols) /\ Len(rows) = Cardinality(set)
  BY <1>1
<1>3. DOMAIN rows = 1 .. Len(rows) /\ Len(rows) \in Nat
  BY <1>2
<1>4. ASSUME rows # <<>> PROVE rows[1] \in set /\ Last(rows) \in set
  <2>1. Len(rows) # 0
    BY <1>2, <1>4
  <2>2. 1 \in DOMAIN rows /\ Len(rows) \in DOMAIN rows
    BY <1>3, <2>1
  <2> QED  BY <2>2 DEF Range, Last
<1>5. ASSUME set # {} PROVE rows # <<>>
  <2>1. DOMAIN rows # {}
    BY <1>5 DEF Range
  <2> QED  BY <2>1, <1>3
<1> QED  BY <1>2, <1>3, <1>4, <1>5

----------------------------------------------------------------------------
(* Rows in the order of what they show.                                    *)

(* What the order promises of two rows, the first above the second.        *)
InOrder(st, s, t, shown) ==
  LET a == SortKey(st.column, s, shown)
      b == SortKey(st.column, t, shown)
  IN  IF st.direction = "asc" THEN a <= b ELSE a >= b

RowsInOrder(rows, st, shown, loose) ==
  st # None =>
    \A i, j \in DOMAIN rows :
      i < j /\ {rows[i], rows[j]} \cap loose = {} => InOrder(st, rows[i], rows[j], shown)

(* Rows that were ranked by what they show are in the order of it.         *)
LEMMA RankedInOrder ==
  ASSUME NEW set \in SUBSET Symbols, NEW st, NEW view, NEW shown, NEW loose,
         \A s \in set : shown[s] = view[s]
  PROVE  RowsInOrder(Ranked(set, st, view), st, shown, loose)
<1> DEFINE rows == Ranked(set, st, view)
<1>1. rows \in [1 .. Cardinality(set) -> set] /\ Sorted(rows, st, view)
  BY RankedIs
<1> HIDE DEF rows
<1> SUFFICES ASSUME st # None, NEW i \in DOMAIN rows, NEW j \in DOMAIN rows, i < j
             PROVE  InOrder(st, rows[i], rows[j], shown)
  BY DEF RowsInOrder, rows
<1> DEFINE s == rows[i]
           t == rows[j]
           a == SortKey(st.column, s, view)
           b == SortKey(st.column, t, view)
<1>2. s \in Symbols /\ t \in Symbols /\ shown[s] = view[s] /\ shown[t] = view[t]
  BY <1>1
<1>3. Precedes(s, t, st, view)
  BY <1>1 DEF Sorted
<1> HIDE DEF s, t
<1>4. a \in Int /\ b \in Int
  BY <1>2, KeyIs
<1>5. SortKey(st.column, s, shown) = a /\ SortKey(st.column, t, shown) = b
  BY <1>2 DEF SortKey
<1>6. IF a = b THEN Place[s] < Place[t] ELSE IF st.direction = "asc" THEN a < b ELSE a > b
  BY <1>3 DEF Precedes
<1> HIDE DEF a, b
<1>7. IF st.direction = "asc" THEN a <= b ELSE a >= b
  BY <1>4, <1>6
<1>8. InOrder(st, s, t, shown)
  BY <1>5, <1>7 DEF InOrder
<1> QED  BY <1>8 DEF s, t

(* It is a promise of the rows not excepted, and of what these show.       *)
LEMMA OrderStands ==
  ASSUME NEW rows, NEW st, NEW shown, NEW loose, NEW now, NEW looser,
         RowsInOrder(rows, st, shown, loose), loose \subseteq looser,
         \A s \in Range(rows) \ looser : now[s] = shown[s]
  PROVE  RowsInOrder(rows, st, now, looser)
<1> SUFFICES ASSUME st # None, NEW i \in DOMAIN rows, NEW j \in DOMAIN rows, i < j,
                    {rows[i], rows[j]} \cap looser = {}
             PROVE  InOrder(st, rows[i], rows[j], now)
  BY DEF RowsInOrder
<1>1. InOrder(st, rows[i], rows[j], shown)
  BY DEF RowsInOrder
<1>2. now[rows[i]] = shown[rows[i]] /\ now[rows[j]] = shown[rows[j]]
  BY DEF Range
<1> QED  BY <1>1, <1>2 DEF InOrder, SortKey

(* Rows that have lost all their figures are in order.                     *)
LEMMA OrderOfNothing ==
  ASSUME NEW rows, NEW st, NEW shown, NEW now, NEW loose,
         RowsInOrder(rows, st, shown, loose), Range(rows) \subseteq Symbols,
         \A s \in Range(rows) : now[s] = None
  PROVE  RowsInOrder(rows, st, now, loose)
<1> SUFFICES ASSUME st # None, NEW i \in DOMAIN rows, NEW j \in DOMAIN rows, i < j,
                    {rows[i], rows[j]} \cap loose = {}
             PROVE  InOrder(st, rows[i], rows[j], now)
  BY DEF RowsInOrder
<1>1. InOrder(st, rows[i], rows[j], shown)
  BY DEF RowsInOrder
<1>2. now[rows[i]] = None /\ now[rows[j]] = None /\ rows[i] \in Symbols /\ rows[j] \in Symbols
  BY DEF Range
<1> DEFINE a == SortKey(st.column, rows[i], now)
           b == SortKey(st.column, rows[j], now)
<1>3. CASE st.column \in {"changePercent", "value"}
  <2>1. a = b
    BY <1>2, <1>3 DEF SortKey
  <2>2. a \in Int
    BY <1>2, KeyIs
  <2> QED  BY <2>1, <2>2 DEF InOrder
<1>4. CASE st.column \notin {"changePercent", "value"}
  <2>1. SortKey(st.column, rows[i], shown) = a /\ SortKey(st.column, rows[j], shown) = b
    BY <1>4 DEF SortKey
  <2> QED  BY <1>1, <2>1 DEF InOrder
<1> QED  BY <1>3, <1>4

----------------------------------------------------------------------------
(* The picks.                                                              *)

PickTypes == [gainer : Symbols \cup {None}, loser : Symbols \cup {None},
              active : Symbols \cup {None}]

(* What the cards promise of the symbols in shown.                         *)
PicksHold(p, shown, view) ==
  /\ p.gainer \in shown =>
       /\ ChangePercent(view[p.gainer]) >= 5
       /\ \A s \in shown : ChangePercent(view[s]) <= ChangePercent(view[p.gainer])
  /\ p.loser \in shown =>
       /\ ChangePercent(view[p.loser]) <= -5
       /\ \A s \in shown : ChangePercent(view[s]) >= ChangePercent(view[p.loser])
  /\ p.active \in shown =>
       \A s \in shown : TradedValue(view[s]) <= TradedValue(view[p.active])
  /\ p.gainer = None => \A s \in shown : ChangePercent(view[s]) < 5
  /\ p.loser = None => \A s \in shown : ChangePercent(view[s]) > -5 \/ s = p.gainer

(* The first of a ranking by a column is extreme in it.                    *)
LEMMA FirstIs ==
  ASSUME NEW view, NEW column \in Columns, NEW direction \in {"asc", "desc"}
  PROVE  /\ First(view, column, direction) \in Symbols
         /\ \A s \in Symbols :
              LET a == SortKey(column, First(view, column, direction), view)
                  b == SortKey(column, s, view)
              IN  IF direction = "asc" THEN a <= b ELSE a >= b
<1> DEFINE st == Order(column, direction, "picks")
           rows == Ranked(Symbols, st, view)
           n == Cardinality(Symbols)
<1>1. st \in Sorts /\ st # None /\ st.column = column /\ st.direction = direction
  BY BoardAssumption DEF Order, Sorts
<1>2. n \in Nat /\ rows \in [1 .. n -> Symbols] /\ Range(rows) = Symbols
  BY RankedIs
<1>3. RowsInOrder(rows, st, view, {})
  BY RankedInOrder
<1>4. First(view, column, direction) = rows[1]
  BY DEF First
<1> HIDE DEF st, rows, n
<1>5. Symbols # {}
  BY BoardAssumption
<1>6. DOMAIN rows = 1 .. n /\ 1 \in 1 .. n
  <2>1. PICK s \in Symbols : TRUE
    BY <1>5
  <2>2. PICK i \in 1 .. n : rows[i] = s
    BY <1>2 DEF Range
  <2> QED  BY <1>2, <2>2
<1>7. rows[1] \in Symbols
  BY <1>2, <1>6
<1>8. ASSUME NEW s \in Symbols
      PROVE  LET a == SortKey(column, rows[1], view)
                 b == SortKey(column, s, view)
             IN  IF direction = "asc" THEN a <= b ELSE a >= b
  <2>1. PICK i \in 1 .. n : rows[i] = s
    BY <1>2 DEF Range
  <2>2. SortKey(column, s, view) \in Int
    BY KeyIs
  <2>3. CASE i = 1
    BY <2>1, <2>2, <2>3
  <2>4. CASE i # 1
    <3>1. 1 < i
      BY <1>2, <2>4
    <3>2. InOrder(st, rows[1], rows[i], view)
      BY <1>1, <1>3, <1>6, <3>1 DEF RowsInOrder
    <3> QED  BY <1>1, <2>1, <3>2 DEF InOrder
  <2> QED  BY <2>3, <2>4
<1> QED  BY <1>4, <1>7, <1>8

(* A change qualifies for a card when it does not round to nothing.        *)
LEMMA QualifiesIs ==
  ASSUME NEW g \in {10, 4, -10, 0}, NEW l \in {10, 4, -10, 0}
  PROVE  /\ Qualifies([gainer |-> g, loser |-> l]).gainer <=> g >= 5
         /\ Qualifies([gainer |-> g, loser |-> l]).loser <=> l <= -5
<1>1. /\ Qualifies([gainer |-> g, loser |-> l]).gainer <=> ~(g \in -4 .. 4) /\ g > 0
      /\ Qualifies([gainer |-> g, loser |-> l]).loser <=> ~(l \in -4 .. 4) /\ l < 0
  BY DEF Qualifies, Unchanged
<1> QED  BY <1>1

(* The cards of a view are true of all its symbols.                        *)
LEMMA PickHeroesIs ==
  ASSUME NEW view
  PROVE  PickHeroes(view) \in PickTypes /\ PicksHold(PickHeroes(view), Symbols, view)
<1> DEFINE g == First(view, "changePercent", "desc")
           l == First(view, "changePercent", "asc")
           a == First(view, "value", "desc")
           percent(s) == ChangePercent(view[s])
           value(s) == TradedValue(view[s])
           p == PickHeroes(view)
<1>1. /\ g \in Symbols /\ \A s \in Symbols : percent(g) >= percent(s)
      /\ l \in Symbols /\ \A s \in Symbols : percent(l) <= percent(s)
      /\ a \in Symbols /\ \A s \in Symbols : value(a) >= value(s)
  <2>1. "changePercent" \in Columns /\ "value" \in Columns
    BY DEF Columns
  <2>2. \A s : SortKey("changePercent", s, view) = percent(s)
    BY DEF SortKey
  <2>3. \A s : SortKey("value", s, view) = value(s)
    BY DEF SortKey
  <2>4. g \in Symbols /\ \A s \in Symbols : percent(g) >= percent(s)
    <3> HIDE DEF percent
    <3> QED  BY FirstIs, <2>1, <2>2
  <2>5. l \in Symbols /\ \A s \in Symbols : percent(l) <= percent(s)
    <3> HIDE DEF percent
    <3> QED  BY FirstIs, <2>1, <2>2
  <2>6. a \in Symbols /\ \A s \in Symbols : value(a) >= value(s)
    <3> HIDE DEF value
    <3> QED  BY FirstIs, <2>1, <2>3
  <2> QED  BY <2>4, <2>5, <2>6
<1>2. \A s : percent(s) \in {10, 4, -10, 0}
  BY DEF ChangePercent
<1>3. None \notin Symbols
  BY BoardAssumption
<1>4. /\ p.gainer = IF percent(g) >= 5 THEN g ELSE None
      /\ p.loser = IF percent(l) <= -5 /\ l # p.gainer THEN l ELSE None
      /\ p.active = IF a \in {p.gainer, p.loser} THEN None ELSE a
      /\ p = [gainer |-> p.gainer, loser |-> p.loser, active |-> p.active]
  <2> DEFINE true == Qualifies([gainer |-> percent(g), loser |-> percent(l)])
  <2>1. true.gainer <=> percent(g) >= 5
    BY <1>2, QualifiesIs
  <2>2. true.loser <=> percent(l) <= -5
    BY <1>2, QualifiesIs
  <2>3. p = LET gainer == IF true.gainer THEN g ELSE None
                loser  == IF true.loser /\ l # gainer THEN l ELSE None
            IN  [gainer |-> gainer, loser |-> loser,
                 active |-> IF a \in {gainer, loser} THEN None ELSE a]
    BY DEF PickHeroes
  <2> HIDE DEF true, g, l, a, p, percent
  <2> QED  BY <2>1, <2>2, <2>3
<1> HIDE DEF g, l, a, p
<1>5. p \in PickTypes
  BY <1>1, <1>4 DEF PickTypes
<1> DEFINE gp == percent(g)
           lp == percent(l)
<1>6. gp \in Int /\ lp \in Int /\ \A s : percent(s) \in Int
  BY <1>2
<1>7. p.gainer \in Symbols => p.gainer = g /\ gp >= 5
  BY <1>3, <1>4
<1>8. p.loser \in Symbols => p.loser = l /\ lp <= -5
  BY <1>3, <1>4
<1>9. p.active \in Symbols => p.active = a
  BY <1>3, <1>4
<1>10. p.gainer = None => gp < 5
  BY <1>1, <1>3, <1>4, <1>6
<1>11. p.loser = None => lp > -5 \/ l = p.gainer
  BY <1>1, <1>3, <1>4, <1>6
<1> HIDE DEF percent, value
<1>12. p.gainer = None => \A s \in Symbols : percent(s) < 5
  BY <1>1, <1>6, <1>10
<1>13. p.loser = None => \A s \in Symbols : percent(s) > -5 \/ s = p.gainer
  <2>1. l = p.gainer => lp >= 5
    BY <1>1, <1>7
  <2> QED  BY <1>1, <1>6, <1>11, <2>1
<1>14. PicksHold(p, Symbols, view)
  BY <1>1, <1>7, <1>8, <1>9, <1>12, <1>13 DEF PicksHold, percent, value
<1> QED  BY <1>5, <1>14 DEF p

(* What the cards promise they promise of fewer symbols too.               *)
LEMMA PicksNarrow ==
  ASSUME NEW p, NEW shown, NEW view, NEW fewer \in SUBSET shown, NEW now,
         PicksHold(p, shown, view), \A s \in fewer : now[s] = view[s]
  PROVE  PicksHold(p, fewer, now)
<1>1. \A s \in fewer : s \in shown /\ ChangePercent(now[s]) = ChangePercent(view[s])
                       /\ TradedValue(now[s]) = TradedValue(view[s])
  OBVIOUS
<1> QED  BY <1>1 DEF PicksHold


----------------------------------------------------------------------------
(* What is on the board.                                                   *)

Focusable == Symbols \cup Columns \cup Controls \cup Lost

RowTypes ==
  /\ raw \in Queries /\ debounced \in Queries
  /\ sort \in Sorts \cup {None}
  /\ order \in [1 .. Cardinality(Matching(debounced)) -> Symbols]
  /\ Range(order) = Matching(debounced)

FigureTypes ==
  /\ store \in [Symbols -> Figures \cup {None}]
  /\ picks \in PickTypes
  /\ paced \in [Range(order) \cup Cards(picks) -> Figures \cup {None}]
  /\ ahead \in SUBSET Symbols /\ flushed \in SUBSET Symbols

PaneTypes ==
  /\ selected \in Symbols \cup {None}
  /\ going \in Seq(Symbols \cup {None})
  /\ frame \in Frames \cup {None}
  /\ focus \in Focusable /\ focusedSymbol \in Symbols \cup {None}

RowInv == RowTypes /\ FigureTypes /\ OrderIsOfTheFigures /\ PicksAreTrue

BoardInv == RowInv /\ PaneTypes /\ FocusIsLookedAfter

(* The two promises of the board, as they are proved.                      *)
LEMMA PromisesAre ==
  /\ OrderIsOfTheFigures <=> RowsInOrder(order, sort, paced, flushed)
  /\ PicksAreTrue <=> PicksHold(picks, DOMAIN paced \ ahead, paced)
<1>1. OrderIsOfTheFigures <=> RowsInOrder(order, sort, paced, flushed)
  BY DEF OrderIsOfTheFigures, RowsInOrder, InOrder
<1>2. PicksAreTrue <=> PicksHold(picks, DOMAIN paced \ ahead, paced)
  BY DEF PicksAreTrue, PicksHold
<1> QED  BY <1>1, <1>2

(* The same after a step.                                                  *)
LEMMA PromisesThen ==
  /\ OrderIsOfTheFigures' <=> RowsInOrder(order', sort', paced', flushed')
  /\ PicksAreTrue' <=> PicksHold(picks', DOMAIN paced' \ ahead', paced')
<1>1. OrderIsOfTheFigures' <=> RowsInOrder(order', sort', paced', flushed')
  BY DEF OrderIsOfTheFigures, RowsInOrder, InOrder
<1>2. PicksAreTrue' <=> PicksHold(picks', DOMAIN paced' \ ahead', paced')
  BY DEF PicksAreTrue, PicksHold
<1> QED  BY <1>1, <1>2

(* A query matches symbols of the board; the exact ticker is one it matches. *)
LEMMA MatchingIs ==
  ASSUME NEW q
  PROVE  Matching(q) \in SUBSET Symbols /\ Exact(q) \subseteq Matching(q)
<1>1. Cardinality(Symbols) \in Nat \ {0}
  BY UniverseIs, BoardAssumption
<1>2. Universe[1] \in Symbols
  BY <1>1, UniverseIs
<1>3. Last(Universe) \in Symbols
  <2> DEFINE n == Cardinality(Symbols)
  <2>1. Universe \in [1 .. n -> Symbols] /\ n \in Nat \ {0}
    BY <1>1, UniverseIs
  <2> HIDE DEF n
  <2>2. Len(Universe) = n
    BY <2>1
  <2> QED  BY <2>1, <2>2 DEF Last
<1> QED  BY <1>2, <1>3 DEF Matching, Exact

(* What is subscribed shows the views its rows are ranked by.              *)
LEMMA SubscribedIs ==
  ASSUME NEW rows, Range(rows) \subseteq Symbols, NEW p \in PickTypes, NEW entries, NEW stored,
         stored \in [Symbols -> Figures \cup {None}],
         DOMAIN entries \subseteq Symbols, \A s \in DOMAIN entries : entries[s] \in Figures \cup {None}
  PROVE  /\ Cards(p) \subseteq Symbols
         /\ Subscribed(rows, p, entries, stored) \in
              [Range(rows) \cup Cards(p) -> Figures \cup {None}]
         /\ \A s \in Range(rows) \cup Cards(p) :
              Subscribed(rows, p, entries, stored)[s] = Views(entries, stored)[s]
         /\ \A s \in (Range(rows) \cup Cards(p)) \cap DOMAIN entries :
              Subscribed(rows, p, entries, stored)[s] = entries[s]
<1>1. Cards(p) \subseteq Symbols
  BY DEF Cards, PickTypes
<1>2. \A s \in Range(rows) \cup Cards(p) :
        /\ s \in Symbols
        /\ Subscribed(rows, p, entries, stored)[s] =
             IF s \in DOMAIN entries THEN entries[s] ELSE stored[s]
        /\ Views(entries, stored)[s] = IF s \in DOMAIN entries THEN entries[s] ELSE stored[s]
  BY <1>1 DEF Subscribed, Views
<1>3. Subscribed(rows, p, entries, stored) \in [Range(rows) \cup Cards(p) -> Figures \cup {None}]
  BY <1>1 DEF Subscribed
<1> QED  BY <1>1, <1>2, <1>3

(* What the rows show is typed, and among the symbols.                     *)
LEMMA PacedIs ==
  ASSUME RowTypes, FigureTypes
  PROVE  /\ DOMAIN paced = Range(order) \cup Cards(picks) /\ DOMAIN paced \subseteq Symbols
         /\ \A s \in DOMAIN paced : paced[s] \in Figures \cup {None}
         /\ Range(order) \subseteq Symbols
<1>1. Range(order) \subseteq Symbols
  BY MatchingIs DEF RowTypes
<1>2. Cards(picks) \subseteq Symbols
  BY DEF FigureTypes, Cards, PickTypes
<1> QED  BY <1>1, <1>2 DEF FigureTypes

----------------------------------------------------------------------------
(* The rows and the figures, step by step.                                 *)

(* The beat ranks by what it publishes, and picks from it.                 *)
LEMMA BeatKeeps ==
  ASSUME RowInv, Beat
  PROVE  RowInv'
<1> DEFINE view == Views(Published, store)
           p == PickHeroes(view)
           rows == Resorted(view)
           shown == Subscribed(rows, p, Published, store)
<1>1. /\ order' = rows /\ picks' = p /\ paced' = shown /\ ahead' = {} /\ flushed' = {}
      /\ UNCHANGED <<store, sort, raw, debounced>>
  BY DEF Beat
<1>2. RowTypes /\ FigureTypes
  BY DEF RowInv
<1>3. store \in [Symbols -> Figures \cup {None}] /\ DOMAIN Published = DOMAIN paced
      /\ DOMAIN paced \subseteq Symbols
      /\ \A s \in DOMAIN paced : Published[s] \in Figures \cup {None}
  BY <1>2, PacedIs DEF Published, FigureTypes
<1>4. p \in PickTypes /\ PicksHold(p, Symbols, view)
  BY PickHeroesIs
<1>5. rows \in [1 .. Cardinality(Matching(debounced)) -> Symbols]
      /\ Range(rows) = Matching(debounced)
  <2>1. CASE sort = None
    BY <1>2, <2>1 DEF Resorted, RowTypes
  <2>2. CASE sort # None
    <3> DEFINE m == Matching(debounced)
    <3>1. m \in SUBSET Symbols /\ rows = Ranked(m, sort, view)
      BY <2>2, MatchingIs DEF Resorted
    <3> HIDE DEF m, view
    <3>2. Cardinality(m) \in Nat /\ rows \in [1 .. Cardinality(m) -> m] /\ Range(rows) = m
      BY <3>1, RankedIs
    <3> HIDE DEF rows
    <3>3. rows \in [1 .. Cardinality(m) -> Symbols]
      BY <3>1, <3>2
    <3> QED  BY <3>2, <3>3 DEF m
  <2> QED  BY <2>1, <2>2
<1>6. Range(rows) \subseteq Symbols
  BY <1>5, MatchingIs
<1> HIDE DEF p, rows
<1>7. /\ Cards(p) \subseteq Symbols /\ shown \in [Range(rows) \cup Cards(p) -> Figures \cup {None}]
      /\ \A s \in Range(rows) \cup Cards(p) : shown[s] = view[s]
  <2> DEFINE entries == Published
             now == Subscribed(rows, p, entries, store)
  <2> HIDE DEF shown, view, entries
  <2>1. DOMAIN entries \subseteq Symbols /\ \A s \in DOMAIN entries : entries[s] \in Figures \cup {None}
    BY <1>3 DEF entries
  <2>2. /\ Cards(p) \subseteq Symbols /\ now \in [Range(rows) \cup Cards(p) -> Figures \cup {None}]
        /\ \A s \in Range(rows) \cup Cards(p) : now[s] = Views(entries, store)[s]
    <3>1. store \in [Symbols -> Figures \cup {None}] /\ p \in PickTypes /\ Range(rows) \subseteq Symbols
      BY <1>3, <1>4, <1>6
    <3>2. PICK e : e = entries
      OBVIOUS
    <3>3. DOMAIN e \subseteq Symbols /\ \A s \in DOMAIN e : e[s] \in Figures \cup {None}
      BY <2>1, <3>2
    <3>4. /\ Cards(p) \subseteq Symbols
          /\ Subscribed(rows, p, e, store) \in [Range(rows) \cup Cards(p) -> Figures \cup {None}]
      BY <3>1, <3>3, SubscribedIs
    <3>5. \A s \in Range(rows) \cup Cards(p) :
             Subscribed(rows, p, e, store)[s] = Views(e, store)[s]
      BY <3>1, <3>4 DEF Subscribed, Views
    <3> QED  BY <3>2, <3>4, <3>5
  <2>3. shown = now /\ view = Views(entries, store)
    BY DEF shown, view, entries
  <2> QED  BY <2>2, <2>3
<1> HIDE DEF view, shown
<1>8. RowTypes' /\ FigureTypes'
  BY <1>1, <1>2, <1>3, <1>4, <1>5, <1>7 DEF RowTypes, FigureTypes
<1>9. RowsInOrder(rows, sort, shown, {})
  <2>1. CASE sort = None
    BY <2>1 DEF RowsInOrder
  <2>2. CASE sort # None
    <3> DEFINE m == Matching(debounced)
    <3>1. m \in SUBSET Symbols /\ rows = Ranked(m, sort, view)
      BY <2>2, MatchingIs DEF Resorted, rows
    <3>2. \A s \in m : shown[s] = view[s]
      BY <1>5, <1>7
    <3> HIDE DEF m
    <3> QED  BY <3>1, <3>2, RankedInOrder
  <2> QED  BY <2>1, <2>2
<1>10. PicksHold(p, DOMAIN shown \ {}, shown)
  <2> DEFINE D == DOMAIN shown \ {}
  <2>1. D \in SUBSET Symbols /\ \A s \in D : shown[s] = view[s]
    BY <1>6, <1>7
  <2> HIDE DEF D
  <2>2. PicksHold(p, D, shown)
    BY <1>4, <2>1, PicksNarrow
  <2> QED  BY <2>2 DEF D
<1>11. OrderIsOfTheFigures' /\ PicksAreTrue'
  BY <1>1, <1>9, <1>10, PromisesThen
<1> QED  BY <1>8, <1>11 DEF RowInv

(* A row that catches up is excepted from the order and from the picks.    *)
LEMMA FlushKeeps ==
  ASSUME RowInv, selected \in Symbols \cup {None}, Flush
  PROVE  RowInv'
<1>1. /\ selected \in Symbols
      /\ paced' = [s \in DOMAIN paced |-> IF s = selected THEN store[s] ELSE paced[s]]
      /\ ahead' = IF paced' = paced THEN ahead ELSE ahead \cup {selected}
      /\ flushed' = IF paced' = paced THEN flushed ELSE flushed \cup {selected}
      /\ UNCHANGED <<store, order, picks, sort, raw, debounced>>
  BY DEF Flush
<1>2. RowTypes /\ FigureTypes
  BY DEF RowInv
<1>3. DOMAIN paced = Range(order) \cup Cards(picks) /\ DOMAIN paced \subseteq Symbols
      /\ \A s \in DOMAIN paced : paced[s] \in Figures \cup {None}
  BY <1>2, PacedIs
<1>4. DOMAIN paced' = DOMAIN paced
      /\ \A s \in DOMAIN paced : paced'[s] = IF s = selected THEN store[s] ELSE paced[s]
  BY <1>1
<1>5. /\ ahead \subseteq ahead' /\ flushed \subseteq flushed'
      /\ ahead' \in SUBSET Symbols /\ flushed' \in SUBSET Symbols
  BY <1>1, <1>2 DEF FigureTypes
<1>6. RowTypes' /\ FigureTypes'
  <2>1. paced' \in [DOMAIN paced -> Figures \cup {None}]
    BY <1>1, <1>2, <1>3 DEF FigureTypes
  <2> QED  BY <1>1, <1>2, <1>3, <1>5, <2>1 DEF RowTypes, FigureTypes
<1>7. RowsInOrder(order, sort, paced', flushed')
  <2>1. RowsInOrder(order, sort, paced, flushed)
    BY PromisesAre DEF RowInv
  <2>2. \A s \in Range(order) \ flushed' : paced'[s] = paced[s]
    BY <1>1, <1>3, <1>4
  <2> QED  BY <1>5, <2>1, <2>2, OrderStands
<1>8. PicksHold(picks, DOMAIN paced' \ ahead', paced')
  <2>1. PicksHold(picks, DOMAIN paced \ ahead, paced)
    BY PromisesAre DEF RowInv
  <2>2. \A s \in DOMAIN paced' \ ahead' : paced'[s] = paced[s]
    BY <1>1, <1>4
  <2>3. DOMAIN paced' \ ahead' \in SUBSET (DOMAIN paced \ ahead)
    BY <1>4, <1>5
  <2> DEFINE S == DOMAIN paced \ ahead
             T == DOMAIN paced' \ ahead'
  <2> HIDE DEF S, T
  <2>4. PicksHold(picks, S, paced) /\ T \in SUBSET S /\ \A s \in T : paced'[s] = paced[s]
    BY <2>1, <2>2, <2>3 DEF S, T
  <2>5. PicksHold(picks, T, paced')
    BY <2>4, PicksNarrow
  <2> QED  BY <2>5 DEF T
<1>9. OrderIsOfTheFigures' /\ PicksAreTrue'
  BY <1>1, <1>7, <1>8, PromisesThen
<1> QED  BY <1>6, <1>9 DEF RowInv

(* What is received changes nothing that is shown.                         *)
LEMMA TickKeeps ==
  ASSUME RowInv, NEW s \in Symbols, NEW f \in Figures,
         store' = [store EXCEPT ![s] = f], UNCHANGED <<paced, picks, ahead, rowVars>>,
         raw' \in Queries
  PROVE  RowInv'
<1>1. RowTypes' /\ FigureTypes'
  BY DEF RowInv, RowTypes, FigureTypes, rowVars
<1>2. OrderIsOfTheFigures' /\ PicksAreTrue'
  BY PromisesAre, PromisesThen DEF RowInv, rowVars
<1> QED  BY <1>1, <1>2 DEF RowInv

(* Figures that go, go together: what has none is in any order.            *)
LEMMA DiscardKeeps ==
  ASSUME RowInv, Discard
  PROVE  RowInv'
<1>1. /\ store' = [s \in Symbols |-> None] /\ paced' = [s \in DOMAIN paced |-> None]
      /\ ahead' = Symbols /\ flushed' = flushed
      /\ UNCHANGED <<order, picks, sort, raw, debounced>>
  BY DEF Discard
<1>2. RowTypes /\ FigureTypes
  BY DEF RowInv
<1>3. DOMAIN paced = Range(order) \cup Cards(picks) /\ DOMAIN paced \subseteq Symbols
      /\ Range(order) \subseteq Symbols
  BY <1>2, PacedIs
<1>4. RowTypes' /\ FigureTypes'
  BY <1>1, <1>2, <1>3 DEF RowTypes, FigureTypes
<1>5. RowsInOrder(order, sort, paced', flushed)
  <2>1. RowsInOrder(order, sort, paced, flushed)
    BY PromisesAre DEF RowInv
  <2>2. \A s \in Range(order) : paced'[s] = None
    BY <1>1, <1>3
  <2> QED  BY <1>3, <2>1, <2>2, OrderOfNothing
<1>6. PicksHold(picks, DOMAIN paced' \ ahead', paced')
  <2>1. DOMAIN paced' \ ahead' = {}
    BY <1>1, <1>3
  <2> QED  BY <2>1 DEF PicksHold
<1>7. OrderIsOfTheFigures' /\ PicksAreTrue'
  BY <1>1, <1>5, <1>6, PromisesThen
<1> QED  BY <1>4, <1>7 DEF RowInv

(* Rows that are rendered anew are ranked by what they show; the cards     *)
(* keep what they show, and new entries are read off the beat.             *)
LEMMA RenderedKeeps ==
  ASSUME RowInv, NEW query \in Queries, NEW st \in Sorts \cup {None},
         order' = Ranked(Matching(query), st, Views(paced, store)),
         paced' = Subscribed(order', picks, paced, store),
         flushed' = {}, debounced' = query, sort' = st, raw' \in Queries,
         ahead' \in SUBSET Symbols, ahead \subseteq ahead',
         DOMAIN paced' \ DOMAIN paced \subseteq ahead',
         UNCHANGED <<store, picks>>
  PROVE  RowInv'
<1> DEFINE view == Views(paced, store)
           m == Matching(query)
<1>1. RowTypes /\ FigureTypes
  BY DEF RowInv
<1>2. DOMAIN paced \subseteq Symbols /\ \A s \in DOMAIN paced : paced[s] \in Figures \cup {None}
  BY <1>1, PacedIs
<1>3. m \in SUBSET Symbols
  BY MatchingIs
<1> HIDE DEF m, view
<1>4. order' = Ranked(m, st, view)
  BY DEF m, view
<1>5. Cardinality(m) \in Nat /\ order' \in [1 .. Cardinality(m) -> m] /\ Range(order') = m
  <2> DEFINE rows == Ranked(m, st, view)
  <2>1. Cardinality(m) \in Nat /\ rows \in [1 .. Cardinality(m) -> m] /\ Range(rows) = m
    BY <1>3, RankedIs
  <2> QED  BY <1>4, <2>1
<1>6. order' \in [1 .. Cardinality(m) -> Symbols]
  BY <1>3, <1>5
<1>7. /\ paced' \in [Range(order') \cup Cards(picks) -> Figures \cup {None}]
      /\ \A s \in Range(order') \cup Cards(picks) : paced'[s] = view[s]
      /\ \A s \in (Range(order') \cup Cards(picks)) \cap DOMAIN paced : paced'[s] = paced[s]
  <2> DEFINE rows == order'
             shown == Subscribed(rows, picks, paced, store)
  <2>1. Range(rows) \subseteq Symbols /\ picks \in PickTypes
        /\ store \in [Symbols -> Figures \cup {None}]
    BY <1>1, <1>3, <1>5 DEF FigureTypes
  <2> HIDE DEF rows
  <2>2. /\ shown \in [Range(rows) \cup Cards(picks) -> Figures \cup {None}]
        /\ \A s \in Range(rows) \cup Cards(picks) : shown[s] = Views(paced, store)[s]
        /\ \A s \in (Range(rows) \cup Cards(picks)) \cap DOMAIN paced : shown[s] = paced[s]
    BY <1>2, <2>1, SubscribedIs
  <2> QED  BY <2>2 DEF rows, view
<1>8. RowTypes' /\ FigureTypes'
  <2>1. RowTypes'
    BY <1>5, <1>6 DEF RowTypes, m
  <2>2. FigureTypes'
    BY <1>1, <1>7 DEF FigureTypes
  <2> QED  BY <2>1, <2>2
<1>9. RowsInOrder(order', sort', paced', flushed')
  <2> DEFINE now == paced'
             loose == flushed'
  <2>1. \A s \in m : now[s] = view[s]
    BY <1>5, <1>7
  <2> HIDE DEF now, loose
  <2>2. RowsInOrder(Ranked(m, st, view), st, now, loose)
    BY <1>3, <2>1, RankedInOrder
  <2> QED  BY <1>4, <2>2 DEF now, loose
<1>10. PicksHold(picks, DOMAIN paced' \ ahead', paced')
  <2> DEFINE S == DOMAIN paced \ ahead
             T == DOMAIN paced' \ ahead'
             now == paced'
  <2>1. PicksHold(picks, S, paced)
    BY PromisesAre DEF RowInv
  <2>2. T \in SUBSET S
    OBVIOUS
  <2>3. \A s \in T : now[s] = paced[s]
    BY <1>7
  <2> HIDE DEF S, T, now
  <2>4. PicksHold(picks, T, now)
    BY <2>1, <2>2, <2>3, PicksNarrow
  <2> QED  BY <2>4 DEF T, now
<1>11. OrderIsOfTheFigures' /\ PicksAreTrue'
  BY <1>9, <1>10, PromisesThen
<1> QED  BY <1>8, <1>11 DEF RowInv

(* What touches neither rows nor figures breaks no promise of theirs.      *)
LEMMA RowsStand ==
  ASSUME RowInv, UNCHANGED <<figureVars, rowVars>>, raw' \in Queries
  PROVE  RowInv'
<1>1. RowTypes' /\ FigureTypes'
  BY DEF RowInv, RowTypes, FigureTypes, rowVars, figureVars
<1>2. OrderIsOfTheFigures' /\ PicksAreTrue'
  BY PromisesAre, PromisesThen DEF RowInv, rowVars, figureVars
<1> QED  BY <1>1, <1>2 DEF RowInv


----------------------------------------------------------------------------
(* The pane and the focus.                                                 *)

(* The focus f may stand with a pane of sel, no frame being due.           *)
LookedAfter(f, sel) ==
  f # "gone" /\ (sel # None => Visible(f, sel) \/ f \in {"removed", "replaced"})

(* FocusIsLookedAfter is this of the focus, before a step and after it.    *)
LEMMA FocusIs ==
  /\ FocusIsLookedAfter <=> (frame = None => LookedAfter(focus, selected))
  /\ phone' = phone =>
       (FocusIsLookedAfter' <=> (frame' = None => LookedAfter(focus', selected')))
BY DEF FocusIsLookedAfter, LookedAfter, Visible

(* What can be reached has been looked after, and exists.                  *)
LEMMA ReachableIs ==
  ASSUME NEW f, Visible(f, selected)
  PROVE  LookedAfter(f, selected)
BY DEF LookedAfter, Visible, Lost

PaneInv == PaneTypes /\ FocusIsLookedAfter

(* When the pane stays, the focus has to be looked after by the step; when *)
(* it does not, a frame is due that will.                                  *)
LEMMA ShowKeeps ==
  ASSUME PaneInv, NEW to \in Symbols \cup {None}, NEW f \in Focusable, NEW rows,
         frame = None => LookedAfter(f, selected),
         Show(to, f, rows), going' \in Seq(Symbols \cup {None}),
         focusedSymbol' \in Symbols \cup {None}, phone' = phone
  PROVE  PaneInv' /\ selected' = to
<1>1. PaneTypes
  BY DEF PaneInv
<1>2. CASE to = selected
  <2>1. focus' = f /\ selected' = selected /\ frame' = frame
    BY <1>2 DEF Show, paneVars
  <2>2. PaneTypes'
    BY <1>1, <2>1 DEF PaneTypes
  <2>3. FocusIsLookedAfter'
    BY <2>1, FocusIs
  <2> QED  BY <1>2, <2>1, <2>2, <2>3 DEF PaneInv
<1>3. CASE to # selected
  <2>1. /\ selected' = to /\ frame' = [previous |-> selected]
        /\ focus' = f \/ focus' = "gone"
    BY <1>3 DEF Show
  <2>2. frame' \in Frames
    BY <1>1, <2>1 DEF PaneTypes, Frames
  <2>3. frame' # None
    BY <2>2, BoardAssumption
  <2>4. focus' \in Focusable
    BY <2>1 DEF Focusable, Lost
  <2>5. PaneTypes'
    BY <1>1, <2>1, <2>2, <2>4 DEF PaneTypes
  <2>6. FocusIsLookedAfter'
    BY <2>3 DEF FocusIsLookedAfter
  <2> QED  BY <2>1, <2>5, <2>6 DEF PaneInv
<1> QED  BY <1>2, <1>3

(* A navigation takes place at once, or when its transition calls back.    *)
LEMMA NavigateKeeps ==
  ASSUME PaneInv, NEW to \in Symbols \cup {None}, NEW f \in Focusable,
         frame = None => LookedAfter(f, selected),
         Navigate(to, f), focusedSymbol' \in Symbols \cup {None}, phone' = phone
  PROVE  PaneInv' /\ (going = <<>> => Heading' = to)
<1>1. PaneTypes
  BY DEF PaneInv
<1>2. CASE animated
  <2>1. going' = Append(going, to) /\ focus' = f /\ UNCHANGED paneVars
    BY <1>2 DEF Navigate
  <2>2. PaneTypes'
    BY <1>1, <2>1 DEF PaneTypes, paneVars
  <2>3. FocusIsLookedAfter'
    BY <2>1, FocusIs DEF paneVars
  <2>4. going = <<>> => Heading' = to
    BY <2>1 DEF Heading, Last
  <2> QED  BY <2>2, <2>3, <2>4 DEF PaneInv
<1>3. CASE ~animated
  <2>1. Show(to, f, order) /\ going' = going
    BY <1>3 DEF Navigate
  <2>2. going' \in Seq(Symbols \cup {None})
    BY <1>1, <2>1 DEF PaneTypes
  <2>3. PaneInv' /\ selected' = to
    BY <2>1, <2>2, ShowKeeps
  <2>4. going = <<>> => Heading' = to
    BY <2>1, <2>3 DEF Heading
  <2> QED  BY <2>3, <2>4
<1> QED  BY <1>2, <1>3

(* The pane stays as it is.                                                *)
LEMMA StayKeeps ==
  ASSUME PaneInv, NEW f \in Focusable, frame = None => LookedAfter(f, selected),
         focus' = f, UNCHANGED <<paneVars, going>>,
         focusedSymbol' \in Symbols \cup {None}, phone' = phone
  PROVE  PaneInv'
<1>1. PaneTypes'
  BY DEF PaneInv, PaneTypes, paneVars
<1>2. FocusIsLookedAfter'
  BY FocusIs DEF paneVars
<1> QED  BY <1>1, <1>2 DEF PaneInv

(* Beside a pane where there is room, a row can be seen.                   *)
LEMMA RowIsVisible ==
  ASSUME NEW s \in Symbols, NEW f, Visible(f, selected),
         f \in Symbols \cup {"search", "pill"}
  PROVE  Visible(s, selected)
<1>1. \A t \in Symbols : t \notin Lost /\ t # "card" /\ t \notin {"previous", "next", "all", "heading", "logo"}
  BY BoardAssumption DEF Controls
<1> QED  BY <1>1 DEF Visible

(* The frame finds the focus a place, or gives its loss a reason.          *)
LEMMA RestoreKeeps ==
  ASSUME PaneInv, Range(order) \subseteq Symbols, RestoreFrame
  PROVE  PaneInv'
<1>1. /\ frame' = None /\ selected' = selected /\ going' = going /\ phone' = phone
      /\ focus' = IF FocusLost THEN Restored ELSE focus
      /\ focusedSymbol' = IF FocusLost /\ Restored \in Symbols THEN Restored ELSE focusedSymbol
  BY DEF RestoreFrame, fixedVars
<1>2. Restored \in Focusable
  BY DEF PaneInv, PaneTypes, Restored, Focusable, Controls, Lost
<1>3. Restored # "gone" /\ (selected # None => Visible(Restored, selected))
  <2>1. CASE selected # None
    BY <2>1 DEF Restored, Visible, Lost
  <2>2. CASE selected = None
    <3>1. \A s \in Symbols : s # "gone"
      BY BoardAssumption DEF Lost
    <3> QED  BY <2>2, <3>1 DEF Restored
  <2> QED  BY <2>1, <2>2
<1>4. PaneTypes'
  BY <1>1, <1>2 DEF PaneInv, PaneTypes
<1>5. LookedAfter(focus', selected)
  <2>1. CASE FocusLost
    BY <1>1, <1>3, <2>1 DEF LookedAfter
  <2>2. CASE ~FocusLost
    BY <1>1, <2>2, ReachableIs DEF FocusLost
  <2> QED  BY <2>1, <2>2
<1>6. FocusIsLookedAfter'
  BY <1>1, <1>5, FocusIs
<1> QED  BY <1>4, <1>6 DEF PaneInv

(* A row or a control that is no longer rendered has a reason of its own.  *)
LEMMA KeepIs ==
  ASSUME PaneInv, NEW rows
  PROVE  /\ Keep(focus, rows, "removed") \in Focusable
         /\ frame = None => LookedAfter(Keep(focus, rows, "removed"), selected)
<1>1. Keep(focus, rows, "removed") = focus \/ Keep(focus, rows, "removed") = "removed"
  BY DEF Keep
<1>2. frame = None => LookedAfter(focus, selected)
  BY FocusIs DEF PaneInv
<1>3. "removed" \in Focusable /\ LookedAfter("removed", selected)
  BY DEF Focusable, Lost, LookedAfter
<1> QED  BY <1>1, <1>2, <1>3 DEF PaneInv, PaneTypes

----------------------------------------------------------------------------
(* Every step.                                                             *)

(* The board opens with its rows in the order of the exchange.             *)
LEMMA BoardInit ==
  ASSUME Init
  PROVE  BoardInv
<1> DEFINE rows == Ranked(Symbols, None, store)
           p == PickHeroes(store)
<1>1. /\ store = [s \in Symbols |-> "down"] /\ order = rows /\ sort = None /\ picks = p
      /\ paced = store /\ raw = "" /\ debounced = "" /\ selected \in Symbols \cup {None}
      /\ going = <<>> /\ focus = "page" /\ focusedSymbol = None
      /\ frame = [previous |-> selected] /\ ahead = {} /\ flushed = {}
  BY DEF Init
<1>2. /\ Cardinality(Symbols) \in Nat /\ rows \in [1 .. Cardinality(Symbols) -> Symbols]
      /\ Range(rows) = Symbols
  BY RankedIs
<1>3. p \in PickTypes /\ PicksHold(p, Symbols, store)
  BY PickHeroesIs
<1> HIDE DEF rows, p
<1>4. RowTypes
  <2>1. Matching(debounced) = Symbols
    BY <1>1 DEF Matching
  <2> QED  BY <1>1, <1>2, <2>1 DEF RowTypes, Queries
<1>5. FigureTypes
  <2>1. Cards(p) \subseteq Symbols
    BY <1>3 DEF Cards, PickTypes
  <2>2. Range(order) \cup Cards(picks) = Symbols
    BY <1>1, <1>2, <2>1
  <2>3. store \in [Symbols -> Figures \cup {None}]
    BY <1>1 DEF Figures
  <2> QED  BY <1>1, <1>3, <2>2, <2>3 DEF FigureTypes
<1>6. OrderIsOfTheFigures
  BY <1>1 DEF OrderIsOfTheFigures
<1>7. PicksAreTrue
  <2>1. DOMAIN paced \ ahead = Symbols
    BY <1>1
  <2> QED  BY <1>1, <1>3, <2>1, PromisesAre
<1>8. frame \in Frames /\ frame # None
  <2>1. selected \in Symbols \cup {None} /\ frame = [previous |-> selected]
    BY <1>1
  <2>2. frame \in Frames
    BY <2>1 DEF Frames
  <2> QED  BY <2>2, BoardAssumption
<1>9. PaneTypes
  <2>1. going \in Seq(Symbols \cup {None})
    <3>1. going = <<>>
      BY <1>1
    <3> QED  BY <3>1
  <2>2. focus \in Focusable /\ focusedSymbol \in Symbols \cup {None}
    BY <1>1 DEF Focusable, Lost
  <2>3. selected \in Symbols \cup {None}
    BY <1>1
  <2> QED  BY <1>8, <2>1, <2>2, <2>3 DEF PaneTypes
<1>10. FocusIsLookedAfter
  BY <1>8 DEF FocusIsLookedAfter
<1> QED  BY <1>4, <1>5, <1>6, <1>7, <1>9, <1>10 DEF BoardInv, RowInv

(* The rows are of the symbols, whatever else they are.                    *)
LEMMA OrderIs ==
  ASSUME RowInv
  PROVE  /\ Range(order) \subseteq Symbols
         /\ order # <<>> => order[1] \in Symbols
         /\ \A sel, step : Neighbour(order, sel, step) \in Symbols \cup {None}
<1>1. RowTypes
  BY DEF RowInv
<1>2. Range(order) \subseteq Symbols
  BY <1>1, MatchingIs DEF RowTypes
<1>3. order # <<>> => order[1] \in Symbols
  <2> DEFINE m == Matching(debounced)
  <2>1. m \in SUBSET Symbols /\ order \in [1 .. Cardinality(m) -> Symbols] /\ Range(order) = m
    BY <1>1, MatchingIs DEF RowTypes
  <2> HIDE DEF m
  <2>2. order # <<>> => order[1] \in m
    BY <2>1, RowsAre
  <2> QED  BY <2>1, <2>2
<1>4. ASSUME NEW sel, NEW step
      PROVE  Neighbour(order, sel, step) \in Symbols \cup {None}
  <2> DEFINE places == {i \in DOMAIN order : order[i] = sel /\ i + step \in DOMAIN order}
  <2>1. CASE places = {}
    BY <2>1 DEF Neighbour
  <2>2. CASE places # {}
    <3>1. (CHOOSE i \in places : TRUE) \in places
      BY <2>2
    <3> DEFINE i == CHOOSE i \in places : TRUE
    <3>2. i + step \in DOMAIN order /\ Neighbour(order, sel, step) = order[i + step]
      BY <2>2, <3>1 DEF Neighbour
    <3> HIDE DEF i
    <3>3. order[i + step] \in Range(order)
      BY <3>2 DEF Range
    <3> QED  BY <1>2, <3>2, <3>3
  <2> QED  BY <2>1, <2>2
<1> QED  BY <1>2, <1>3, <1>4


(* What Enter opens is the ticker that was typed, or else a match.         *)
LEMMA TargetIs ==
  ASSUME RowTypes, Candidates # <<>>
  PROVE  /\ Target \in Symbols
         /\ Target \in (IF Exact(raw) # {} THEN Exact(raw) ELSE Matching(raw))
<1> DEFINE m == Matching(raw)
           rows == Candidates
<1>1. m \in SUBSET Symbols /\ Exact(raw) \subseteq m
  BY MatchingIs
<1> HIDE DEF m
<1>2. rows \in [1 .. Cardinality(m) -> Symbols] /\ Range(rows) = m
  <2>1. CASE raw = debounced
    BY <2>1 DEF Candidates, RowTypes, m
  <2>2. CASE raw # debounced
    <3>1. rows = Ranked(m, None, store)
      BY <2>2 DEF Candidates, m
    <3> HIDE DEF rows
    <3>2. Cardinality(m) \in Nat /\ rows \in [1 .. Cardinality(m) -> m] /\ Range(rows) = m
      BY <1>1, <3>1, RankedIs
    <3> QED  BY <1>1, <3>2
  <2> QED  BY <2>1, <2>2
<1>3. Target = IF Exact(raw) \cap Range(rows) # {} THEN CHOOSE s \in Exact(raw) : TRUE ELSE rows[1]
  BY DEF Target
<1> HIDE DEF rows
<1>4. rows[1] \in m
  <2>1. rows # <<>>
    BY DEF rows
  <2> QED  BY <1>1, <1>2, <2>1, RowsAre
<1>5. CASE Exact(raw) # {}
  <2>1. Exact(raw) \cap Range(rows) # {}
    BY <1>1, <1>2, <1>5
  <2>2. Target \in Exact(raw)
    BY <1>3, <1>5, <2>1
  <2> QED  BY <1>1, <1>5, <2>2
<1>6. CASE Exact(raw) = {}
  <2>1. Target = rows[1]
    BY <1>3, <1>6
  <2> QED  BY <1>1, <1>4, <1>6, <2>1 DEF m
<1> QED  BY <1>5, <1>6


(* A sort ranks the rows by what they show; they are the same rows.        *)
LEMMA SetSortKeeps ==
  ASSUME BoardInv, NEW st \in Sorts \cup {None}, NEW f \in Focusable, Visible(f, selected),
         SetSort(st, f)
  PROVE  RowInv' /\ PaneInv'
<1>1. /\ sort' = st /\ focus' = f /\ raw' = raw /\ debounced' = debounced
      /\ UNCHANGED <<store, picks, ahead>> /\ UNCHANGED <<paneVars, going>>
      /\ focusedSymbol' = focusedSymbol /\ phone' = phone
  BY DEF SetSort, fixedVars
<1>2. RowTypes /\ FigureTypes /\ PaneTypes
  BY DEF BoardInv, RowInv
<1>3. PaneInv'
  <2>1. PaneInv /\ focusedSymbol \in Symbols \cup {None}
    BY <1>2 DEF BoardInv, PaneInv, PaneTypes
  <2> QED  BY <1>1, <2>1, ReachableIs, StayKeeps
<1>4. CASE st = sort
  <2>1. UNCHANGED <<figureVars, rowVars>>
    BY <1>1, <1>4 DEF SetSort, figureVars, rowVars
  <2> QED  BY <1>1, <1>2, <1>3, <2>1, RowsStand DEF BoardInv, RowTypes
<1>5. CASE st # sort
  <2> DEFINE rows == Ranked(Matching(debounced), st, Views(paced, store))
  <2>1. order' = rows /\ paced' = Subscribed(rows, picks, paced, store) /\ flushed' = {}
    BY <1>5 DEF SetSort
  <2>2. Range(rows) = Range(order)
    BY <1>2, MatchingIs, RankedIs DEF RowTypes
  <2> HIDE DEF rows
  <2>3. DOMAIN paced' = Range(rows) \cup Cards(picks)
    BY <2>1 DEF Subscribed
  <2>4. DOMAIN paced' = DOMAIN paced
    BY <1>2, <2>2, <2>3, PacedIs
  <2>5. debounced \in Queries /\ raw' \in Queries /\ ahead' \in SUBSET Symbols
    BY <1>1, <1>2 DEF RowTypes, FigureTypes
  <2>6. order' = Ranked(Matching(debounced), st, Views(paced, store))
        /\ paced' = Subscribed(order', picks, paced, store)
    BY <2>1 DEF rows
  <2>7. RowInv
    BY DEF BoardInv
  <2>8. RowInv'
    BY <1>1, <2>1, <2>4, <2>5, <2>6, <2>7, RenderedKeeps
  <2> QED  BY <1>3, <2>8
<1> QED  BY <1>4, <1>5

(* What the user does with rows, cards, keys and buttons.                  *)
LEMMA UserKeeps ==
  ASSUME BoardInv, User
  PROVE  RowInv' /\ PaneInv'
<1>1. RowInv /\ PaneInv /\ RowTypes /\ PaneTypes
  BY DEF BoardInv, RowInv, PaneInv
<1>2. raw \in Queries /\ selected \in Symbols \cup {None} /\ focus \in Focusable
      /\ focusedSymbol \in Symbols \cup {None}
      /\ (frame = None => LookedAfter(focus, selected))
  BY <1>1, FocusIs DEF RowTypes, PaneTypes, PaneInv
<1>3. /\ Range(order) \subseteq Symbols
      /\ order # <<>> => order[1] \in Symbols
      /\ \A sel, step : Neighbour(order, sel, step) \in Symbols \cup {None}
  BY <1>1, OrderIs
<1>4. Symbols \subseteq Focusable /\ Columns \subseteq Focusable /\ Controls \subseteq Focusable
  BY DEF Focusable
<1>5. \A s \in Symbols : Toggle(s) \in Symbols \cup {None}
  BY DEF Toggle
<1>6. \A f : Visible(f, selected) => LookedAfter(f, selected)
  BY ReachableIs
<1>7. ASSUME UNCHANGED <<figureVars, rowVars>>, raw' \in Queries, PaneInv'
      PROVE  RowInv' /\ PaneInv'
  BY <1>1, <1>7, RowsStand
<1>8. ASSUME NEW s, OnRow(s)
      PROVE  /\ UNCHANGED <<figureVars, rowVars>> /\ raw' \in Queries /\ phone' = phone
             /\ focusedSymbol' = s
  BY <1>2, <1>8 DEF OnRow, fixedVars
<1>9. ASSUME Elsewhere
      PROVE  /\ UNCHANGED <<figureVars, rowVars>> /\ raw' \in Queries /\ phone' = phone
             /\ focusedSymbol' \in Symbols \cup {None}
  BY <1>2, <1>9 DEF Elsewhere, fixedVars
<1>10. ASSUME NEW s \in Symbols, ActivateRow(s)
       PROVE  RowInv' /\ PaneInv'
  <2>1. Visible(s, selected) /\ Navigate(Toggle(s), s) /\ OnRow(s)
    BY <1>10 DEF ActivateRow, Reachable
  <2>2. UNCHANGED <<figureVars, rowVars>> /\ raw' \in Queries /\ phone' = phone
        /\ focusedSymbol' \in Symbols \cup {None}
    BY <1>8, <2>1
  <2>3. Toggle(s) \in Symbols \cup {None} /\ s \in Focusable /\ LookedAfter(s, selected)
    BY <1>4, <1>5, <1>6, <2>1
  <2>4. PaneInv'
    BY <1>1, <2>1, <2>2, <2>3, NavigateKeeps
  <2> QED  BY <1>7, <2>2, <2>4
<1>11. ASSUME NEW s \in Symbols, ActivateCard(s)
       PROVE  RowInv' /\ PaneInv'
  <2>1. Visible("card", selected) /\ Navigate(Toggle(s), "card") /\ Elsewhere
    BY <1>11 DEF ActivateCard
  <2>2. Toggle(s) \in Symbols \cup {None} /\ "card" \in Focusable /\ LookedAfter("card", selected)
    BY <1>4, <1>5, <1>6, <2>1 DEF Controls
  <2>3. PaneInv'
    BY <1>1, <1>9, <2>1, <2>2, NavigateKeeps
  <2> QED  BY <1>7, <1>9, <2>1, <2>3
<1>12. ASSUME NEW s \in Symbols, ArrowKey(s)
       PROVE  RowInv' /\ PaneInv'
  <2>1. /\ focus \in Symbols /\ Visible(focus, selected) /\ OnRow(s)
        /\ Navigate(s, s) \/ Stay(s)
    BY <1>12 DEF ArrowKey
  <2>2. UNCHANGED <<figureVars, rowVars>> /\ raw' \in Queries /\ phone' = phone
        /\ focusedSymbol' \in Symbols \cup {None}
    BY <1>8, <2>1
  <2>3. s \in Symbols \cup {None} /\ s \in Focusable /\ LookedAfter(s, selected)
    BY <1>4, <1>6, <2>1, RowIsVisible
  <2>4. CASE Navigate(s, s)
    <3>1. PaneInv'
      BY <1>1, <2>2, <2>3, <2>4, NavigateKeeps
    <3> QED  BY <1>7, <2>2, <3>1
  <2>5. CASE Stay(s)
    <3>1. focus' = s /\ UNCHANGED <<paneVars, going>>
      BY <2>5 DEF Stay
    <3>2. PaneInv'
      BY <1>1, <2>2, <2>3, <3>1, StayKeeps
    <3> QED  BY <1>7, <2>2, <3>2
  <2> QED  BY <2>1, <2>4, <2>5
<1>13. ASSUME NEW s \in Symbols, TakeSuggestion(s)
       PROVE  RowInv' /\ PaneInv'
  <2>1. /\ Visible("suggestion", selected) /\ Navigate(Toggle(s), "suggestion")
        /\ UNCHANGED <<figureVars, rowVars>> /\ raw' \in Queries /\ phone' = phone
        /\ focusedSymbol' = focusedSymbol
    BY <1>13 DEF TakeSuggestion, Reachable, Queries, fixedVars
  <2>2. /\ Toggle(s) \in Symbols \cup {None} /\ "suggestion" \in Focusable
        /\ LookedAfter("suggestion", selected)
    BY <1>4, <1>5, <1>6, <2>1 DEF Controls
  <2>3. PaneInv'
    BY <1>1, <1>2, <2>1, <2>2, NavigateKeeps
  <2> QED  BY <1>7, <2>1, <2>3
<1>14. ASSUME Escape
       PROVE  RowInv' /\ PaneInv'
  <2>1. Navigate(None, focus) /\ Elsewhere
    BY <1>14 DEF Escape
  <2>2. None \in Symbols \cup {None}
    OBVIOUS
  <2>3. PaneInv'
    BY <1>1, <1>2, <1>9, <2>1, <2>2, NavigateKeeps
  <2> QED  BY <1>7, <1>9, <2>1, <2>3
<1>15. ASSUME NEW button \in {"all", "logo"}, ClosePane(button)
       PROVE  RowInv' /\ PaneInv'
  <2>1. Navigate(None, button) /\ Elsewhere
    BY <1>15 DEF ClosePane
  <2>2. None \in Symbols \cup {None} /\ button \in Focusable
    BY <1>4 DEF Controls
  <2>3. Visible(button, selected)
    BY DEF Visible, Lost
  <2>4. PaneInv'
    BY <1>1, <1>6, <1>9, <2>1, <2>2, <2>3, NavigateKeeps
  <2> QED  BY <1>7, <1>9, <2>1, <2>4
<1>16. ASSUME NEW button \in {"previous", "next"}, NEW step, StepTo(button, step)
       PROVE  RowInv' /\ PaneInv'
  <2> DEFINE to == Neighbour(order, selected, step)
  <2>1. Visible(button, selected) /\ Navigate(to, button) /\ Elsewhere
    BY <1>16 DEF StepTo, Reachable
  <2>2. to \in Symbols \cup {None} /\ button \in Focusable /\ LookedAfter(button, selected)
    BY <1>3, <1>4, <1>6, <2>1 DEF Controls
  <2> HIDE DEF to
  <2>3. PaneInv'
    BY <1>1, <1>9, <2>1, <2>2, NavigateKeeps
  <2> QED  BY <1>7, <1>9, <2>1, <2>3
<1>17. ASSUME Shortcut
       PROVE  RowInv' /\ PaneInv'
  <2>1. /\ Visible("search", selected) /\ focus' = "search" /\ UNCHANGED <<paneVars, going>>
        /\ Elsewhere
    BY <1>17 DEF Shortcut, Reachable, Stay
  <2>2. "search" \in Focusable /\ LookedAfter("search", selected)
    BY <1>4, <1>6, <2>1 DEF Controls
  <2>3. PaneInv'
    BY <1>1, <1>9, <2>1, <2>2, StayKeeps
  <2> QED  BY <1>7, <1>9, <2>1, <2>3
<1>18. ASSUME TabIntoBoard
       PROVE  RowInv' /\ PaneInv'
  <2> DEFINE s == TabStop
  <2>1. /\ order # <<>> /\ focus \in {"search", "pill"} /\ Visible(focus, selected)
        /\ focus' = s /\ UNCHANGED <<paneVars, going>> /\ OnRow(s)
    BY <1>18 DEF TabIntoBoard, Stay
  <2>2. s \in Symbols
    BY <1>3, <2>1 DEF TabStop
  <2> HIDE DEF s
  <2>3. s \in Focusable /\ LookedAfter(s, selected)
    BY <1>4, <1>6, <2>1, <2>2, RowIsVisible
  <2>4. UNCHANGED <<figureVars, rowVars>> /\ raw' \in Queries /\ phone' = phone
        /\ focusedSymbol' \in Symbols \cup {None}
    BY <1>8, <2>1, <2>2
  <2>5. PaneInv'
    BY <1>1, <2>1, <2>3, <2>4, StayKeeps
  <2> QED  BY <1>7, <2>4, <2>5
<1>19. ASSUME NEW st \in Presets, PickPreset(st)
       PROVE  RowInv' /\ PaneInv'
  <2>1. Visible("pill", selected) /\ SetSort(st, "pill")
    BY <1>19 DEF PickPreset, Reachable
  <2>2. st \in Sorts \cup {None} /\ "pill" \in Focusable
    BY <1>4 DEF Presets, Order, Sorts, Columns, Controls
  <2> QED  BY <2>1, <2>2, SetSortKeeps
<1>20. ASSUME NEW c \in Columns, HandleSort(c)
       PROVE  RowInv' /\ PaneInv'
  <2>1. PICK d \in {"asc", "desc"} : SetSort(Order(c, d, "header"), c) /\ Visible(c, selected)
    BY <1>20 DEF HandleSort, Reachable
  <2> DEFINE st == Order(c, d, "header")
  <2>2. st \in Sorts \cup {None} /\ c \in Focusable
    BY <1>4, <2>1 DEF Order, Sorts
  <2> HIDE DEF st
  <2> QED  BY <2>1, <2>2, SetSortKeeps DEF st
<1>21. ASSUME NEW q \in Queries, Type(q)
       PROVE  RowInv' /\ PaneInv'
  <2>1. /\ UNCHANGED <<figureVars, rowVars>> /\ raw' \in Queries /\ phone' = phone
        /\ focus' = focus /\ UNCHANGED <<paneVars, going>> /\ focusedSymbol' = focusedSymbol
    BY <1>21 DEF Type, focusVars, fixedVars
  <2>2. PaneInv'
    BY <1>1, <1>2, <2>1, StayKeeps
  <2> QED  BY <1>7, <2>1, <2>2
<1>22. ASSUME NEW button \in {"search", "suggestion"}, ClearSearch(button)
       PROVE  RowInv' /\ PaneInv'
  <2>1. /\ UNCHANGED <<figureVars, rowVars>> /\ raw' \in Queries /\ phone' = phone
        /\ focus' = button /\ UNCHANGED <<paneVars, going>> /\ focusedSymbol' = focusedSymbol
        /\ Visible(button, selected)
    BY <1>22 DEF ClearSearch, Reachable, Stay, Queries, fixedVars
  <2>2. button \in Focusable /\ LookedAfter(button, selected)
    BY <1>4, <1>6, <2>1 DEF Controls
  <2>3. PaneInv'
    BY <1>1, <1>2, <2>1, <2>2, StayKeeps
  <2> QED  BY <1>7, <2>1, <2>3
<1>23. ASSUME DownFromSearch
       PROVE  RowInv' /\ PaneInv'
  <2> DEFINE s == order[1]
  <2>1. /\ order # <<>> /\ focus = "search" /\ Visible(focus, selected)
        /\ focus' = s /\ UNCHANGED <<paneVars, going>> /\ OnRow(s)
    BY <1>23 DEF DownFromSearch, Stay
  <2>2. s \in Symbols
    BY <1>3, <2>1
  <2> HIDE DEF s
  <2>3. s \in Focusable /\ LookedAfter(s, selected)
    BY <1>4, <1>6, <2>1, <2>2, RowIsVisible
  <2>4. UNCHANGED <<figureVars, rowVars>> /\ raw' \in Queries /\ phone' = phone
        /\ focusedSymbol' \in Symbols \cup {None}
    BY <1>8, <2>1, <2>2
  <2>5. PaneInv'
    BY <1>1, <2>1, <2>3, <2>4, StayKeeps
  <2> QED  BY <1>7, <2>4, <2>5
<1>24. ASSUME EnterInSearch
       PROVE  RowInv' /\ PaneInv'
  <2>1. Elsewhere /\ IF Target # selected THEN Navigate(Target, focus) ELSE Stay(focus)
    BY <1>24 DEF EnterInSearch
  <2>2. CASE Target # selected
    <3>1. Navigate(Target, focus)
      BY <2>1, <2>2
    <3>2. Target \in Symbols \cup {None}
      BY <1>1, <1>24, TargetIs DEF EnterInSearch
    <3>3. PaneInv'
      BY <1>1, <1>2, <1>9, <2>1, <3>1, <3>2, NavigateKeeps
    <3> QED  BY <1>7, <1>9, <2>1, <3>3
  <2>3. CASE Target = selected
    <3>1. Stay(focus)
      BY <2>1, <2>3
    <3>2. focus' = focus /\ UNCHANGED <<paneVars, going>>
      BY <3>1 DEF Stay
    <3>3. PaneInv'
      BY <1>1, <1>2, <1>9, <2>1, <3>2, StayKeeps
    <3> QED  BY <1>7, <1>9, <2>1, <3>3
  <2> QED  BY <2>2, <2>3
<1>25. \/ \E s \in Symbols : ActivateRow(s) \/ ActivateCard(s) \/ ArrowKey(s) \/ TakeSuggestion(s)
       \/ Escape \/ ClosePane("all") \/ ClosePane("logo") \/ StepTo("previous", -1)
       \/ StepTo("next", 1) \/ Shortcut \/ TabIntoBoard
       \/ \E st \in Presets : PickPreset(st)
       \/ \E c \in Columns : HandleSort(c)
       \/ \E q \in Queries : Type(q)
       \/ ClearSearch("search") \/ ClearSearch("suggestion")
       \/ DownFromSearch \/ EnterInSearch
  BY DEF User
<1> QED  BY <1>10, <1>11, <1>12, <1>13, <1>14, <1>15, <1>16, <1>17, <1>18, <1>19, <1>20, <1>21,
            <1>22, <1>23, <1>24, <1>25


(* What the source sends, and what the page does of itself.                *)
LEMMA PageKeeps ==
  ASSUME BoardInv, Source \/ Page
  PROVE  RowInv' /\ PaneInv'
<1>1. RowInv /\ PaneInv /\ RowTypes /\ FigureTypes /\ PaneTypes
  BY DEF BoardInv, RowInv, PaneInv
<1>2. /\ raw \in Queries /\ selected \in Symbols \cup {None} /\ focus \in Focusable
      /\ focusedSymbol \in Symbols \cup {None} /\ going \in Seq(Symbols \cup {None})
      /\ (frame = None => LookedAfter(focus, selected))
  BY <1>1, FocusIs DEF RowTypes, PaneTypes, PaneInv
<1>3. ASSUME UNCHANGED <<selected, frame, going, focusVars, fixedVars>>
      PROVE  PaneInv'
  <2>1. PaneTypes'
    BY <1>1, <1>3 DEF PaneTypes, focusVars
  <2>2. FocusIsLookedAfter'
    BY <1>2, <1>3, FocusIs DEF focusVars, fixedVars
  <2> QED  BY <2>1, <2>2 DEF PaneInv
<1>4. ASSUME focus' = Keep(focus, order', "removed"), UNCHANGED <<selected, frame, going>>,
             focusedSymbol' = focusedSymbol, phone' = phone
      PROVE  PaneInv'
  <2> DEFINE f == focus'
  <2>1. f \in Focusable /\ (frame = None => LookedAfter(f, selected))
    BY <1>1, <1>4, KeepIs
  <2>2. PaneTypes'
    BY <1>1, <1>4, <2>1 DEF PaneTypes
  <2>3. FocusIsLookedAfter'
    BY <1>4, <2>1, FocusIs
  <2> QED  BY <2>2, <2>3 DEF PaneInv
<1>5. ASSUME NEW s \in Symbols, NEW f \in Figures, Tick(s, f)
      PROVE  RowInv' /\ PaneInv'
  <2>1. /\ store' = [store EXCEPT ![s] = f] /\ UNCHANGED <<paced, picks, ahead, rowVars>>
        /\ raw' = raw /\ UNCHANGED <<selected, frame, going, focusVars, fixedVars>>
    BY <1>5 DEF Tick
  <2> QED  BY <1>1, <1>2, <1>3, <2>1, TickKeeps
<1>6. ASSUME NEW f \in Figures, SnapshotArrives(f)
      PROVE  RowInv' /\ PaneInv'
  <2>1. /\ store' = [store EXCEPT ![selected] = f] /\ UNCHANGED <<paced, picks, ahead, rowVars>>
        /\ raw' = raw /\ UNCHANGED <<selected, frame, going, focusVars, fixedVars>>
        /\ selected # None
    BY <1>6 DEF SnapshotArrives
  <2>2. selected \in Symbols
    BY <1>2, <2>1
  <2> QED  BY <1>1, <1>2, <1>3, <2>1, <2>2, TickKeeps
<1>7. ASSUME Discard
      PROVE  RowInv' /\ PaneInv'
  <2>1. UNCHANGED <<selected, frame, going, focusVars, fixedVars>>
    BY <1>7 DEF Discard
  <2> QED  BY <1>1, <1>3, <1>7, <2>1, DiscardKeeps
<1>8. ASSUME Beat
      PROVE  RowInv' /\ PaneInv'
  <2>1. /\ focus' = Keep(focus, order', "removed") /\ UNCHANGED <<selected, frame, going>>
        /\ focusedSymbol' = focusedSymbol /\ phone' = phone
    BY <1>8 DEF Beat, fixedVars
  <2> QED  BY <1>1, <1>4, <1>8, <2>1, BeatKeeps
<1>9. ASSUME Flush
      PROVE  RowInv' /\ PaneInv'
  <2>1. UNCHANGED <<selected, frame, going, focusVars, fixedVars>>
    BY <1>9 DEF Flush
  <2> QED  BY <1>1, <1>2, <1>3, <1>9, <2>1, FlushKeeps
<1>10. ASSUME Commit
       PROVE  RowInv' /\ PaneInv'
  <2> DEFINE to == Head(going)
  <2>1. /\ going # <<>> /\ going' = Tail(going) /\ Show(to, focus, order)
        /\ UNCHANGED <<figureVars, rowVars>> /\ raw' = raw /\ focusedSymbol' = focusedSymbol
        /\ phone' = phone
    BY <1>10 DEF Commit, fixedVars
  <2>2. to \in Symbols \cup {None} /\ going' \in Seq(Symbols \cup {None})
    BY <1>2, <2>1
  <2> HIDE DEF to
  <2>3. PaneInv'
    BY <1>1, <1>2, <2>1, <2>2, ShowKeeps
  <2> QED  BY <1>1, <1>2, <2>1, <2>3, RowsStand
<1>11. ASSUME RestoreFrame
       PROVE  RowInv' /\ PaneInv'
  <2>1. UNCHANGED <<figureVars, rowVars>> /\ raw' = raw
    BY <1>11 DEF RestoreFrame
  <2>2. Range(order) \subseteq Symbols
    BY <1>1, OrderIs
  <2> QED  BY <1>1, <1>2, <1>11, <2>1, <2>2, RestoreKeeps, RowsStand
<1>12. ASSUME ChunkArrives
       PROVE  RowInv' /\ PaneInv'
  <2>1. /\ UNCHANGED <<figureVars, rowVars>> /\ raw' = raw /\ UNCHANGED <<paneVars, going>>
        /\ focusedSymbol' = focusedSymbol /\ phone' = phone
        /\ focus' = focus \/ focus' = "replaced"
    BY <1>12 DEF ChunkArrives, fixedVars
  <2> DEFINE f == focus'
  <2>2. f \in Focusable /\ (frame = None => LookedAfter(f, selected))
    BY <1>2, <2>1 DEF Focusable, Lost, LookedAfter
  <2>3. PaneTypes'
    BY <1>1, <2>1, <2>2 DEF PaneTypes, paneVars
  <2>4. FocusIsLookedAfter'
    BY <2>1, <2>2, FocusIs DEF paneVars
  <2>5. PaneInv'
    BY <2>3, <2>4 DEF PaneInv
  <2> QED  BY <1>1, <1>2, <2>1, <2>5, RowsStand
<1>13. ASSUME Debounce
       PROVE  RowInv' /\ PaneInv'
  <2>1. /\ debounced' = raw /\ Render(paced, sort, raw, picks, "removed")
        /\ ahead' = ahead \cup (DOMAIN paced' \ DOMAIN paced)
        /\ UNCHANGED <<store, picks, sort, raw>> /\ UNCHANGED <<paneVars, going>>
        /\ focusedSymbol' = focusedSymbol /\ phone' = phone
    BY <1>13 DEF Debounce, fixedVars
  <2>2. /\ order' = Ranked(Matching(raw), sort, Views(paced, store))
        /\ paced' = Subscribed(order', picks, paced, store)
        /\ flushed' = {} /\ focus' = Keep(focus, order', "removed")
    BY <2>1 DEF Render
  <2>3. DOMAIN paced' \subseteq Symbols
    <3> DEFINE m == Matching(raw)
               rows == Ranked(m, sort, Views(paced, store))
    <3>1. Range(rows) = m /\ m \subseteq Symbols
      BY MatchingIs, RankedIs
    <3> HIDE DEF rows
    <3>2. DOMAIN paced' = Range(rows) \cup Cards(picks)
      BY <2>2 DEF Subscribed, rows
    <3>3. Cards(picks) \subseteq Symbols
      BY <1>1 DEF FigureTypes, Cards, PickTypes
    <3> QED  BY <3>1, <3>2, <3>3
  <2>4. /\ ahead' \in SUBSET Symbols /\ ahead \subseteq ahead'
        /\ DOMAIN paced' \ DOMAIN paced \subseteq ahead'
    BY <1>1, <2>1, <2>3 DEF FigureTypes
  <2>5. raw' \in Queries /\ sort' = sort /\ sort \in Sorts \cup {None}
    BY <1>1, <1>2, <2>1 DEF RowTypes
  <2>6. RowInv'
    BY <1>1, <1>2, <2>1, <2>2, <2>4, <2>5, RenderedKeeps
  <2>7. PaneInv'
    BY <1>4, <2>1, <2>2 DEF paneVars
  <2> QED  BY <2>6, <2>7
<1> QED  BY <1>5, <1>6, <1>7, <1>8, <1>9, <1>10, <1>11, <1>12, <1>13 DEF Source, Page

(* The invariant of the board.                                             *)
LEMMA BoardInvariance == Spec => []BoardInv
<1>1. Init => BoardInv
  BY BoardInit
<1>2. BoardInv /\ [Next]_vars => BoardInv'
  <2> SUFFICES ASSUME BoardInv, [Next]_vars PROVE BoardInv'
    OBVIOUS
  <2>1. CASE Next
    BY <2>1, UserKeeps, PageKeeps DEF Next, BoardInv, PaneInv
  <2>2. CASE UNCHANGED vars
    <3>1. RowInv'
      BY <2>2, RowsStand DEF vars, BoardInv, RowInv, RowTypes
    <3>2. PaneTypes'
      BY <2>2 DEF vars, paneVars, focusVars, BoardInv, PaneTypes
    <3>3. FocusIsLookedAfter'
      BY <2>2, FocusIs DEF vars, paneVars, focusVars, fixedVars, BoardInv
    <3> QED  BY <3>1, <3>2, <3>3 DEF BoardInv
  <2> QED  BY <2>1, <2>2
<1> QED  BY <1>1, <1>2, PTL DEF Spec

(* Every variable keeps its type, the rows are the matches of the query    *)
(* each once, and what is subscribed is what is rendered.                  *)
THEOREM BoardStaysTyped == Spec => []TypeOK
<1>1. BoardInv => TypeOK
  <2> SUFFICES ASSUME BoardInv PROVE TypeOK
    OBVIOUS
  <2>1. RowTypes /\ FigureTypes /\ PaneTypes
    BY DEF BoardInv, RowInv
  <2>2. DOMAIN paced = Range(order) \cup Cards(picks) /\ Range(paced) \subseteq Figures \cup {None}
    BY <2>1, PacedIs DEF Range
  <2>3. Len(order) = Cardinality(Range(order))
    <3>1. Cardinality(Matching(debounced)) \in Nat
      BY MatchingIs, RankedIs
    <3> DEFINE n == Cardinality(Matching(debounced))
    <3>2. order \in [1 .. n -> Symbols] /\ n \in Nat /\ Range(order) = Matching(debounced)
      BY <2>1, <3>1 DEF RowTypes
    <3> HIDE DEF n
    <3>3. Len(order) = n
      BY <3>2
    <3> QED  BY <3>2, <3>3 DEF n
  <2>4. \A k \in DOMAIN picks : picks[k] \in Symbols \cup {None}
    BY <2>1 DEF FigureTypes, PickTypes
  <2>5. Range(going) \subseteq Symbols \cup {None}
    BY <2>1 DEF PaneTypes, Range
  <2> QED  BY <2>1, <2>2, <2>3, <2>4, <2>5
           DEF TypeOK, RowTypes, FigureTypes, PaneTypes, Focusable
<1> QED  BY <1>1, BoardInvariance, PTL

(* The order: rows are in the order of the figures they show, but for one  *)
(* that caught up between two beats, whatever sorts, filters, subscribes   *)
(* or discards come in between (StockList, useBoardSort, usePacedViews).   *)
THEOREM RowsStayInOrder == Spec => []OrderIsOfTheFigures
<1>1. BoardInv => OrderIsOfTheFigures
  BY DEF BoardInv, RowInv
<1> QED  BY <1>1, BoardInvariance, PTL

(* The cards: what a highlight says is true of the figure it shows, and no *)
(* figure on the screen has a better claim to it (pickHeroes, StockList).  *)
THEOREM PicksStayTrue == Spec => []PicksAreTrue
<1>1. BoardInv => PicksAreTrue
  BY DEF BoardInv, RowInv
<1> QED  BY <1>1, BoardInvariance, PTL

(* The focus: opening, switching or closing the pane does not cost the     *)
(* user the focus, with or without view transitions, on a phone or beside  *)
(* the list (StockList's restore frame).                                   *)
THEOREM FocusStaysLookedAfter == Spec => []FocusIsLookedAfter
<1>1. BoardInv => FocusIsLookedAfter
  BY DEF BoardInv
<1> QED  BY <1>1, BoardInvariance, PTL

(* Enter in the search field opens the ticker that is typed, or a match of *)
(* what is typed, though the rows may still be of what was typed before    *)
(* (StockList's onEnter).                                                  *)
THEOREM EnterStaysWithTheQuery == Spec => EnterOpensWhatWasTyped
<1> DEFINE Typed == IF Exact(raw) # {} THEN Exact(raw) ELSE Matching(raw)
<1>1. ASSUME BoardInv, EnterInSearch, going = <<>>
      PROVE  Heading' \in Typed
  <2>1. RowTypes /\ PaneInv /\ PaneTypes
    BY <1>1 DEF BoardInv, RowInv, PaneInv
  <2>2. Candidates # <<>> /\ Elsewhere
    BY <1>1 DEF EnterInSearch
  <2>3. Target \in Symbols /\ Target \in Typed
    BY <2>1, <2>2, TargetIs
  <2>4. CASE Target # selected
    <3>1. Navigate(Target, focus)
      BY <1>1, <2>4 DEF EnterInSearch
    <3>2. /\ Target \in Symbols \cup {None} /\ focus \in Focusable /\ phone' = phone
          /\ focusedSymbol' \in Symbols \cup {None} /\ (frame = None => LookedAfter(focus, selected))
      BY <2>1, <2>2, <2>3, FocusIs DEF PaneTypes, PaneInv, Elsewhere, fixedVars
    <3>3. Heading' = Target
      BY <1>1, <2>1, <3>1, <3>2, NavigateKeeps
    <3> QED  BY <2>3, <3>3
  <2>5. CASE Target = selected
    <3>1. Stay(focus)
      BY <1>1, <2>5 DEF EnterInSearch
    <3>2. Heading' = selected
      BY <1>1, <3>1 DEF Stay, Heading, paneVars
    <3> QED  BY <2>3, <2>5, <3>2
  <2> QED  BY <2>4, <2>5
<1>2. BoardInv /\ [Next]_vars => [EnterInSearch /\ going = <<>> => Heading' \in Typed]_vars
  BY <1>1
<1> QED  BY <1>2, BoardInvariance, PTL DEF EnterOpensWhatWasTyped, Spec

=============================================================================
