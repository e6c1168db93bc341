------------------------- MODULE PositionProjectionProofs -------------------------
(***************************************************************************)
(* Proofs about PositionProjection, for any events, lots, accounts, builds  *)
(* and bounds: whatever is published, over the fast path or in full, is     *)
(* what a full replay of the same events by the same build gives, every     *)
(* account can read it, every checkpoint stands for a prefix of the ledger, *)
(* and a preview of the fast path that says "yes" is the full replay.       *)
(* First what a replay computes, then what a publication leaves, then the   *)
(* actions.                                                                 *)
(***************************************************************************)
EXTENDS PositionProjection, FiniteSetTheorems, NaturalsInduction, WellFoundedInduction, TLAPS

Less == {p \in Nat \X Nat : p[1] < p[2]}

LEMMA LessIsWellFounded == IsWellFoundedOn(Less, Nat)
  <1>1. Less = OpToRel(<, Nat)
    BY DEF Less, OpToRel
  <1>2. QED BY <1>1, NatLessThanWellFounded

LEMMA NumbersByInduction ==
    ASSUME NEW N, 0 \in N, \A n \in Nat : n \in N => n + 1 \in N
    PROVE  Nat \subseteq N
  <1> SUFFICES ASSUME NEW m \in Nat \ N PROVE FALSE
    OBVIOUS
  <1> DEFINE T == Nat \ N
  <1>1. PICK x \in T : \A y \in T : ~(<<y, x>> \in Less)
    BY LessIsWellFounded, WFMin
  <1>2. x \in Nat /\ x # 0 /\ x - 1 \in Nat
    OBVIOUS
  <1>3. <<x - 1, x>> \in Less
    BY <1>2 DEF Less
  <1>4. x - 1 \in N
    BY <1>1, <1>2, <1>3
  <1>5. QED BY <1>2, <1>4

LEMMA SetsByInduction ==
    ASSUME NEW D, IsFiniteSet(D), NEW G, {} \in G,
           \A s \in SUBSET D : s # {} /\ (\A x \in s : s \ {x} \in G) => s \in G
    PROVE  \A s \in SUBSET D : s \in G
  <1> DEFINE N == {n \in Nat : \A s \in SUBSET D : Cardinality(s) = n => s \in G}
  <1>1. \A s \in SUBSET D : IsFiniteSet(s) /\ Cardinality(s) \in Nat
    BY FS_Subset, FS_CardinalityType
  <1>2. 0 \in N
    BY <1>1, FS_EmptySet
  <1>3. ASSUME NEW n \in Nat, n \in N PROVE n + 1 \in N
    <2>1. ASSUME NEW s \in SUBSET D, Cardinality(s) = n + 1 PROVE s \in G
      <3>1. s # {}
        <4>1. Cardinality({}) = 0 /\ n + 1 # 0
          BY FS_EmptySet
        <4>2. QED BY <2>1, <4>1
      <3>2. ASSUME NEW x \in s PROVE s \ {x} \in G
        <4>1. Cardinality(s \ {x}) = n
          BY <1>1, <2>1, FS_RemoveElement
        <4>2. QED BY <1>3, <4>1
      <3>3. QED BY <3>1, <3>2
    <2>2. QED BY <2>1
  <1>4. Nat \subseteq N
    <2> HIDE DEF N
    <2>1. QED BY <1>2, <1>3, NumbersByInduction
  <1>5. QED BY <1>1, <1>4

\* R orders the elements of a finite set: one of them is the last.
LEMMA AFiniteSetHasALast ==
    ASSUME NEW S, IsFiniteSet(S), S # {}, NEW R,
           \A x, y \in S : x # y => <<x, y>> \in R \/ <<y, x>> \in R,
           \A x, y, z \in S : <<x, y>> \in R /\ <<y, z>> \in R => <<x, z>> \in R
    PROVE  \E x \in S : \A y \in S \ {x} : <<y, x>> \in R
  <1> DEFINE HasLast(s) == s # {} => \E x \in s : \A y \in s \ {x} : <<y, x>> \in R
             G == {s \in SUBSET S : HasLast(s)}
  <1>1. {} \in G
    OBVIOUS
  <1>2. ASSUME NEW s \in SUBSET S, s # {}, \A x \in s : s \ {x} \in G
        PROVE  s \in G
    <2>1. PICK z \in s : TRUE
      BY <1>2
    <2>2. CASE s \ {z} = {}
      BY <2>1, <2>2
    <2>3. CASE s \ {z} # {}
      <3>1. PICK x \in s \ {z} : \A y \in (s \ {z}) \ {x} : <<y, x>> \in R
        BY <1>2, <2>1, <2>3
      <3>2. CASE <<z, x>> \in R
        <4>1. \A y \in s \ {x} : <<y, x>> \in R
          BY <3>1, <3>2
        <4>2. QED BY <4>1
      <3>3. CASE <<z, x>> \notin R
        <4>1. x \in S /\ z \in S /\ x # z /\ <<x, z>> \in R
          BY <3>1, <3>3
        <4>2. ASSUME NEW y \in s \ {z} PROVE <<y, z>> \in R
          <5>1. y = x \/ <<y, x>> \in R
            BY <3>1
          <5>2. y \in S
            OBVIOUS
          <5>3. QED BY <4>1, <5>1, <5>2
        <4>3. QED BY <4>2
      <3>4. QED BY <3>2, <3>3
    <2>4. QED BY <2>2, <2>3
  <1>3. S \in G
    <2> HIDE DEF G
    <2>1. \A s \in SUBSET S : s # {} /\ (\A x \in s : s \ {x} \in G) => s \in G
      BY <1>2
    <2>2. \A s \in SUBSET S : s \in G
      BY <1>1, <2>1, SetsByInduction
    <2>3. QED BY <2>2
  <1>4. QED BY <1>3

-----------------------------------------------------------------------------
(* The order of a replay.                                                  *)

Timed(d) == d.stored \in [Trades -> Nat]

LEMMA TradesAreFinite == Trades \subseteq Nat \ {0} /\ IsFiniteSet(Trades) /\ Trades = 1..Len(Trade)
  <1>1. Trades = 1..Len(Trade) /\ Len(Trade) \in Nat
    BY ProjectionAssumption DEF Trades
  <1>2. IsFiniteSet(1..Len(Trade))
    BY <1>1, FS_Interval
  <1>3. 1..Len(Trade) \subseteq Nat \ {0}
    BY <1>1
  <1>4. QED BY <1>1, <1>2, <1>3

LEMMA EventsAreRecords ==
    ASSUME NEW e \in Trades
    PROVE  /\ Trade[e] \in TradeRecords /\ Trade[e].lot \in Lots /\ Trade[e].size \in Nat
           /\ Trade[e].kind \in {"open", "close", "adjust", "void"} /\ e \in Nat \ {0}
           /\ Trade[e].kind \in {"open", "close"} => Trade[e].size > 0
  <1>1. Trade \in [1..Len(Trade) -> TradeRecords]
    BY ProjectionAssumption
  <1>2. Trade[e] \in TradeRecords
    BY <1>1, TradesAreFinite
  <1>3. QED BY <1>2, TradesAreFinite, ProjectionAssumption DEF TradeRecords

LEMMA BeforeIsAnOrder ==
    ASSUME NEW d, Timed(d), NEW x \in Trades, NEW y \in Trades, NEW z \in Trades
    PROVE  /\ x # y => ReplayedBefore(d, x, y) \/ ReplayedBefore(d, y, x)
           /\ ~(ReplayedBefore(d, x, y) /\ ReplayedBefore(d, y, x))
           /\ ReplayedBefore(d, x, y) /\ ReplayedBefore(d, y, z) => ReplayedBefore(d, x, z)
  <1>1. d.stored[x] \in Nat /\ d.stored[y] \in Nat /\ d.stored[z] \in Nat
    BY DEF Timed
  <1>2. x \in Nat /\ y \in Nat /\ z \in Nat
    BY TradesAreFinite
  <1>3. QED BY <1>1, <1>2 DEF ReplayedBefore

LEMMA LastIsLast ==
    ASSUME NEW d, Timed(d), NEW S \in SUBSET Trades, S # {}
    PROVE  /\ LastReplayed(d, S) \in S
           /\ \A y \in S \ {LastReplayed(d, S)} : ReplayedBefore(d, y, LastReplayed(d, S))
  <1> DEFINE R == {p \in Trades \X Trades : ReplayedBefore(d, p[1], p[2])}
  <1>1. \A x, y \in Trades : <<x, y>> \in R <=> ReplayedBefore(d, x, y)
    OBVIOUS
  <1> HIDE DEF R
  <1>2. IsFiniteSet(S)
    BY TradesAreFinite, FS_Subset
  <1>3. \A x, y \in S : x # y => <<x, y>> \in R \/ <<y, x>> \in R
    BY <1>1, BeforeIsAnOrder
  <1>4. \A x, y, z \in S : <<x, y>> \in R /\ <<y, z>> \in R => <<x, z>> \in R
    BY <1>1, BeforeIsAnOrder
  <1>5. \E x \in S : \A y \in S \ {x} : <<y, x>> \in R
    BY <1>2, <1>3, <1>4, AFiniteSetHasALast
  <1>6. \E x \in S : \A y \in S \ {x} : ReplayedBefore(d, y, x)
    BY <1>1, <1>5
  <1>7. QED BY <1>6 DEF LastReplayed

LEMMA LastIsUnique ==
    ASSUME NEW d, Timed(d), NEW S \in SUBSET Trades, NEW x \in S,
           \A y \in S \ {x} : ReplayedBefore(d, y, x)
    PROVE  LastReplayed(d, S) = x
  <1>1. LastReplayed(d, S) \in S
        /\ \A y \in S \ {LastReplayed(d, S)} : ReplayedBefore(d, y, LastReplayed(d, S))
    BY LastIsLast
  <1>2. QED BY <1>1, BeforeIsAnOrder

(* What a replay computes, one event at a time.                            *)

NoLots == [l \in Lots |-> NoLot]
Fresh(lots) == [lots |-> lots, touched |-> NoLots, ok |-> TRUE]

\* The function that Replayed computes, on the subsets of S.
IsFold(f, d, lots, S, b, tail) ==
    f = [s \in SUBSET S |->
           IF s = {} THEN Fresh(lots)
           ELSE Applied(f[s \ {LastReplayed(d, s)}], LastReplayed(d, s), b, tail)]
Fold(d, lots, S, b, tail) == CHOOSE f : IsFold(f, d, lots, S, b, tail)

LEMMA ReplayExists ==
    ASSUME NEW d, Timed(d), NEW lots, NEW b, NEW tail, NEW D \in SUBSET Trades
    PROVE  \E f : IsFold(f, d, lots, D, b, tail)
  <1> DEFINE Next1(f, s) == IF s = {} THEN Fresh(lots)
                            ELSE Applied(f[s \ {LastReplayed(d, s)}], LastReplayed(d, s), b, tail)
             Upgrade(f) == [s \in SUBSET D |-> Next1(f, s)]
             Good(f, n) == /\ f = [s \in SUBSET D |-> f[s]]
                           /\ \A s \in SUBSET D : Cardinality(s) <= n => f[s] = Next1(f, s)
             N == {n \in Nat : \E f : Good(f, n)}
  <1>1. ASSUME NEW s \in SUBSET D, s # {}
        PROVE  /\ LastReplayed(d, s) \in s /\ s \ {LastReplayed(d, s)} \in SUBSET D
               /\ Cardinality(s) \in Nat /\ Cardinality(s \ {LastReplayed(d, s)}) = Cardinality(s) - 1
               /\ Cardinality(s) # 0
    <2>1. IsFiniteSet(s) /\ s \in SUBSET Trades
      BY TradesAreFinite, FS_Subset
    <2>2. LastReplayed(d, s) \in s
      BY <1>1, <2>1, LastIsLast
    <2>3. QED BY <1>1, <2>1, <2>2, FS_RemoveElement, FS_CardinalityType, FS_EmptySet
  <1>2. 0 \in N
    <2> DEFINE f == [s \in SUBSET D |-> Fresh(lots)]
    <2>1. ASSUME NEW s \in SUBSET D, Cardinality(s) <= 0 PROVE s = {}
      <3>1. IsFiniteSet(s) /\ Cardinality(s) \in Nat
        BY TradesAreFinite, FS_Subset, FS_CardinalityType
      <3>2. Cardinality(s) = 0
        BY <2>1, <3>1
      <3>3. QED BY <3>1, <3>2, FS_EmptySet
    <2>2. Good(f, 0)
      BY <2>1
    <2>3. QED BY <2>2
  <1>3. ASSUME NEW n \in Nat, n \in N PROVE n + 1 \in N
    <2>1. PICK f : Good(f, n)
      BY <1>3
    <2> DEFINE g == Upgrade(f)
    <2>2. g = [s \in SUBSET D |-> g[s]]
      OBVIOUS
    <2>3. ASSUME NEW s \in SUBSET D, Cardinality(s) <= n + 1 PROVE g[s] = Next1(g, s)
      <3>1. CASE s = {}
        BY <3>1
      <3>2. CASE s # {}
        <4> DEFINE x == LastReplayed(d, s)
        <4>1. s \ {x} \in SUBSET D /\ Cardinality(s \ {x}) <= n
          BY <1>1, <2>3, <3>2
        <4> HIDE DEF x
        <4>2. f[s \ {x}] = Next1(f, s \ {x})
          BY <2>1, <4>1
        <4>3. g[s \ {x}] = Next1(f, s \ {x})
          BY <4>1
        <4>4. g[s] = Applied(f[s \ {x}], x, b, tail)
          BY <3>2 DEF x
        <4>5. Next1(g, s) = Applied(g[s \ {x}], x, b, tail)
          BY <3>2 DEF x
        <4>6. QED BY <4>2, <4>3, <4>4, <4>5
      <3>3. QED BY <3>1, <3>2
    <2>4. Good(g, n + 1)
      <3> HIDE DEF Next1, g
      <3>1. QED BY <2>2, <2>3
    <2> HIDE DEF Good, g
    <2>5. \E h : Good(h, n + 1)
      BY <2>4
    <2>6. n + 1 \in Nat
      OBVIOUS
    <2>7. QED BY <2>5, <2>6
  <1>4. Nat \subseteq N
    <2> HIDE DEF N
    <2>1. \A n \in Nat : n \in N => n + 1 \in N
      BY <1>3
    <2>2. QED BY <1>2, <2>1, NumbersByInduction
  <1>5. IsFiniteSet(D) /\ Cardinality(D) \in Nat
    BY TradesAreFinite, FS_Subset, FS_CardinalityType
  <1>6. PICK f : Good(f, Cardinality(D))
    BY <1>4, <1>5
  <1>7. \A s \in SUBSET D : Cardinality(s) <= Cardinality(D)
    BY <1>5, FS_Subset
  <1>8. f = [s \in SUBSET D |-> Next1(f, s)]
    <2> HIDE DEF Next1
    <2>1. QED BY <1>6, <1>7
  <1>9. IsFold(f, d, lots, D, b, tail)
    BY <1>8 DEF IsFold
  <1>10. QED BY <1>9

LEMMA ReplayedIsFold ==
    ASSUME NEW d, NEW lots, NEW S, NEW b, NEW tail
    PROVE  Replayed(d, lots, S, b, tail) = Fold(d, lots, S, b, tail)[S]
  BY DEF Replayed, MapThenFoldSet, Fold, IsFold, Fresh, NoLots

LEMMA FoldIsFold ==
    ASSUME NEW d, Timed(d), NEW lots, NEW b, NEW tail, NEW S \in SUBSET Trades
    PROVE  IsFold(Fold(d, lots, S, b, tail), d, lots, S, b, tail)
  <1>1. \E f : IsFold(f, d, lots, S, b, tail)
    BY ReplayExists
  <1>2. QED BY <1>1 DEF Fold

LEMMA FoldsAgree ==
    ASSUME NEW d, Timed(d), NEW lots, NEW b, NEW tail, NEW S \in SUBSET Trades, NEW T \in SUBSET S
    PROVE  Fold(d, lots, S, b, tail)[T] = Replayed(d, lots, T, b, tail)
  <1> DEFINE f == Fold(d, lots, S, b, tail)
             g == Fold(d, lots, T, b, tail)
             G == {s \in SUBSET T : f[s] = g[s]}
             Next1(h, s) == IF s = {} THEN Fresh(lots)
                            ELSE Applied(h[s \ {LastReplayed(d, s)}], LastReplayed(d, s), b, tail)
  <1>1. /\ \A s \in SUBSET S : f[s] = Next1(f, s)
        /\ \A s \in SUBSET T : g[s] = Next1(g, s)
    <2>1. IsFold(f, d, lots, S, b, tail) /\ IsFold(g, d, lots, T, b, tail)
      BY FoldIsFold
    <2> HIDE DEF f, g
    <2>2. QED BY <2>1 DEF IsFold
  <1> HIDE DEF f, g
  <1>2. {} \in G
    BY <1>1
  <1>3. \A s \in SUBSET T : s # {} /\ (\A x \in s : s \ {x} \in G) => s \in G
    <2> SUFFICES ASSUME NEW s \in SUBSET T, s # {}, \A x \in s : s \ {x} \in G
                 PROVE  s \in G
      OBVIOUS
    <2>1. LastReplayed(d, s) \in s
      BY LastIsLast
    <2>2. f[s \ {LastReplayed(d, s)}] = g[s \ {LastReplayed(d, s)}]
      BY <2>1
    <2>3. QED BY <1>1, <2>2
  <1>4. IsFiniteSet(T)
    BY TradesAreFinite, FS_Subset
  <1>5. T \in G
    <2> HIDE DEF G
    <2>1. QED BY <1>2, <1>3, <1>4, SetsByInduction
  <1>6. f[T] = g[T]
    BY <1>5
  <1>7. QED BY <1>6, ReplayedIsFold DEF f, g

\* A replay of no event.
LEMMA ReplayOfNone ==
    ASSUME NEW d, Timed(d), NEW lots, NEW b, NEW tail
    PROVE  Replayed(d, lots, {}, b, tail) = Fresh(lots)
  <1> DEFINE S == {}
             f == Fold(d, lots, S, b, tail)
  <1>1. S \in SUBSET Trades
    OBVIOUS
  <1> HIDE DEF S
  <1>2. IsFold(f, d, lots, S, b, tail) /\ S = {}
    BY <1>1, FoldIsFold DEF S
  <1>3. Replayed(d, lots, S, b, tail) = f[S]
    BY ReplayedIsFold
  <1> HIDE DEF f
  <1>4. f[S] = Fresh(lots)
    BY <1>2 DEF IsFold
  <1>5. Replayed(d, lots, S, b, tail) = Fresh(lots)
    BY <1>3, <1>4
  <1>6. QED BY <1>5 DEF S

\* The last of some events applies to what the others gave.
LEMMA ReplayUnfolds ==
    ASSUME NEW d, Timed(d), NEW lots, NEW b, NEW tail, NEW S \in SUBSET Trades, S # {}
    PROVE  Replayed(d, lots, S, b, tail)
             = Applied(Replayed(d, lots, S \ {LastReplayed(d, S)}, b, tail), LastReplayed(d, S), b, tail)
  <1> DEFINE f == Fold(d, lots, S, b, tail)
  <1>1. f[S] = Applied(f[S \ {LastReplayed(d, S)}], LastReplayed(d, S), b, tail)
    <2>1. IsFold(f, d, lots, S, b, tail)
      BY FoldIsFold
    <2> HIDE DEF f
    <2>2. QED BY <2>1 DEF IsFold
  <1>2. f[S] = Replayed(d, lots, S, b, tail)
    BY ReplayedIsFold
  <1>3. f[S \ {LastReplayed(d, S)}] = Replayed(d, lots, S \ {LastReplayed(d, S)}, b, tail)
    BY FoldsAgree
  <1> HIDE DEF f
  <1>4. QED BY <1>1, <1>2, <1>3

-----------------------------------------------------------------------------
(* One event.                                                              *)

LotRecords == [open : Nat, left : Nat, closes : Seq(Nat), adjust : Nat, by : SUBSET Builds]
Accs == [lots : [Lots -> LotRecords], touched : [Lots -> LotRecords], ok : BOOLEAN]

LEMMA NoLotIsALot == NoLot \in LotRecords /\ NoLots \in [Lots -> LotRecords]
  <1>1. NoLot \in LotRecords
    BY DEF NoLot, LotRecords
  <1>2. QED BY <1>1 DEF NoLots

LEMMA AfterIsALot ==
    ASSUME NEW v \in LotRecords, NEW e \in Trades, NEW b \in Builds, Takes(v, e)
    PROVE  /\ After(v, e, b) \in LotRecords
           /\ Trade[e].kind = "open" => After(v, e, b).open = e /\ After(v, e, b).by = {b}
           /\ Trade[e].kind # "open" => After(v, e, b).open = v.open /\ After(v, e, b).by = v.by \cup {b}
                                        /\ v # NoLot
  <1>1. /\ Trade[e].size \in Nat /\ e \in Nat
        /\ Trade[e].kind \in {"open", "close", "adjust", "void"}
        /\ Trade[e].kind \in {"open", "close"} => Trade[e].size > 0
    BY EventsAreRecords
  <1>2. v = [open |-> v.open, left |-> v.left, closes |-> v.closes, adjust |-> v.adjust, by |-> v.by]
        /\ v.open \in Nat /\ v.left \in Nat /\ v.closes \in Seq(Nat) /\ v.adjust \in Nat /\ v.by \in SUBSET Builds
    BY DEF LotRecords
  <1>3. CASE Trade[e].kind = "open"
    <2>1. After(v, e, b) = [v EXCEPT !.open = e, !.left = Trade[e].size, !.by = {b}]
      BY <1>3 DEF After
    <2>2. After(v, e, b) = [open |-> e, left |-> Trade[e].size, closes |-> v.closes, adjust |-> v.adjust,
                            by |-> {b}]
      BY <1>2, <2>1
    <2>3. After(v, e, b) \in LotRecords
      BY <1>1, <1>2, <2>2 DEF LotRecords
    <2>4. QED BY <1>3, <2>2, <2>3
  <1>4. CASE Trade[e].kind = "close"
    <2>1. After(v, e, b) = [v EXCEPT !.left = @ - Trade[e].size, !.closes = Append(@, e), !.by = @ \cup {b}]
      BY <1>4 DEF After
    <2>2. Trade[e].size <= v.left
      BY <1>4 DEF Takes
    <2>3. v.left - Trade[e].size \in Nat /\ v # NoLot
      BY <1>1, <1>2, <1>4, <2>2 DEF NoLot
    <2>4. Append(v.closes, e) \in Seq(Nat)
      BY <1>1, <1>2
    <2>5. After(v, e, b) = [open |-> v.open, left |-> v.left - Trade[e].size, closes |-> Append(v.closes, e),
                            adjust |-> v.adjust, by |-> v.by \cup {b}]
      BY <1>2, <2>1
    <2>6. v.by \cup {b} \in SUBSET Builds
      BY <1>2
    <2>7. After(v, e, b) \in LotRecords
      BY <1>1, <1>2, <2>3, <2>4, <2>5, <2>6 DEF LotRecords
    <2>8. QED BY <1>4, <2>3, <2>5, <2>7
  <1>5. CASE Trade[e].kind \in {"adjust", "void"}
    <2>1. After(v, e, b) = [v EXCEPT !.adjust = e, !.by = @ \cup {b}]
      BY <1>5 DEF After
    <2>2. v # NoLot
      BY <1>5 DEF Takes
    <2>3. After(v, e, b) = [open |-> v.open, left |-> v.left, closes |-> v.closes, adjust |-> e,
                            by |-> v.by \cup {b}]
      BY <1>2, <2>1
    <2>4. v.by \cup {b} \in SUBSET Builds
      BY <1>2
    <2>5. After(v, e, b) \in LotRecords
      BY <1>1, <1>2, <2>3, <2>4 DEF LotRecords
    <2>6. QED BY <1>5, <2>2, <2>3, <2>5
  <1>6. QED BY <1>1, <1>3, <1>4, <1>5

\* r is what acc becomes by event e.
Applies(acc, e, b, tail, r) ==
    LET m == Trade[e].lot
        v == After(acc.lots[m], e, b)
    IN /\ \A l \in Lots \ {m} : r.lots[l] = acc.lots[l] /\ r.touched[l] = acc.touched[l]
       /\ r.ok <=> acc.ok /\ Takes(acc.lots[m], e)
       /\ r.lots[m] = IF ~Takes(acc.lots[m], e) THEN acc.lots[m]
                      ELSE IF tail /\ v.left = 0 THEN NoLot ELSE v
       /\ Takes(acc.lots[m], e) => r.touched[m] = v

LEMMA AppliedIs ==
    ASSUME NEW acc \in Accs, NEW e \in Trades, NEW b \in Builds, NEW tail \in BOOLEAN
    PROVE  Applied(acc, e, b, tail) \in Accs /\ Applies(acc, e, b, tail, Applied(acc, e, b, tail))
  <1> DEFINE m == Trade[e].lot
             v == After(acc.lots[m], e, b)
             r == Applied(acc, e, b, tail)
             new == IF tail /\ v.left = 0 THEN NoLot ELSE v
  <1>1. /\ acc = [lots |-> acc.lots, touched |-> acc.touched, ok |-> acc.ok]
        /\ acc.lots \in [Lots -> LotRecords] /\ acc.touched \in [Lots -> LotRecords] /\ acc.ok \in BOOLEAN
    BY DEF Accs
  <1>2. m \in Lots
    BY EventsAreRecords
  <1>3. CASE Takes(acc.lots[m], e)
    <2>1. v \in LotRecords /\ new \in LotRecords
      BY <1>1, <1>2, <1>3, AfterIsALot, NoLotIsALot
    <2>2. r = [acc EXCEPT !.lots[m] = new, !.touched[m] = v]
      BY <1>3 DEF Applied
    <2> HIDE DEF v, new, m, r
    <2>3. r = [lots |-> [acc.lots EXCEPT ![m] = new], touched |-> [acc.touched EXCEPT ![m] = v], ok |-> acc.ok]
      BY <1>1, <2>2
    <2>4. /\ r \in Accs /\ r.lots[m] = new /\ r.touched[m] = v /\ r.ok = acc.ok
          /\ \A l \in Lots \ {m} : r.lots[l] = acc.lots[l] /\ r.touched[l] = acc.touched[l]
      BY <1>1, <1>2, <2>1, <2>3 DEF Accs
    <2>5. Applies(acc, e, b, tail, r)
      BY <1>3, <2>4 DEF v, new, m, Applies
    <2>6. QED BY <2>4, <2>5 DEF r
  <1>4. CASE ~Takes(acc.lots[m], e)
    <2>1. r = [acc EXCEPT !.ok = FALSE]
      BY <1>4 DEF Applied
    <2> HIDE DEF v, new, m, r
    <2>2. r = [lots |-> acc.lots, touched |-> acc.touched, ok |-> FALSE]
      BY <1>1, <2>1
    <2>3. r \in Accs
      BY <1>1, <2>2 DEF Accs
    <2>4. r.ok = FALSE /\ r.lots = acc.lots /\ r.touched = acc.touched
      BY <2>2
    <2>5. QED BY <1>4, <2>3, <2>4 DEF m, r, Applies
  <1>5. QED BY <1>3, <1>4

-----------------------------------------------------------------------------
(* Many events.                                                            *)

LEMMA ReplayedIsTyped ==
    ASSUME NEW d, Timed(d), NEW lots \in [Lots -> LotRecords], NEW b \in Builds, NEW tail \in BOOLEAN
    PROVE  \A S \in SUBSET Trades : Replayed(d, lots, S, b, tail) \in Accs
  <1> DEFINE G == {S \in SUBSET Trades : Replayed(d, lots, S, b, tail) \in Accs}
  <1>1. {} \in G
    <2>1. Fresh(lots) \in Accs
      BY NoLotIsALot DEF Fresh, Accs
    <2>2. QED BY <2>1, ReplayOfNone
  <1>2. \A S \in SUBSET Trades : S # {} /\ (\A x \in S : S \ {x} \in G) => S \in G
    <2> SUFFICES ASSUME NEW S \in SUBSET Trades, S # {}, \A x \in S : S \ {x} \in G
                 PROVE  S \in G
      OBVIOUS
    <2> DEFINE x == LastReplayed(d, S)
               acc == Replayed(d, lots, S \ {x}, b, tail)
    <2>1. x \in S /\ acc \in Accs
      BY LastIsLast
    <2>2. Replayed(d, lots, S, b, tail) = Applied(acc, x, b, tail)
      BY ReplayUnfolds
    <2> HIDE DEF x, acc
    <2>3. QED BY <2>1, <2>2, AppliedIs
  <1>3. \A S \in SUBSET Trades : S \in G
    <2>1. IsFiniteSet(Trades)
      BY TradesAreFinite
    <2> HIDE DEF G
    <2>2. QED BY <1>1, <1>2, <2>1, SetsByInduction
  <1>4. QED BY <1>3

\* The last of some events applies to what the others gave.
LEMMA ReplayStep ==
    ASSUME NEW d, Timed(d), NEW lots \in [Lots -> LotRecords], NEW b \in Builds, NEW tail \in BOOLEAN,
           NEW S \in SUBSET Trades, NEW x \in S, \A y \in S \ {x} : ReplayedBefore(d, y, x)
    PROVE  /\ Replayed(d, lots, S \ {x}, b, tail) \in Accs
           /\ Replayed(d, lots, S, b, tail) \in Accs
           /\ Applies(Replayed(d, lots, S \ {x}, b, tail), x, b, tail, Replayed(d, lots, S, b, tail))
  <1>1. x = LastReplayed(d, S)
    BY LastIsUnique
  <1>2. Replayed(d, lots, S, b, tail) = Applied(Replayed(d, lots, S \ {x}, b, tail), x, b, tail)
    BY <1>1, ReplayUnfolds
  <1>3. S \ {x} \in SUBSET Trades /\ x \in Trades
    OBVIOUS
  <1>4. Replayed(d, lots, S \ {x}, b, tail) \in Accs
    BY <1>3, ReplayedIsTyped
  <1>5. QED BY <1>2, <1>3, <1>4, AppliedIs

\* Only the times of the events themselves count.
LEMMA ReplaysAgree ==
    ASSUME NEW d, Timed(d), NEW c, Timed(c), NEW lots, NEW b, NEW tail, NEW D \in SUBSET Trades,
           \A e \in D : c.stored[e] = d.stored[e]
    PROVE  Replayed(c, lots, D, b, tail) = Replayed(d, lots, D, b, tail)
  <1> DEFINE G == {S \in SUBSET D : Replayed(c, lots, S, b, tail) = Replayed(d, lots, S, b, tail)}
  <1>1. {} \in G
    BY ReplayOfNone
  <1>2. \A S \in SUBSET D : S # {} /\ (\A x \in S : S \ {x} \in G) => S \in G
    <2> SUFFICES ASSUME NEW S \in SUBSET D, S # {}, \A x \in S : S \ {x} \in G
                 PROVE  S \in G
      OBVIOUS
    <2> DEFINE x == LastReplayed(d, S)
    <2>1. x \in S /\ \A y \in S \ {x} : ReplayedBefore(d, y, x)
      BY LastIsLast
    <2> HIDE DEF x
    <2>2. \A y \in S \ {x} : ReplayedBefore(c, y, x)
      BY <2>1 DEF ReplayedBefore
    <2>3. x = LastReplayed(c, S) /\ x = LastReplayed(d, S)
      BY <2>1, <2>2, LastIsUnique
    <2>4. /\ Replayed(c, lots, S, b, tail) = Applied(Replayed(c, lots, S \ {x}, b, tail), x, b, tail)
          /\ Replayed(d, lots, S, b, tail) = Applied(Replayed(d, lots, S \ {x}, b, tail), x, b, tail)
      <3>1. /\ Replayed(c, lots, S, b, tail)
                 = Applied(Replayed(c, lots, S \ {LastReplayed(c, S)}, b, tail), LastReplayed(c, S), b, tail)
            /\ Replayed(d, lots, S, b, tail)
                 = Applied(Replayed(d, lots, S \ {LastReplayed(d, S)}, b, tail), LastReplayed(d, S), b, tail)
        <4>1. S \in SUBSET Trades
          OBVIOUS
        <4>2. QED BY <4>1, ReplayUnfolds
      <3>2. QED BY <2>3, <3>1
    <2>5. Replayed(c, lots, S \ {x}, b, tail) = Replayed(d, lots, S \ {x}, b, tail)
      BY <2>1
    <2>6. QED BY <2>4, <2>5
  <1>3. \A S \in SUBSET D : S \in G
    <2>1. IsFiniteSet(D)
      BY TradesAreFinite, FS_Subset
    <2> HIDE DEF G
    <2>2. QED BY <1>1, <1>2, <2>1, SetsByInduction
  <1>4. D \in G
    BY <1>3
  <1>5. QED BY <1>4

(* Full replays.                                                           *)

Full(d, S, b) == Replayed(d, NoLots, S, b, FALSE)
Of(S, l) == {e \in S : Trade[e].lot = l}

LEMMA FullOfNone ==
    ASSUME NEW d, Timed(d), NEW b
    PROVE  Full(d, {}, b).lots = NoLots /\ Full(d, {}, b).ok
  <1>1. Replayed(d, NoLots, {}, b, FALSE) = Fresh(NoLots)
    BY ReplayOfNone
  <1>2. Full(d, {}, b) = Fresh(NoLots)
    BY <1>1 DEF Full
  <1>3. Fresh(NoLots).lots = NoLots /\ Fresh(NoLots).ok
    BY DEF Fresh
  <1>4. QED BY <1>2, <1>3

\* g is what replay f becomes by event x.
Grows(f, x, b, g) ==
    LET m == Trade[x].lot
    IN /\ f \in Accs /\ g \in Accs /\ m \in Lots
       /\ \A l \in Lots \ {m} : g.lots[l] = f.lots[l]
       /\ g.ok <=> f.ok /\ Takes(f.lots[m], x)
       /\ g.lots[m] = IF Takes(f.lots[m], x) THEN After(f.lots[m], x, b) ELSE f.lots[m]

LEMMA FullStep ==
    ASSUME NEW d, Timed(d), NEW b \in Builds, NEW S \in SUBSET Trades, NEW x \in S,
           \A y \in S \ {x} : ReplayedBefore(d, y, x)
    PROVE  Grows(Full(d, S \ {x}, b), x, b, Full(d, S, b))
  <1>1. Trade[x].lot \in Lots
    BY EventsAreRecords
  <1>2. /\ Full(d, S \ {x}, b) \in Accs /\ Full(d, S, b) \in Accs
        /\ Applies(Full(d, S \ {x}, b), x, b, FALSE, Full(d, S, b))
    BY NoLotIsALot, ReplayStep DEF Full
  <1>3. QED BY <1>1, <1>2 DEF Applies, Grows

\* A lot of a successful replay is that of its one opening; without events there
\* is none.
Born(S, b, f) ==
    f.ok => \A l \in Lots :
      \/ f.lots[l] = NoLot /\ Of(S, l) = {}
      \/ /\ f.lots[l].open \in Of(S, l) /\ Trade[f.lots[l].open].kind = "open"
         /\ \A x \in Of(S, l) : Trade[x].kind = "open" => x = f.lots[l].open

LEMMA LotsAreBorn ==
    ASSUME NEW d, Timed(d), NEW b \in Builds
    PROVE  \A S \in SUBSET Trades : Born(S, b, Full(d, S, b))
  <1> DEFINE G == {S \in SUBSET Trades : Born(S, b, Full(d, S, b))}
  <1>1. {} \in G
    <2>1. Full(d, {}, b).lots = NoLots
      BY FullOfNone
    <2>2. QED BY <2>1 DEF Born, Of, NoLots
  <1>2. \A S \in SUBSET Trades : S # {} /\ (\A x \in S : S \ {x} \in G) => S \in G
    <2> SUFFICES ASSUME NEW S \in SUBSET Trades, S # {}, \A x \in S : S \ {x} \in G, Full(d, S, b).ok,
                        NEW l \in Lots
                 PROVE  \/ Full(d, S, b).lots[l] = NoLot /\ Of(S, l) = {}
                        \/ /\ Full(d, S, b).lots[l].open \in Of(S, l)
                           /\ Trade[Full(d, S, b).lots[l].open].kind = "open"
                           /\ \A x \in Of(S, l) : Trade[x].kind = "open" => x = Full(d, S, b).lots[l].open
      BY DEF Born
    <2> DEFINE x == LastReplayed(d, S)
               f == Full(d, S \ {x}, b)
               g == Full(d, S, b)
    <2>1. x \in S /\ \A y \in S \ {x} : ReplayedBefore(d, y, x)
      BY LastIsLast
    <2>0. Grows(f, x, b, g)
      BY <2>1, FullStep
    <2>2. /\ f \in Accs /\ g \in Accs /\ Trade[x].lot \in Lots
          /\ \A k \in Lots \ {Trade[x].lot} : g.lots[k] = f.lots[k]
          /\ g.ok <=> f.ok /\ Takes(f.lots[Trade[x].lot], x)
          /\ g.lots[Trade[x].lot] = IF Takes(f.lots[Trade[x].lot], x)
                                    THEN After(f.lots[Trade[x].lot], x, b) ELSE f.lots[Trade[x].lot]
      BY <2>0 DEF Grows
    <2>3. Born(S \ {x}, b, f)
      BY <2>1
    <2>4. g.ok
      OBVIOUS
    <2>5. f.lots[l] \in LotRecords
      BY <2>2 DEF Accs
    <2> HIDE DEF x, f, g
    <2>6. CASE Trade[x].lot # l
      <3>1. g.lots[l] = f.lots[l] /\ Of(S, l) = Of(S \ {x}, l)
        BY <2>2, <2>6 DEF Of
      <3> DEFINE u == f.lots[l]
                 T == Of(S \ {x}, l)
      <3>2. f.ok
        BY <2>2, <2>4
      <3>3. \/ u = NoLot /\ T = {}
            \/ /\ u.open \in T /\ Trade[u.open].kind = "open"
               /\ \A y \in T : Trade[y].kind = "open" => y = u.open
        BY <2>3, <3>2 DEF Born
      <3>4. g.lots[l] = u /\ Of(S, l) = T
        BY <3>1
      <3> HIDE DEF u, T
      <3>5. QED BY <3>3, <3>4 DEF g
    <2>7. CASE Trade[x].lot = l
      <3>1. g.lots[l] = After(f.lots[l], x, b) /\ f.ok /\ Takes(f.lots[l], x)
        BY <2>2, <2>4, <2>7
      <3>2. /\ Trade[x].kind = "open" => g.lots[l].open = x
            /\ Trade[x].kind # "open" => g.lots[l].open = f.lots[l].open /\ f.lots[l] # NoLot
        BY <2>1, <2>5, <3>1, AfterIsALot
      <3>3. Of(S, l) = Of(S \ {x}, l) \cup {x}
        BY <2>1, <2>7 DEF Of
      <3>4. CASE Trade[x].kind = "open"
        <4>1. f.lots[l] = NoLot
          BY <3>1, <3>4 DEF Takes
        <4>2. f.lots[l].open \notin Trades
          BY <4>1, TradesAreFinite DEF NoLot
        <4>3. Of(S \ {x}, l) = {}
          BY <2>3, <3>1, <4>2 DEF Born, Of
        <4>4. QED BY <3>2, <3>3, <3>4, <4>3 DEF g
      <3>5. CASE Trade[x].kind # "open"
        BY <2>3, <3>1, <3>2, <3>3, <3>5 DEF Born, g
      <3>6. QED BY <3>4, <3>5
    <2>8. QED BY <2>6, <2>7
  <1>3. \A S \in SUBSET Trades : S \in G
    <2>1. IsFiniteSet(Trades)
      BY TradesAreFinite
    <2> HIDE DEF G
    <2>2. QED BY <1>1, <1>2, <2>1, SetsByInduction
  <1>4. QED BY <1>3

\* Every lot of a replay is that of its own events, and a replay fails with one.
OfLots(d, S, b) ==
    /\ \A l \in Lots : Full(d, S, b).lots[l] = Full(d, Of(S, l), b).lots[l]
    /\ Full(d, S, b).ok <=> \A l \in Lots : Full(d, Of(S, l), b).ok

LEMMA LotsAreTheirOwn ==
    ASSUME NEW d, Timed(d), NEW b \in Builds
    PROVE  \A S \in SUBSET Trades : OfLots(d, S, b)
  <1> DEFINE G == {S \in SUBSET Trades : OfLots(d, S, b)}
  <1>1. {} \in G
    <2>1. \A l \in Lots : Of({}, l) = {}
      BY DEF Of
    <2>2. QED BY <2>1, FullOfNone DEF OfLots
  <1>2. \A S \in SUBSET Trades : S # {} /\ (\A x \in S : S \ {x} \in G) => S \in G
    <2> SUFFICES ASSUME NEW S \in SUBSET Trades, S # {}, \A x \in S : S \ {x} \in G
                 PROVE  OfLots(d, S, b)
      OBVIOUS
    <2>0. PICK x \in S : \A y \in S \ {x} : ReplayedBefore(d, y, x)
      BY LastIsLast
    <2>1. PICK m : m = Trade[x].lot
      OBVIOUS
    <2>2. PICK R : R = S \ {x}
      OBVIOUS
    <2> DEFINE f == Full(d, R, b)
               g == Full(d, S, b)
               p == Full(d, Of(R, m), b)
               q == Full(d, Of(S, m), b)
    <2>3. /\ f \in Accs /\ g \in Accs /\ m \in Lots
          /\ \A l \in Lots \ {m} : g.lots[l] = f.lots[l]
          /\ g.ok <=> f.ok /\ Takes(f.lots[m], x)
          /\ g.lots[m] = IF Takes(f.lots[m], x) THEN After(f.lots[m], x, b) ELSE f.lots[m]
      <3>1. Grows(f, x, b, g)
        BY <2>0, <2>2, FullStep
      <3>2. QED BY <2>1, <3>1 DEF Grows
    <2>4. /\ p \in Accs /\ q \in Accs
          /\ q.ok <=> p.ok /\ Takes(p.lots[m], x)
          /\ q.lots[m] = IF Takes(p.lots[m], x) THEN After(p.lots[m], x, b) ELSE p.lots[m]
      <3>1. PICK M : M = Of(S, m)
        OBVIOUS
      <3>2. M \in SUBSET Trades /\ x \in M /\ M \ {x} = Of(R, m) /\ \A y \in M \ {x} : ReplayedBefore(d, y, x)
        BY <2>0, <2>1, <2>2, <3>1 DEF Of
      <3>3. Grows(Full(d, M \ {x}, b), x, b, Full(d, M, b))
        BY <3>2, FullStep
      <3>4. Grows(p, x, b, q)
        BY <3>1, <3>2, <3>3
      <3>5. QED BY <2>1, <3>4 DEF Grows
    <2>5. \A l \in Lots \ {m} : Of(S, l) = Of(R, l)
      BY <2>1, <2>2 DEF Of
    <2>6. /\ \A l \in Lots : f.lots[l] = Full(d, Of(R, l), b).lots[l]
          /\ f.ok <=> \A l \in Lots : Full(d, Of(R, l), b).ok
      BY <2>0, <2>2 DEF OfLots
    <2> HIDE DEF f, g, p, q
    <2>7. f.lots[m] = p.lots[m]
      BY <2>3, <2>6 DEF p
    <2>8. \A l \in Lots : g.lots[l] = Full(d, Of(S, l), b).lots[l]
      <3> SUFFICES ASSUME NEW l \in Lots PROVE g.lots[l] = Full(d, Of(S, l), b).lots[l]
        OBVIOUS
      <3>1. CASE l = m
        BY <2>3, <2>4, <2>7, <3>1 DEF q
      <3>2. CASE l # m
        BY <2>3, <2>5, <2>6, <3>2
      <3>3. QED BY <3>1, <3>2
    <2>9. g.ok <=> \A l \in Lots : Full(d, Of(S, l), b).ok
      <3>1. g.ok <=> (\A l \in Lots : Full(d, Of(R, l), b).ok) /\ Takes(p.lots[m], x)
        BY <2>3, <2>6, <2>7
      <3>2. (\A l \in Lots : Full(d, Of(R, l), b).ok)
              <=> p.ok /\ \A l \in Lots \ {m} : Full(d, Of(R, l), b).ok
        BY <2>3 DEF p
      <3>3. (\A l \in Lots : Full(d, Of(S, l), b).ok)
              <=> q.ok /\ \A l \in Lots \ {m} : Full(d, Of(R, l), b).ok
        BY <2>3, <2>5 DEF q
      <3>4. QED BY <2>4, <3>1, <3>2, <3>3
    <2>10. QED BY <2>8, <2>9 DEF OfLots, g
  <1>3. \A S \in SUBSET Trades : S \in G
    <2>1. IsFiniteSet(Trades)
      BY TradesAreFinite
    <2> HIDE DEF G
    <2>2. QED BY <1>1, <1>2, <2>1, SetsByInduction
  <1>4. QED BY <1>3

\* Two builds compute the same lots, but for their signature.
Resigned(v, w, b, c) ==
    \/ v = NoLot /\ w = NoLot
    \/ v.open # 0 /\ v.by = {b} /\ w = [v EXCEPT !.by = {c}]

LEMMA AfterResigned ==
    ASSUME NEW v \in LotRecords, NEW w \in LotRecords, NEW b \in Builds, NEW c \in Builds, NEW e \in Trades,
           Resigned(v, w, b, c)
    PROVE  /\ Takes(v, e) <=> Takes(w, e)
           /\ Takes(v, e) => Resigned(After(v, e, b), After(w, e, c), b, c)
  <1>1. v = [open |-> v.open, left |-> v.left, closes |-> v.closes, adjust |-> v.adjust, by |-> v.by]
    BY DEF LotRecords
  <1>2. e # 0
    BY TradesAreFinite
  <1>3. CASE v = NoLot /\ w = NoLot
    <2>1. Takes(v, e) => After(v, e, b) = [NoLot EXCEPT !.open = e, !.left = Trade[e].size, !.by = {b}]
                         /\ After(w, e, c) = [NoLot EXCEPT !.open = e, !.left = Trade[e].size, !.by = {c}]
      <3>1. Takes(v, e) => Trade[e].kind = "open"
        BY <1>3, EventsAreRecords DEF Takes, NoLot
      <3>2. QED BY <1>3, <3>1 DEF After
    <2>2. Takes(v, e) <=> Takes(w, e)
      BY <1>3
    <2>3. ASSUME Takes(v, e) PROVE Resigned(After(v, e, b), After(w, e, c), b, c)
      <3> DEFINE y == [NoLot EXCEPT !.open = e, !.left = Trade[e].size, !.by = {b}]
                 z == [NoLot EXCEPT !.open = e, !.left = Trade[e].size, !.by = {c}]
      <3>1. y.open = e /\ y.by = {b} /\ z = [y EXCEPT !.by = {c}]
        BY DEF NoLot
      <3>2. After(v, e, b) = y /\ After(w, e, c) = z
        BY <2>1, <2>3
      <3> HIDE DEF y, z
      <3>3. QED BY <1>2, <3>1, <3>2 DEF Resigned
    <2>4. QED BY <2>2, <2>3
  <1>4. CASE v.open # 0 /\ v.by = {b} /\ w = [v EXCEPT !.by = {c}]
    <2>1. /\ v # NoLot /\ w # NoLot /\ w.left = v.left /\ w.open = v.open /\ w.closes = v.closes
          /\ w.adjust = v.adjust /\ w.by = {c}
      BY <1>1, <1>4 DEF NoLot
    <2>2. Takes(v, e) <=> Takes(w, e)
      BY <2>1 DEF Takes
    <2>3. ASSUME Takes(v, e) PROVE Resigned(After(v, e, b), After(w, e, c), b, c)
      <3>1. Trade[e].kind # "open"
        BY <2>1, <2>3 DEF Takes
      <3>2. CASE Trade[e].kind = "close"
        <4>1. After(v, e, b) = [v EXCEPT !.left = @ - Trade[e].size, !.closes = Append(@, e), !.by = @ \cup {b}]
              /\ After(w, e, c) = [w EXCEPT !.left = @ - Trade[e].size, !.closes = Append(@, e), !.by = @ \cup {c}]
          BY <3>2 DEF After
        <4>2. PICK n, h : n = v.left - Trade[e].size /\ h = Append(v.closes, e)
          OBVIOUS
        <4>3. /\ After(v, e, b) = [open |-> v.open, left |-> n, closes |-> h, adjust |-> v.adjust, by |-> {b}]
              /\ After(w, e, c) = [open |-> v.open, left |-> n, closes |-> h, adjust |-> v.adjust, by |-> {c}]
          BY <1>1, <1>4, <2>1, <4>1, <4>2
        <4>4. QED BY <1>4, <4>3 DEF Resigned
      <3>3. CASE Trade[e].kind # "close"
        <4>1. After(v, e, b) = [v EXCEPT !.adjust = e, !.by = @ \cup {b}]
              /\ After(w, e, c) = [w EXCEPT !.adjust = e, !.by = @ \cup {c}]
          BY <3>1, <3>3 DEF After
        <4>2. /\ After(v, e, b) = [open |-> v.open, left |-> v.left, closes |-> v.closes, adjust |-> e, by |-> {b}]
              /\ After(w, e, c) = [open |-> v.open, left |-> v.left, closes |-> v.closes, adjust |-> e, by |-> {c}]
          BY <1>1, <1>4, <2>1, <4>1
        <4>3. QED BY <1>4, <4>2 DEF Resigned
      <3>4. QED BY <3>2, <3>3
    <2>4. QED BY <2>2, <2>3
  <1>5. QED BY <1>3, <1>4 DEF Resigned

BuildsAgree(d, S, b, c) ==
    /\ Full(d, S, b).ok <=> Full(d, S, c).ok
    /\ \A l \in Lots : Resigned(Full(d, S, b).lots[l], Full(d, S, c).lots[l], b, c)

LEMMA ReplaysDifferBySignature ==
    ASSUME NEW d, Timed(d), NEW b \in Builds, NEW c \in Builds
    PROVE  \A S \in SUBSET Trades : BuildsAgree(d, S, b, c)
  <1> DEFINE G == {S \in SUBSET Trades : BuildsAgree(d, S, b, c)}
  <1>1. {} \in G
    BY FullOfNone DEF BuildsAgree, Resigned, NoLots
  <1>2. \A S \in SUBSET Trades : S # {} /\ (\A x \in S : S \ {x} \in G) => S \in G
    <2> SUFFICES ASSUME NEW S \in SUBSET Trades, S # {}, \A x \in S : S \ {x} \in G
                 PROVE  BuildsAgree(d, S, b, c)
      OBVIOUS
    <2>0. PICK x \in S : \A y \in S \ {x} : ReplayedBefore(d, y, x)
      BY LastIsLast
    <2> DEFINE m == Trade[x].lot
               f == Full(d, S \ {x}, b)
               g == Full(d, S, b)
               p == Full(d, S \ {x}, c)
               q == Full(d, S, c)
    <2>1. Grows(f, x, b, g) /\ Grows(p, x, c, q)
      BY <2>0, FullStep
    <2>2. BuildsAgree(d, S \ {x}, b, c)
      BY <2>0
    <2>3. /\ f.lots[m] \in LotRecords /\ p.lots[m] \in LotRecords
          /\ Resigned(f.lots[m], p.lots[m], b, c) /\ (f.ok <=> p.ok)
          /\ \A l \in Lots \ {m} : Resigned(g.lots[l], q.lots[l], b, c)
      <3> HIDE DEF f, g, p, q, m
      <3>1. m \in Lots
        BY <2>0, EventsAreRecords DEF m
      <3>2. (f.ok <=> p.ok) /\ \A l \in Lots : Resigned(f.lots[l], p.lots[l], b, c)
        BY <2>2 DEF BuildsAgree, f, p
      <3>3. f.lots[m] \in LotRecords /\ p.lots[m] \in LotRecords
        BY <2>1, <3>1 DEF Grows, Accs
      <3>4. QED BY <2>1, <3>1, <3>2, <3>3 DEF Grows, m
    <2>4. /\ g.ok <=> f.ok /\ Takes(f.lots[m], x)
          /\ q.ok <=> p.ok /\ Takes(p.lots[m], x)
          /\ g.lots[m] = IF Takes(f.lots[m], x) THEN After(f.lots[m], x, b) ELSE f.lots[m]
          /\ q.lots[m] = IF Takes(p.lots[m], x) THEN After(p.lots[m], x, c) ELSE p.lots[m]
      <3> HIDE DEF f, g, p, q
      <3>1. QED BY <2>1 DEF Grows
    <2> HIDE DEF f, g, p, q, m
    <2>5. /\ Takes(f.lots[m], x) <=> Takes(p.lots[m], x)
          /\ Takes(f.lots[m], x) => Resigned(After(f.lots[m], x, b), After(p.lots[m], x, c), b, c)
      BY <2>0, <2>3, AfterResigned
    <2>6. Resigned(g.lots[m], q.lots[m], b, c)
      BY <2>3, <2>4, <2>5
    <2>7. QED BY <2>3, <2>4, <2>5, <2>6 DEF BuildsAgree, g, q
  <1>3. \A S \in SUBSET Trades : S \in G
    <2>1. IsFiniteSet(Trades)
      BY TradesAreFinite
    <2> HIDE DEF G
    <2>2. QED BY <1>1, <1>2, <2>1, SetsByInduction
  <1>4. QED BY <1>3

(* A tail after a prefix.                                                  *)

Shown(v) == IF v.left > 0 THEN v ELSE NoLot

\* The tail appends, lot by lot, to the prefix and opens no lot again.
Appends(d, P, T) ==
    /\ P \cap T = {} /\ \A e \in T : Trade[e].kind \in {"open", "close"}
    /\ \A x \in P, y \in T : Trade[x].lot = Trade[y].lot => Trade[y].kind # "open" /\ ReplayedBefore(d, x, y)
    /\ \A x, y \in T : Trade[x].kind = "open" /\ Trade[y].kind = "open" /\ Trade[x].lot = Trade[y].lot => x = y

\* Resumed from the open lots of the prefix, the tail s gives the lots of both.
Continues(d, P, s, b, t) ==
    t.ok => \A l \in Lots :
      LET f == Full(d, Of(P, l) \cup Of(s, l), b)
      IN /\ f.ok /\ t.lots[l] = Shown(f.lots[l])
         /\ t.touched[l] = IF Of(s, l) = {} THEN NoLot ELSE f.lots[l]

LEMMA ShownTakes ==
    ASSUME NEW v \in LotRecords, NEW e \in Trades, NEW b,
           Trade[e].kind \in {"open", "close"}, Takes(Shown(v), e), Trade[e].kind = "open" => v = NoLot
    PROVE  Takes(v, e) /\ After(Shown(v), e, b) = After(v, e, b)
  <1>1. v.left \in Nat /\ (Trade[e].kind = "close" => Trade[e].size \in Nat /\ Trade[e].size > 0)
    BY EventsAreRecords DEF LotRecords
  <1>2. CASE v.left > 0
    BY <1>2 DEF Shown
  <1>3. CASE v = NoLot
    BY <1>3 DEF Shown, NoLot
  <1>4. CASE v # NoLot /\ v.left = 0
    <2>1. Shown(v) = NoLot /\ Trade[e].kind = "close"
      BY <1>4 DEF Shown
    <2>2. Trade[e].size <= 0
      BY <2>1 DEF Takes, NoLot
    <2>3. QED BY <1>1, <2>1, <2>2
  <1>5. QED BY <1>1, <1>2, <1>3, <1>4

LEMMA TailContinues ==
    ASSUME NEW d, Timed(d), NEW b \in Builds, NEW P \in SUBSET Trades, NEW T \in SUBSET Trades,
           Appends(d, P, T), Full(d, P, b).ok,
           NEW state \in [Lots -> LotRecords], \A l \in Lots : state[l] = Shown(Full(d, P, b).lots[l])
    PROVE  \A s \in SUBSET T : Continues(d, P, s, b, Replayed(d, state, s, b, TRUE))
  <1> DEFINE G == {s \in SUBSET T : Continues(d, P, s, b, Replayed(d, state, s, b, TRUE))}
  <1>1. {} \in G
    <2>1. /\ Replayed(d, state, {}, b, TRUE).lots = state
          /\ Replayed(d, state, {}, b, TRUE).touched = NoLots
      <3>1. Replayed(d, state, {}, b, TRUE) = Fresh(state)
        BY ReplayOfNone
      <3>2. Fresh(state).lots = state /\ Fresh(state).touched = NoLots
        BY DEF Fresh
      <3>3. QED BY <3>1, <3>2
    <2>2. OfLots(d, P, b)
      BY LotsAreTheirOwn
    <2>3. \A l \in Lots : Of({}, l) = {} /\ Of(P, l) \cup {} = Of(P, l)
      BY DEF Of
    <2>4. ASSUME NEW l \in Lots
          PROVE  /\ Full(d, Of(P, l) \cup Of({}, l), b).ok
                 /\ state[l] = Shown(Full(d, Of(P, l) \cup Of({}, l), b).lots[l])
                 /\ NoLots[l] = NoLot
      BY <2>2, <2>3 DEF OfLots, NoLots
    <2>5. Continues(d, P, {}, b, Replayed(d, state, {}, b, TRUE))
      BY <2>1, <2>3, <2>4 DEF Continues
    <2>6. QED BY <2>5
  <1>2. \A s \in SUBSET T : s # {} /\ (\A x \in s : s \ {x} \in G) => s \in G
    <2> SUFFICES ASSUME NEW s \in SUBSET T, s # {}, \A x \in s : s \ {x} \in G,
                        Replayed(d, state, s, b, TRUE).ok
                 PROVE  Continues(d, P, s, b, Replayed(d, state, s, b, TRUE))
      BY DEF Continues
    <2>1. PICK x \in s : \A y \in s \ {x} : ReplayedBefore(d, y, x)
      BY LastIsLast
    <2>2. PICK r : r = s \ {x}
      OBVIOUS
    <2>3. PICK m : m = Trade[x].lot
      OBVIOUS
    <2> DEFINE t == Replayed(d, state, r, b, TRUE)
               u == Replayed(d, state, s, b, TRUE)
               f == Full(d, Of(P, m) \cup Of(r, m), b)
               g == Full(d, Of(P, m) \cup Of(s, m), b)
    <2>4. /\ t \in Accs /\ u \in Accs /\ m \in Lots /\ t.ok /\ Takes(t.lots[m], x)
          /\ \A l \in Lots \ {m} : u.lots[l] = t.lots[l] /\ u.touched[l] = t.touched[l]
          /\ u.lots[m] = Shown(After(t.lots[m], x, b)) /\ u.touched[m] = After(t.lots[m], x, b)
      <3>1. t \in Accs /\ u \in Accs /\ Applies(t, x, b, TRUE, u)
        <4>1. s \in SUBSET Trades
          OBVIOUS
        <4>2. QED BY <2>1, <2>2, <4>1, ReplayStep
      <3>2. m \in Lots
        BY <2>1, <2>3, EventsAreRecords
      <3>3. u.ok
        OBVIOUS
      <3> HIDE DEF t, u
      <3>4. t.ok /\ Takes(t.lots[m], x)
        BY <2>3, <3>1, <3>3 DEF Applies
      <3>5. After(t.lots[m], x, b) \in LotRecords
        BY <3>1, <3>2, <3>4, <2>1, AfterIsALot DEF Accs
      <3>6. Shown(After(t.lots[m], x, b))
              = IF After(t.lots[m], x, b).left = 0 THEN NoLot ELSE After(t.lots[m], x, b)
        BY <3>5 DEF Shown, LotRecords
      <3>7. QED BY <2>3, <3>1, <3>2, <3>4, <3>6 DEF Applies
    <2>5. Continues(d, P, r, b, t)
      BY <2>1, <2>2
    <2>6. f.ok /\ t.lots[m] = Shown(f.lots[m])
      BY <2>4, <2>5 DEF Continues
    <2>7. Grows(f, x, b, g)
      <3>1. PICK M : M = Of(P, m) \cup Of(s, m)
        OBVIOUS
      <3>2. x \notin P
        BY <2>1 DEF Appends
      <3>3. M \in SUBSET Trades /\ x \in M /\ M \ {x} = Of(P, m) \cup Of(r, m)
        BY <2>1, <2>2, <2>3, <3>1, <3>2 DEF Of
      <3>4. \A y \in M \ {x} : ReplayedBefore(d, y, x)
        BY <2>1, <2>3, <3>1 DEF Appends, Of
      <3>5. Grows(Full(d, M \ {x}, b), x, b, Full(d, M, b))
        BY <3>3, <3>4, FullStep
      <3>6. QED BY <3>1, <3>3, <3>5
    <2>8. f.lots[m] \in LotRecords
      <3> HIDE DEF f, g
      <3>1. QED BY <2>4, <2>7 DEF Grows, Accs
    <2>9. ASSUME Trade[x].kind = "open" PROVE f.lots[m] = NoLot
      <3>1. PICK M : M = Of(P, m) \cup Of(r, m)
        OBVIOUS
      <3>2. Of(M, m) = M /\ M \in SUBSET Trades
        <4>1. r \subseteq Trades /\ P \subseteq Trades
          BY <2>2
        <4>2. QED BY <3>1, <4>1 DEF Of
      <3>3. \A y \in M : Trade[y].kind # "open"
        BY <2>1, <2>2, <2>3, <2>9, <3>1 DEF Appends, Of
      <3>4. Born(M, b, Full(d, M, b))
        BY <3>2, LotsAreBorn
      <3>5. QED BY <2>4, <2>6, <3>1, <3>2, <3>3, <3>4 DEF Born
    <2>10. Takes(f.lots[m], x) /\ After(t.lots[m], x, b) = After(f.lots[m], x, b)
      <3>1. Trade[x].kind \in {"open", "close"} /\ x \in Trades
        BY <2>1 DEF Appends
      <3>2. Takes(Shown(f.lots[m]), x)
        BY <2>4, <2>6
      <3> HIDE DEF f, t
      <3>3. QED BY <2>6, <2>8, <2>9, <3>1, <3>2, ShownTakes
    <2>11. g.ok /\ g.lots[m] = After(f.lots[m], x, b)
      <3> HIDE DEF f, g
      <3>1. QED BY <2>3, <2>6, <2>7, <2>10 DEF Grows
    <2>12. ASSUME NEW l \in Lots
           PROVE  /\ Full(d, Of(P, l) \cup Of(s, l), b).ok
                  /\ u.lots[l] = Shown(Full(d, Of(P, l) \cup Of(s, l), b).lots[l])
                  /\ u.touched[l] = IF Of(s, l) = {} THEN NoLot ELSE Full(d, Of(P, l) \cup Of(s, l), b).lots[l]
      <3>1. CASE l = m
        <4>1. Of(s, m) # {}
          BY <2>1, <2>3 DEF Of
        <4> HIDE DEF t, u, f
        <4>2. u.lots[m] = Shown(g.lots[m]) /\ u.touched[m] = g.lots[m] /\ g.ok
          BY <2>4, <2>10, <2>11
        <4>3. QED BY <3>1, <4>1, <4>2
      <3>2. CASE l # m
        <4>1. Of(s, l) = Of(r, l)
          BY <2>2, <2>3, <3>2 DEF Of
        <4> HIDE DEF t, u, f, g
        <4>2. u.lots[l] = t.lots[l] /\ u.touched[l] = t.touched[l]
          BY <2>4, <3>2
        <4>3. QED BY <2>4, <2>5, <4>1, <4>2 DEF Continues
      <3>3. QED BY <3>1, <3>2
    <2> HIDE DEF u
    <2>13. Continues(d, P, s, b, u)
      BY <2>12 DEF Continues
    <2>14. QED BY <2>13 DEF u
  <1>3. \A s \in SUBSET T : s \in G
    <2>1. IsFiniteSet(T)
      BY TradesAreFinite, FS_Subset
    <2> HIDE DEF G
    <2>2. QED BY <1>1, <1>2, <2>1, SetsByInduction
  <1>4. QED BY <1>3

\* What tail t over events T owes f, the full replay.
TailGives(t, T, f) ==
    /\ f.ok
    /\ \A l \in Lots : /\ t.lots[l] = Shown(f.lots[l])
                       /\ t.touched[l] = IF Of(T, l) = {} THEN NoLot ELSE f.lots[l]

\* A tail that succeeds gives the open lots of a full replay of both, and of the
\* lots it touches what a full replay makes of them.
LEMMA TailGivesFull ==
    ASSUME NEW d, Timed(d), NEW b \in Builds, NEW P \in SUBSET Trades, NEW T \in SUBSET Trades,
           Appends(d, P, T), Full(d, P, b).ok,
           NEW state \in [Lots -> LotRecords], \A l \in Lots : state[l] = Shown(Full(d, P, b).lots[l]),
           Replayed(d, state, T, b, TRUE).ok
    PROVE  TailGives(Replayed(d, state, T, b, TRUE), T, Full(d, P \cup T, b))
  <1> DEFINE t == Replayed(d, state, T, b, TRUE)
  <1>1. Continues(d, P, T, b, t)
    BY TailContinues
  <1>2. OfLots(d, P \cup T, b)
    <2>1. P \cup T \in SUBSET Trades
      OBVIOUS
    <2>2. QED BY <2>1, LotsAreTheirOwn
  <1>3. \A l \in Lots : Of(P \cup T, l) = Of(P, l) \cup Of(T, l)
    BY DEF Of
  <1> HIDE DEF t
  <1>4. \A l \in Lots : /\ Full(d, Of(P \cup T, l), b).ok
                        /\ t.lots[l] = Shown(Full(d, Of(P \cup T, l), b).lots[l])
                        /\ t.touched[l] = IF Of(T, l) = {} THEN NoLot ELSE Full(d, Of(P \cup T, l), b).lots[l]
    BY <1>1, <1>3 DEF Continues, t
  <1>5. QED BY <1>2, <1>4 DEF OfLots, TailGives, t

-----------------------------------------------------------------------------
(* What a full replay depends on.                                          *)

LEMMA EffectiveIsSmall ==
    ASSUME NEW d PROVE Effective(d) \in SUBSET Trades /\ Stored(d) \in SUBSET Trades
  BY DEF Effective, Stored

LEMMA FullReplayIs ==
    ASSUME NEW d, NEW b
    PROVE  /\ FullReplay(d, b).lots = Full(d, Effective(d), b).lots
           /\ FullReplay(d, b).ok <=> Full(d, Effective(d), b).ok /\ VoidsFit(d)
  BY DEF FullReplay, Full, NoLots

LEMMA FullReplayIsTyped ==
    ASSUME NEW d, Timed(d), NEW b \in Builds PROVE FullReplay(d, b).lots \in [Lots -> LotRecords]
  <1>1. Full(d, Effective(d), b) \in Accs
    BY EffectiveIsSmall, NoLotIsALot, ReplayedIsTyped DEF Full
  <1>2. QED BY <1>1, FullReplayIs DEF Accs

\* Only the times of the stored events count.
LEMMA TimesSuffice ==
    ASSUME NEW d, Timed(d), NEW c, c.stored = d.stored, NEW b
    PROVE  /\ FullReplay(c, b) = FullReplay(d, b)
           /\ Effective(c) = Effective(d) /\ Stored(c) = Stored(d)
  <1>1. /\ Stored(c) = Stored(d) /\ Voids(c) = Voids(d)
    BY DEF Stored, Voids
  <1>2. Effective(c) = Effective(d) /\ (VoidsFit(c) <=> VoidsFit(d))
    BY <1>1 DEF Effective, VoidsFit
  <1>3. Timed(c)
    BY DEF Timed
  <1>4. Replayed(c, NoLots, Effective(c), b, FALSE) = Replayed(d, NoLots, Effective(d), b, FALSE)
    <2>1. Effective(d) \in SUBSET Trades /\ \A e \in Effective(d) : c.stored[e] = d.stored[e]
      BY EffectiveIsSmall
    <2>2. PICK D, tail : D = Effective(d) /\ tail = FALSE
      OBVIOUS
    <2>3. D \in SUBSET Trades /\ \A e \in D : c.stored[e] = d.stored[e]
      BY <2>1, <2>2
    <2>4. Replayed(c, NoLots, D, b, tail) = Replayed(d, NoLots, D, b, tail)
      BY <1>3, <2>3, ReplaysAgree
    <2>5. QED BY <1>2, <2>2, <2>4
  <1>5. QED BY <1>1, <1>2, <1>4 DEF FullReplay, NoLots

\* Which build replays shows in the signature alone.
LEMMA BuildsDiffer ==
    ASSUME NEW d, Timed(d), NEW b \in Builds, NEW c \in Builds
    PROVE  /\ FullReplay(d, b).ok <=> FullReplay(d, c).ok
           /\ \A l \in Lots : Resigned(FullReplay(d, b).lots[l], FullReplay(d, c).lots[l], b, c)
  <1>1. BuildsAgree(d, Effective(d), b, c)
    BY EffectiveIsSmall, ReplaysDifferBySignature
  <1>2. QED BY <1>1, FullReplayIs DEF BuildsAgree

LEMMA OpenLotsAreShown ==
    ASSUME NEW lots PROVE OpenLots(lots) = [l \in Lots |-> Shown(lots[l])]
  BY DEF OpenLots, Shown

LEMMA ShownIsALot == ASSUME NEW v \in LotRecords PROVE Shown(v) \in LotRecords
  BY NoLotIsALot DEF Shown

(* A database that holds what another holds and events that sort after it.  *)

New(p, d) == Stored(d) \ Stored(p)
Extends(p, d) ==
    /\ Timed(p) /\ Timed(d) /\ \A x \in Stored(p) : d.stored[x] = p.stored[x]
    /\ \A x \in Stored(p), y \in New(p, d) :
         d.stored[x] < d.stored[y] \/ (d.stored[x] = d.stored[y] /\ x < y)
    /\ \A x \in New(p, d) : Trade[x].kind \in {"open", "close"}

\* No event of T opens a lot that had an opening, in E or in T.
OpensOnce(E, T) ==
    \A x \in T : Trade[x].kind = "open" =>
      /\ \A y \in E : Trade[y].lot # Trade[x].lot
      /\ \A y \in T : Trade[y].kind = "open" /\ Trade[y].lot = Trade[x].lot => y = x

LEMMA ExtensionsKeep ==
    ASSUME NEW p, NEW d, Extends(p, d), VoidsFit(p)
    PROVE  /\ VoidsFit(d) /\ Effective(d) = Effective(p) \cup New(p, d)
           /\ Effective(p) \cap New(p, d) = {}
           /\ Stored(p) \subseteq Stored(d)
           /\ \A b : Full(d, Effective(p), b) = Full(p, Effective(p), b)
  <1>1. Stored(p) \subseteq Stored(d) /\ Stored(p) \subseteq Trades
    BY DEF Stored, Extends
  <1>2. Voids(d) = Voids(p)
    BY <1>1 DEF Voids, Extends, New
  <1>3. \A v \in Voids(p) : v \in Stored(p) /\ Trade[v].target \in Stored(p) \ Voids(p)
                            /\ p.stored[Trade[v].target] <= p.stored[v]
    BY DEF VoidsFit, Voids
  <1>4. VoidsFit(d)
    BY <1>1, <1>2, <1>3 DEF VoidsFit, Extends
  <1>5. Effective(d) = Effective(p) \cup New(p, d) /\ Effective(p) \cap New(p, d) = {}
    <2>1. \A x \in New(p, d) : x \notin Voids(p) /\ \A v \in Voids(p) : Trade[v].target # x
      BY <1>2, <1>3 DEF New, Voids
    <2>2. New(p, d) \cap Stored(p) = {} /\ New(p, d) \cup Stored(p) = Stored(d)
      BY <1>1 DEF New
    <2>3. QED BY <1>2, <2>1, <2>2 DEF Effective
  <1>6. ASSUME NEW b PROVE Full(d, Effective(p), b) = Full(p, Effective(p), b)
    <2>1. PICK D, tail : D = Effective(p) /\ tail = FALSE
      OBVIOUS
    <2>2. D \in SUBSET Trades /\ \A e \in D : d.stored[e] = p.stored[e]
      BY <2>1 DEF Effective, Extends, Stored
    <2>3. Replayed(d, NoLots, D, b, tail) = Replayed(p, NoLots, D, b, tail)
      BY <2>2, ReplaysAgree DEF Extends
    <2>4. QED BY <2>1, <2>3 DEF Full
  <1>7. QED BY <1>1, <1>4, <1>5, <1>6

LEMMA OpeningsAppend ==
    ASSUME NEW p, NEW d, Extends(p, d), OpensOnce(Effective(p), New(p, d))
    PROVE  Appends(d, Effective(p), New(p, d))
  <1>1. Effective(p) \subseteq Stored(p) /\ Stored(p) \subseteq Trades /\ New(p, d) \subseteq Trades
        /\ Effective(p) \cap New(p, d) = {}
    BY DEF Effective, Stored, New
  <1>2. ASSUME NEW x \in Effective(p), NEW y \in New(p, d), Trade[x].lot = Trade[y].lot
        PROVE  Trade[y].kind # "open" /\ ReplayedBefore(d, x, y)
    <2>1. Trade[y].kind # "open"
      BY <1>2 DEF OpensOnce
    <2>2. d.stored[x] < d.stored[y] \/ (d.stored[x] = d.stored[y] /\ x < y)
      BY <1>1 DEF Extends
    <2>3. QED BY <2>1, <2>2 DEF ReplayedBefore
  <1>3. QED BY <1>1, <1>2 DEF Appends, OpensOnce, Extends

\* Of events S lot l was opened by one, and by no other.
Opened(f, S, l) ==
    LET o == f.lots[l].open
    IN  /\ f.lots[l] # NoLot /\ o \in S /\ Trade[o].lot = l /\ Trade[o].kind = "open"
        /\ \A y \in S : Trade[y].lot = l /\ Trade[y].kind = "open" => y = o

LEMMA OpenedOnce ==
    ASSUME NEW d, Timed(d), NEW b \in Builds, NEW S \in SUBSET Trades, Full(d, S, b).ok, NEW x \in S
    PROVE  Opened(Full(d, S, b), S, Trade[x].lot)
  <1> DEFINE l == Trade[x].lot
             f == Full(d, S, b)
  <1>1. Born(S, b, f) /\ l \in Lots /\ x \in Of(S, l)
    BY LotsAreBorn, EventsAreRecords DEF Of
  <1> HIDE DEF f, l
  <1>2. /\ f.lots[l].open \in Of(S, l) /\ Trade[f.lots[l].open].kind = "open"
        /\ \A y \in Of(S, l) : Trade[y].kind = "open" => y = f.lots[l].open
    BY <1>1 DEF Born, f
  <1>3. f.lots[l] # NoLot
    BY <1>2, TradesAreFinite DEF Of, NoLot
  <1>4. QED BY <1>2, <1>3 DEF Of, Opened, f, l

\* If what is stored replays, then no tail of it opened a lot again.
LEMMA ReplaysOpenOnce ==
    ASSUME NEW p, NEW d, Extends(p, d), NEW b \in Builds, FullReplay(p, b).ok, FullReplay(d, b).ok
    PROVE  OpensOnce(Effective(p), New(p, d))
  <1>1. /\ Effective(d) = Effective(p) \cup New(p, d) /\ Effective(p) \cap New(p, d) = {}
        /\ Full(p, Effective(p), b).ok /\ Full(d, Effective(d), b).ok
        /\ Timed(p) /\ Timed(d)
    <2>1. VoidsFit(p) /\ Full(p, Effective(p), b).ok /\ Full(d, Effective(d), b).ok
      BY FullReplayIs
    <2>2. QED BY <2>1, ExtensionsKeep DEF Extends
  <1>2. Effective(p) \in SUBSET Trades /\ Effective(d) \in SUBSET Trades
    BY EffectiveIsSmall
  <1>3. ASSUME NEW x \in New(p, d), Trade[x].kind = "open", NEW y \in Effective(p) \cup New(p, d),
               Trade[y].lot = Trade[x].lot, Trade[y].kind = "open"
        PROVE  y = x
    <2>1. x \in Effective(d) /\ y \in Effective(d)
      BY <1>1
    <2>2. \A z \in Effective(d) : Trade[z].lot = Trade[x].lot /\ Trade[z].kind = "open"
            => z = Full(d, Effective(d), b).lots[Trade[x].lot].open
      <3>1. Opened(Full(d, Effective(d), b), Effective(d), Trade[x].lot)
        BY <1>1, <1>2, <2>1, OpenedOnce
      <3>2. QED BY <3>1 DEF Opened
    <2>3. QED BY <1>3, <2>1, <2>2
  <1>4. ASSUME NEW x \in New(p, d), Trade[x].kind = "open", NEW y \in Effective(p)
        PROVE  Trade[y].lot # Trade[x].lot
    <2>1. PICK o \in Effective(p) : Trade[o].lot = Trade[y].lot /\ Trade[o].kind = "open"
      <3>1. Opened(Full(p, Effective(p), b), Effective(p), Trade[y].lot)
        BY <1>1, <1>2, OpenedOnce
      <3>2. QED BY <3>1 DEF Opened
    <2>2. QED BY <1>1, <1>3, <1>4, <2>1
  <1>5. QED BY <1>3, <1>4 DEF OpensOnce

\* A tail resumed from the open lots of what was stored before it.
LEMMA TailReplays ==
    ASSUME NEW p, NEW d, Extends(p, d), NEW b \in Builds, FullReplay(p, b).ok,
           OpensOnce(Effective(p), New(p, d)), NEW state, state = OpenLots(FullReplay(p, b).lots),
           TailReplay(d, state, New(p, d), b).ok
    PROVE  /\ FullReplay(d, b).ok
           /\ TailReplay(d, state, New(p, d), b).lots = OpenLots(FullReplay(d, b).lots)
           /\ \A l \in Lots : TailReplay(d, state, New(p, d), b).touched[l]
                = IF Of(New(p, d), l) = {} THEN NoLot ELSE FullReplay(d, b).lots[l]
  <1> DEFINE T == New(p, d)
             E == Effective(p)
             t == Replayed(d, state, T, b, TRUE)
  <1>1. Timed(p) /\ Timed(d) /\ E \in SUBSET Trades /\ T \in SUBSET Trades /\ Appends(d, E, T)
    BY EffectiveIsSmall, OpeningsAppend DEF Extends, New
  <1>2. /\ VoidsFit(d) /\ Effective(d) = E \cup T
        /\ Full(d, E, b).ok /\ Full(d, E, b).lots = FullReplay(p, b).lots
    BY FullReplayIs, ExtensionsKeep
  <1>3. state \in [Lots -> LotRecords] /\ \A l \in Lots : state[l] = Shown(Full(d, E, b).lots[l])
    <2>1. FullReplay(p, b).lots \in [Lots -> LotRecords]
      BY <1>1, FullReplayIsTyped
    <2>2. state = [l \in Lots |-> Shown(FullReplay(p, b).lots[l])]
      BY OpenLotsAreShown
    <2> HIDE DEF E
    <2>3. QED BY <1>2, <2>1, <2>2, ShownIsALot
  <1>4. t \in Accs
    BY <1>1, <1>3, ReplayedIsTyped
  <1>5. /\ TailReplay(d, state, T, b).lots = t.lots /\ TailReplay(d, state, T, b).touched = t.touched
        /\ t.ok
    <2> HIDE DEF T, t
    <2>1. TailReplay(d, state, T, b) = [t EXCEPT !.ok = @ /\ \A e \in T : Trade[e].kind \in {"open", "close"}]
      BY DEF TailReplay, t
    <2>2. t = [lots |-> t.lots, touched |-> t.touched, ok |-> t.ok] /\ t.ok \in BOOLEAN
      BY <1>4 DEF Accs
    <2>3. \A e \in T : Trade[e].kind \in {"open", "close"}
      BY DEF T, Extends
    <2>4. TailReplay(d, state, T, b).ok
      BY DEF T
    <2>5. QED BY <2>1, <2>2, <2>3, <2>4
  <1> HIDE DEF T, E
  <1>6. /\ Full(d, E \cup T, b).ok
        /\ \A l \in Lots :
             /\ t.lots[l] = Shown(Full(d, E \cup T, b).lots[l])
             /\ t.touched[l] = IF Of(T, l) = {} THEN NoLot ELSE Full(d, E \cup T, b).lots[l]
    <2>1. /\ Timed(d) /\ b \in Builds /\ E \in SUBSET Trades /\ T \in SUBSET Trades
          /\ Appends(d, E, T) /\ Full(d, E, b).ok /\ Replayed(d, state, T, b, TRUE).ok
          /\ state \in [Lots -> LotRecords] /\ \A l \in Lots : state[l] = Shown(Full(d, E, b).lots[l])
      BY <1>1, <1>2, <1>3, <1>5
    <2>2. TailGives(Replayed(d, state, T, b, TRUE), T, Full(d, E \cup T, b))
      BY <2>1, TailGivesFull, Zenon
    <2>3. QED BY <2>2 DEF TailGives, t
  <1> HIDE DEF t
  <1>7. FullReplay(d, b).ok /\ FullReplay(d, b).lots = Full(d, E \cup T, b).lots
    BY <1>2, <1>6, FullReplayIs
  <1>8. t.lots = OpenLots(FullReplay(d, b).lots)
    <2>1. t.lots \in [Lots -> LotRecords]
      BY <1>4 DEF Accs
    <2>2. OpenLots(FullReplay(d, b).lots) = [l \in Lots |-> Shown(FullReplay(d, b).lots[l])]
      BY OpenLotsAreShown
    <2>3. \A l \in Lots : t.lots[l] = Shown(FullReplay(d, b).lots[l])
      BY <1>6, <1>7
    <2>4. t.lots = [l \in Lots |-> t.lots[l]]
      BY <2>1
    <2>5. QED BY <2>2, <2>3, <2>4
  <1>9. QED BY <1>5, <1>6, <1>7, <1>8 DEF T

(* The proof's view of a database.                                         *)
Fields == {"stored", "gen", "mode", "build", "checkpoints", "head", "lots"}
Modes  == {"disabled", "enabled", "untrusted"}
Database(d) ==
    /\ d = [f \in Fields |-> d[f]]
    /\ d.stored \in [Trades -> 0..MaxTradeTime] /\ d.gen \in 0..MaxGeneration
    /\ d.head \in [Accounts -> Heads] /\ d.build \in Builds \cup {"none"}
    /\ d.lots \in [Lots -> LotRecords] /\ d.mode \in Modes

(* What the checkpoints owe.  Their ends tell them apart: two that stand for *)
(* as many events stand for the same ones.                                   *)
Checkpoints == [prefix : SUBSET Trades, gen : Nat, build : Builds, state : [Lots -> LotRecords],
                full : BOOLEAN, end : Nat \X Nat]
Past(d, k) == [d EXCEPT !.stored = [e \in Trades |-> IF e \in k.prefix THEN @[e] ELSE 0]]
StandsFor(d, k) == FullReplay(Past(d, k), k.build).ok
                   /\ k.state = OpenLots(FullReplay(Past(d, k), k.build).lots)
EndsAt(d, k) == IF k.prefix = {} THEN k.end = <<0, 0>>
                ELSE \E e \in k.prefix : k.end = <<d.stored[e], e>>
Holds(d, k) == HoldsPrefix(d, k) /\ EndsAt(d, k) /\ StandsFor(d, k)
CheckpointsHold(d) ==
    /\ IsFiniteSet(d.checkpoints) /\ d.checkpoints \subseteq Checkpoints
    /\ \A k \in d.checkpoints : Holds(d, k)
    /\ \A j, k \in d.checkpoints : j.build = k.build /\ (j # k => NewerThan(j, k) \/ NewerThan(k, j))

(* What the heads owe: no head, no lot; a trusted one is of one build.      *)
HeadHolds(d, l) ==
    LET h == d.head[LotAccount[l]]
    IN /\ h.status = "none" => d.lots[l] = NoLot
       /\ h.status = "trusted" /\ ~h.dirty => /\ h.build \in Builds
                                              /\ d.lots[l] = FullReplay(d, h.build).lots[l]
HeadsHold(d) == \A l \in Lots : HeadHolds(d, l)

AllRead(d) == \A a \in Accounts : d.head[a].status # "none" => Readable(d, a, d.build)
Published(d) == \E b \in Builds : FullReplay(d, b).ok /\ d.lots = FullReplay(d, b).lots

LedgerHolds(d) == Database(d) /\ CheckpointsHold(d) /\ Published(d) /\ HeadsHold(d)
ProjectionIInv == LedgerHolds(ledger) /\ AllReadable /\ blind \in BOOLEAN

SameSource(d, c) == c.stored = d.stored /\ c.gen = d.gen

-----------------------------------------------------------------------------
(* Checkpoints.                                                            *)

LEMMA DatabasesAreTimed ==
    ASSUME NEW d, Database(d) PROVE Timed(d) /\ d.gen \in Nat /\ MaxGeneration \in Nat
  <1>1. MaxTradeTime \in Nat /\ MaxGeneration \in Nat
    BY ProjectionAssumption
  <1>2. QED BY <1>1 DEF Database, Timed

LEMMA EventsAreFinite ==
    ASSUME NEW d, NEW k
    PROVE  /\ IsFiniteSet(Stored(d)) /\ IsFiniteSet(EventsAfter(d, k))
           /\ \A S \in SUBSET Trades : IsFiniteSet(S) /\ Cardinality(S) \in Nat
  BY TradesAreFinite, FS_Subset, FS_CardinalityType DEF Stored, EventsAfter

\* What is stored and counted decides alone whether a checkpoint holds.
LEMMA SourceSuffices ==
    ASSUME NEW d, Database(d), NEW c, Database(c), SameSource(d, c), NEW k, Holds(d, k)
    PROVE  Holds(c, k)
  <1>1. HoldsPrefix(c, k) /\ EndsAt(c, k)
    BY DEF Holds, HoldsPrefix, StrictAppendOf, EventsAfter, Upto, Stored, SameSource, EndsAt
  <1>2. Timed(d) /\ Timed(c) /\ c.stored = d.stored
    BY DatabasesAreTimed DEF SameSource
  <1>3. Past(d, k).stored = Past(c, k).stored /\ Timed(Past(d, k)) /\ Timed(Past(c, k))
    <2>1. d = [f \in Fields |-> d[f]] /\ c = [f \in Fields |-> c[f]]
      BY DEF Database
    <2> DEFINE s == [e \in Trades |-> IF e \in k.prefix THEN d.stored[e] ELSE 0]
    <2>2. Past(d, k) = [d EXCEPT !.stored = s] /\ Past(c, k) = [c EXCEPT !.stored = s]
      BY <1>2 DEF Past
    <2>3. s \in [Trades -> Nat]
      BY <1>2 DEF Timed
    <2> HIDE DEF s
    <2>4. QED BY <2>1, <2>2, <2>3 DEF Fields, Timed
  <1>4. FullReplay(Past(c, k), k.build) = FullReplay(Past(d, k), k.build)
    BY <1>3, TimesSuffice
  <1>5. QED BY <1>1, <1>4 DEF Holds, StandsFor

LEMMA PrefixesStay ==
    ASSUME NEW d, Database(d), CheckpointsHold(d), NEW c, Database(c), SameSource(d, c),
           c.checkpoints \subseteq d.checkpoints
    PROVE  CheckpointsHold(c)
  <1>1. IsFiniteSet(c.checkpoints)
    BY FS_Subset DEF CheckpointsHold
  <1>2. QED BY <1>1, SourceSuffices DEF CheckpointsHold

\* What a checkpoint stands for, and that the events after it extend it.
LEMMA PastIs ==
    ASSUME NEW d, Database(d), NEW k \in Checkpoints, HoldsPrefix(d, k)
    PROVE  /\ Past(d, k).stored = [e \in Trades |-> IF e \in k.prefix THEN d.stored[e] ELSE 0]
           /\ Timed(Past(d, k)) /\ Stored(Past(d, k)) = k.prefix /\ k.prefix \subseteq Stored(d)
           /\ New(Past(d, k), d) = EventsAfter(d, k)
  <1>1. Past(d, k).stored = [e \in Trades |-> IF e \in k.prefix THEN d.stored[e] ELSE 0]
    BY DEF Database, Past, Fields
  <1>2. Timed(Past(d, k))
    BY <1>1, DatabasesAreTimed DEF Timed
  <1>3. k.prefix = Upto(d, k.end) /\ k.prefix \subseteq Stored(d)
    BY DEF HoldsPrefix, Upto
  <1>4. Stored(Past(d, k)) = k.prefix
    BY <1>1, <1>3, DatabasesAreTimed DEF Stored, Timed
  <1>5. QED BY <1>1, <1>2, <1>3, <1>4 DEF New, EventsAfter

LEMMA TailsExtend ==
    ASSUME NEW d, Database(d), NEW k \in Checkpoints, HoldsPrefix(d, k),
           \A e \in EventsAfter(d, k) : Trade[e].kind \in {"open", "close"}
    PROVE  Extends(Past(d, k), d)
  <1>1. Timed(d) /\ Timed(Past(d, k))
    BY DatabasesAreTimed, PastIs
  <1>2. Stored(Past(d, k)) = k.prefix /\ New(Past(d, k), d) = EventsAfter(d, k)
        /\ k.prefix \subseteq Stored(d) /\ Stored(d) \subseteq Trades
    BY PastIs DEF Stored
  <1>3. \A x \in Stored(Past(d, k)) : d.stored[x] = Past(d, k).stored[x]
    <2>1. Past(d, k).stored = [e \in Trades |-> IF e \in k.prefix THEN d.stored[e] ELSE 0]
      BY PastIs
    <2>2. QED BY <1>2, <2>1
  <1>4. ASSUME NEW x \in k.prefix, NEW y \in EventsAfter(d, k)
        PROVE  d.stored[x] < d.stored[y] \/ (d.stored[x] = d.stored[y] /\ x < y)
    <2>1. /\ d.stored[x] \in Nat /\ d.stored[y] \in Nat /\ x \in Nat /\ y \in Nat
          /\ k.end[1] \in Nat /\ k.end[2] \in Nat
      BY <1>1, <1>2, TradesAreFinite DEF Timed, EventsAfter, Checkpoints
    <2>2. d.stored[x] < k.end[1] \/ (d.stored[x] = k.end[1] /\ x <= k.end[2])
      BY DEF HoldsPrefix, Upto
    <2>3. ~(d.stored[y] < k.end[1] \/ (d.stored[y] = k.end[1] /\ y <= k.end[2]))
      BY DEF EventsAfter, Upto
    <2>4. QED BY <2>1, <2>2, <2>3
  <1>5. QED BY <1>1, <1>2, <1>3, <1>4 DEF Extends

LEMMA NewestIsOneOfThem ==
    ASSUME NEW d, CheckpointsHold(d), d.checkpoints # {}
    PROVE  Newest(d.checkpoints) \in d.checkpoints
  <1> DEFINE ks == d.checkpoints
             R  == {p \in ks \X ks : NewerThan(p[2], p[1])}
  <1>1. \A j, k \in ks : <<j, k>> \in R <=> NewerThan(k, j)
    OBVIOUS
  <1> HIDE DEF R
  <1>2. \A k \in ks : Cardinality(k.prefix) \in Nat /\ k.gen \in Nat
    BY EventsAreFinite DEF CheckpointsHold, Checkpoints
  <1>3. \A i, j, k \in ks : NewerThan(k, j) /\ NewerThan(j, i) => NewerThan(k, i)
    BY <1>2 DEF NewerThan
  <1>4. /\ \A j, k \in ks : j # k => <<j, k>> \in R \/ <<k, j>> \in R
        /\ \A i, j, k \in ks : <<i, j>> \in R /\ <<j, k>> \in R => <<i, k>> \in R
    BY <1>1, <1>3 DEF CheckpointsHold
  <1>5. \E k \in ks : \A j \in ks \ {k} : <<j, k>> \in R
    <2>1. IsFiniteSet(ks) /\ ks # {}
      BY DEF CheckpointsHold
    <2> HIDE DEF ks
    <2>2. QED BY <1>4, <2>1, AFiniteSetHasALast
  <1>6. \E k \in ks : \A j \in ks \ {k} : NewerThan(k, j)
    BY <1>1, <1>5
  <1>7. QED BY <1>6 DEF Newest

-----------------------------------------------------------------------------
(* What a transaction stores.                                              *)

\* Database d is c, or c with events more or checkpoints less: the lots and
\* the trusted heads are the same, and no event before a checkpoint changed.
Stage(c, d) ==
    /\ Database(d) /\ CheckpointsHold(d) /\ d.lots = c.lots
    /\ \A a \in Accounts : /\ d.head[a].status = "none" => c.head[a].status = "none"
                           /\ d.head[a].status = "trusted" => d.head[a] = c.head[a]
    /\ d.checkpoints \subseteq c.checkpoints
    /\ d.checkpoints # {} => \A x \in Stored(c) : d.stored[x] = c.stored[x]

LEMMA NothingStored == ASSUME NEW d, LedgerHolds(d) PROVE Stage(d, d)
  BY DEF LedgerHolds, Stage

\* Without some of its checkpoints, and whatever its mode.
LEMMA CheckpointsRemoved ==
    ASSUME NEW c, NEW d, Stage(c, d), NEW ks, ks \subseteq d.checkpoints, NEW m \in Modes
    PROVE  Stage(c, [d EXCEPT !.checkpoints = ks, !.mode = m])
  <1> DEFINE e == [d EXCEPT !.checkpoints = ks, !.mode = m]
  <1>1. Database(d) /\ CheckpointsHold(d) /\ d.lots = c.lots
    BY DEF Stage
  <1>2. /\ e = [f \in Fields |-> e[f]] /\ e.stored = d.stored /\ e.gen = d.gen /\ e.build = d.build
        /\ e.head = d.head /\ e.lots = d.lots /\ e.mode = m /\ e.checkpoints = ks
    BY <1>1 DEF Database, Fields
  <1> HIDE DEF e
  <1>3. Database(e)
    BY <1>1, <1>2 DEF Database
  <1>4. CheckpointsHold(e)
    BY <1>1, <1>2, <1>3, PrefixesStay DEF SameSource
  <1>5. Stage(c, e)
    BY <1>1, <1>2, <1>3, <1>4 DEF Stage
  <1>6. QED BY <1>5 DEF e

LEMMA HeadsStay ==
    ASSUME NEW h \in [Accounts -> Heads], NEW a, NEW s \in {"none", "uninitialized", "trusted"}
    PROVE  [h EXCEPT ![a].status = s] \in [Accounts -> Heads]
  <1>1. \A x \in Heads : [x EXCEPT !.status = s] \in Heads
    BY DEF Heads
  <1>2. QED BY <1>1

LEMMA InsertedIs ==
    ASSUME NEW d, Database(d), NEW e \in Trades, NEW t \in 1..MaxTradeTime, d.gen < MaxGeneration
    PROVE  LET c == Inserted(d, e, t)
           IN  /\ Database(c)
               /\ c.stored = [d.stored EXCEPT ![e] = t] /\ c.gen = d.gen + 1 /\ c.lots = d.lots
               /\ c.checkpoints = {k \in d.checkpoints : Survives(k, e, t)}
               /\ \A a \in Accounts : /\ c.head[a].status = "none" => d.head[a].status = "none"
                                      /\ c.head[a].status = "trusted" => c.head[a] = d.head[a]
  <1> DEFINE s == [d EXCEPT !.stored[e] = t, !.gen = @ + 1,
                            !.checkpoints = {k \in @ : Survives(k, e, t)}]
             a == LotAccount[Trade[e].lot]
             c == WithHead(s, a)
  <1>1. /\ s = [f \in Fields |-> s[f]] /\ s.stored = [d.stored EXCEPT ![e] = t] /\ s.gen = d.gen + 1
        /\ s.build = d.build /\ s.head = d.head /\ s.lots = d.lots /\ s.mode = d.mode
        /\ s.checkpoints = {k \in d.checkpoints : Survives(k, e, t)}
    BY DEF Database, Fields
  <1> HIDE DEF s
  <1>2. /\ c = [f \in Fields |-> c[f]] /\ c.stored = s.stored /\ c.gen = s.gen /\ c.build = s.build
        /\ c.checkpoints = s.checkpoints /\ c.lots = s.lots /\ c.mode = s.mode
        /\ c.head = [s.head EXCEPT ![a].status = IF @ = "none" THEN "uninitialized" ELSE @]
    BY <1>1 DEF WithHead, Fields
  <1> HIDE DEF c
  <1> DEFINE st == IF s.head[a].status = "none" THEN "uninitialized" ELSE s.head[a].status
  <1>2a. s.head \in [Accounts -> Heads] /\ a \in Accounts
    BY <1>1, EventsAreRecords DEF Database, Accounts
  <1>2b. st \in {"uninitialized", "trusted"} /\ c.head = [s.head EXCEPT ![a].status = st]
    BY <1>2, <1>2a DEF Heads
  <1>3. c.head \in [Accounts -> Heads]
    <2> HIDE DEF st, a
    <2>1. [s.head EXCEPT ![a].status = st] \in [Accounts -> Heads]
      BY <1>2a, <1>2b, HeadsStay
    <2>2. QED BY <1>2b, <2>1
  <1>3a. ASSUME NEW x \in Accounts
         PROVE  /\ c.head[x].status = "none" => d.head[x].status = "none"
                /\ c.head[x].status = "trusted" => c.head[x] = d.head[x]
    <2>1. CASE x # a
      BY <1>1, <1>2a, <1>2b, <2>1
    <2>2. CASE x = a
      <3>1. c.head[a] = [s.head[a] EXCEPT !.status = st] /\ s.head[a] \in Heads
        BY <1>2a, <1>2b
      <3> HIDE DEF st, a
      <3>2. c.head[a].status = st /\ (st = s.head[a].status => c.head[a] = s.head[a])
        BY <3>1 DEF Heads
      <3>3. st # "none" /\ (st = "trusted" => st = s.head[a].status)
        BY <1>2b DEF st
      <3>4. QED BY <1>1, <2>2, <3>2, <3>3
    <2>3. QED BY <2>1, <2>2
  <1>4. c.stored \in [Trades -> 0..MaxTradeTime] /\ c.gen \in 0..MaxGeneration
    <2>1. d.stored \in [Trades -> 0..MaxTradeTime] /\ d.gen \in Nat /\ t \in 0..MaxTradeTime
          /\ MaxGeneration \in Nat
      BY ProjectionAssumption DEF Database
    <2>2. c.stored = [d.stored EXCEPT ![e] = t] /\ c.gen = d.gen + 1
      BY <1>1, <1>2
    <2>3. [d.stored EXCEPT ![e] = t] \in [Trades -> 0..MaxTradeTime]
      BY <2>1
    <2>4. QED BY <2>1, <2>2, <2>3
  <1>5. Database(c) /\ c.stored = [d.stored EXCEPT ![e] = t] /\ c.gen = d.gen + 1 /\ c.lots = d.lots
        /\ c.checkpoints = {k \in d.checkpoints : Survives(k, e, t)}
    BY <1>1, <1>2, <1>3, <1>4 DEF Database
  <1>6. c = Inserted(d, e, t)
    BY DEF c, s, Inserted
  <1>7. QED BY <1>3a, <1>5, <1>6

\* A new event sorts behind every checkpoint that survives it.
LEMMA SurvivorsHold ==
    ASSUME NEW d, Database(d), NEW e \in Trades, d.stored[e] = 0, NEW t \in 1..MaxTradeTime,
           d.gen < MaxGeneration, NEW k \in Checkpoints, Survives(k, e, t), Holds(d, k)
    PROVE  Holds(Inserted(d, e, t), k)
  <1> DEFINE c == Inserted(d, e, t)
  <1>1. /\ c.stored = [d.stored EXCEPT ![e] = t] /\ c.gen = d.gen + 1 /\ Database(c)
    BY InsertedIs
  <1>2. d.stored \in [Trades -> Nat] /\ t \in Nat /\ t > 0 /\ d.gen \in Nat /\ e \in Nat
    BY ProjectionAssumption, TradesAreFinite, DatabasesAreTimed DEF Timed
  <1>3. Stored(c) = Stored(d) \cup {e} /\ e \notin Stored(d)
    BY <1>1, <1>2 DEF Stored
  <1> HIDE DEF c
  <1>5. HoldsPrefix(d, k)
    BY DEF Holds
  <1>6. k.end[1] \in Nat /\ k.end[2] \in Nat /\ k.gen \in Nat /\ k.prefix \subseteq Trades
    BY DEF Checkpoints
  <1>7. ~(t < k.end[1] \/ (t = k.end[1] /\ e <= k.end[2]))
    BY <1>2, <1>6 DEF Survives
  <1>8. c.stored[e] = t /\ \A x \in Trades \ {e} : c.stored[x] = d.stored[x]
    BY <1>1, <1>2
  <1>9. e \notin Upto(c, k.end)
    BY <1>7, <1>8 DEF Upto
  <1>10. Upto(c, k.end) = Upto(d, k.end)
    BY <1>3, <1>8, <1>9 DEF Upto, Stored
  <1>11. EventsAfter(c, k) = EventsAfter(d, k) \cup {e} /\ e \notin EventsAfter(d, k)
    BY <1>3, <1>9, <1>10 DEF EventsAfter
  <1>12. Cardinality(EventsAfter(c, k)) = Cardinality(EventsAfter(d, k)) + 1
         /\ Cardinality(EventsAfter(d, k)) \in Nat
    BY <1>11, EventsAreFinite, FS_AddElement, FS_CardinalityType
  <1>13. d.gen = k.gen + Cardinality(EventsAfter(d, k))
    BY <1>5 DEF HoldsPrefix, StrictAppendOf
  <1>14. c.gen = k.gen + Cardinality(EventsAfter(c, k))
    BY <1>1, <1>2, <1>6, <1>12, <1>13
  <1>15. HoldsPrefix(c, k)
    BY <1>5, <1>10, <1>14 DEF HoldsPrefix, StrictAppendOf
  <1>16. e \notin k.prefix
    BY <1>3, <1>5 DEF HoldsPrefix, Upto
  <1>17. EndsAt(c, k)
    BY <1>6, <1>8, <1>16 DEF EndsAt, Holds
  <1>18. Past(c, k).stored = Past(d, k).stored
    <2>1. Past(c, k).stored = [x \in Trades |-> IF x \in k.prefix THEN c.stored[x] ELSE 0]
      BY <1>1 DEF Database, Past, Fields
    <2>2. Past(d, k).stored = [x \in Trades |-> IF x \in k.prefix THEN d.stored[x] ELSE 0]
      BY <1>5, PastIs
    <2>3. \A x \in k.prefix \cap Trades : c.stored[x] = d.stored[x]
      BY <1>8, <1>16
    <2>4. QED BY <2>1, <2>2, <2>3
  <1>19. Timed(Past(d, k))
    BY <1>5, PastIs
  <1>20. FullReplay(Past(c, k), k.build) = FullReplay(Past(d, k), k.build)
    BY <1>18, <1>19, TimesSuffice
  <1>21. Holds(c, k)
    BY <1>15, <1>17, <1>20 DEF Holds, StandsFor
  <1>22. QED BY <1>21 DEF c

LEMMA InsertedStages ==
    ASSUME NEW o, Database(o), NEW d, Stage(o, d), NEW e \in Trades, d.stored[e] = 0,
           NEW t \in 1..MaxTradeTime, d.gen < MaxGeneration
    PROVE  Stage(o, Inserted(d, e, t))
  <1> DEFINE c == Inserted(d, e, t)
  <1>1. Database(d) /\ CheckpointsHold(d) /\ d.lots = o.lots /\ d.checkpoints \subseteq o.checkpoints
    BY DEF Stage
  <1>2. /\ Database(c) /\ c.stored = [d.stored EXCEPT ![e] = t] /\ c.lots = d.lots
        /\ c.checkpoints = {k \in d.checkpoints : Survives(k, e, t)}
        /\ \A a \in Accounts : /\ c.head[a].status = "none" => d.head[a].status = "none"
                               /\ c.head[a].status = "trusted" => c.head[a] = d.head[a]
    BY <1>1, InsertedIs
  <1>3. \A k \in c.checkpoints : Holds(c, k)
    BY <1>1, <1>2, SurvivorsHold DEF CheckpointsHold
  <1> HIDE DEF c
  <1>4. IsFiniteSet(c.checkpoints)
    BY <1>1, <1>2, FS_Subset DEF CheckpointsHold
  <1>5. CheckpointsHold(c)
    BY <1>1, <1>2, <1>3, <1>4 DEF CheckpointsHold
  <1>6. \A a \in Accounts : /\ c.head[a].status = "none" => o.head[a].status = "none"
                           /\ c.head[a].status = "trusted" => c.head[a] = o.head[a]
    <2>1. \A a \in Accounts : /\ d.head[a].status = "none" => o.head[a].status = "none"
                             /\ d.head[a].status = "trusted" => d.head[a] = o.head[a]
      BY DEF Stage
    <2>2. QED BY <1>2, <2>1
  <1>7. ASSUME c.checkpoints # {}, NEW x \in Stored(o) PROVE c.stored[x] = o.stored[x]
    <2>1. d.stored[x] = o.stored[x]
      BY <1>2, <1>7 DEF Stage
    <2>2. x \in Trades /\ o.stored[x] > 0
      BY DEF Stored
    <2>3. x # e
      BY <2>1, <2>2
    <2>4. QED BY <1>1, <1>2, <2>1, <2>2, <2>3 DEF Database
  <1>8. Stage(o, c)
    BY <1>1, <1>2, <1>5, <1>6, <1>7 DEF Stage
  <1>9. QED BY <1>8 DEF c

LEMMA UpdatedStages ==
    ASSUME NEW d, LedgerHolds(d), NEW e \in Trades, NEW t \in 1..MaxTradeTime, d.gen < MaxGeneration
    PROVE  Stage(d, Updated(d, e, t))
  <1> DEFINE c == Updated(d, e, t)
  <1>0. Database(d)
    BY DEF LedgerHolds
  <1>1. /\ c = [f \in Fields |-> c[f]] /\ c.stored = [d.stored EXCEPT ![e] = t] /\ c.gen = d.gen + 1
        /\ c.build = d.build /\ c.head = d.head /\ c.checkpoints = {} /\ c.lots = d.lots /\ c.mode = d.mode
    BY <1>0 DEF Database, Updated, Fields
  <1> HIDE DEF c
  <1>2. d.stored \in [Trades -> 0..MaxTradeTime] /\ d.gen \in Nat /\ t \in 0..MaxTradeTime
        /\ MaxGeneration \in Nat
    BY <1>0, ProjectionAssumption DEF Database
  <1>3. [d.stored EXCEPT ![e] = t] \in [Trades -> 0..MaxTradeTime]
    BY <1>2
  <1>4. c.gen \in 0..MaxGeneration
    BY <1>1, <1>2
  <1>5. Database(c)
    BY <1>0, <1>1, <1>3, <1>4 DEF Database
  <1>6. CheckpointsHold(c)
    BY <1>1, FS_EmptySet DEF CheckpointsHold
  <1>7. Stage(d, c)
    BY <1>1, <1>5, <1>6 DEF Stage
  <1>8. QED BY <1>7 DEF c

-----------------------------------------------------------------------------
(* What a publication leaves.                                              *)

LEMMA LotsWrittenIs ==
    ASSUME NEW d, Database(d), NEW lots \in [Lots -> LotRecords]
    PROVE  LET w == LotsWritten(d, lots)
           IN  /\ Database(w) /\ SameSource(d, w) /\ w.checkpoints = d.checkpoints /\ w.build = d.build
               /\ w.lots = lots /\ w.mode = d.mode
               /\ \A a \in Accounts : w.head[a].status = "none" => d.head[a].status = "none"
               /\ \A l \in Lots : LET h == w.head[LotAccount[l]]
                    IN h.status = "none" \/ ~h.dirty => h = d.head[LotAccount[l]] /\ lots[l] = d.lots[l]
  <1> DEFINE changed == {LotAccount[l] : l \in {k \in Lots : d.lots[k] # lots[k]}}
             heads == [a \in Accounts |-> IF a \in changed
                         THEN [d.head[a] EXCEPT !.dirty = TRUE,
                                           !.status = IF @ = "none" THEN "uninitialized" ELSE @]
                         ELSE d.head[a]]
             w == LotsWritten(d, lots)
  <1>1. /\ w = [f \in Fields |-> w[f]] /\ SameSource(d, w) /\ w.build = d.build /\ w.mode = d.mode
        /\ w.checkpoints = d.checkpoints /\ w.head = heads /\ w.lots = lots
    <2>1. d = [f \in Fields |-> d[f]]
      BY DEF Database
    <2>2. w = [d EXCEPT !.lots = lots, !.head = heads]
      BY DEF LotsWritten
    <2> HIDE DEF heads, w
    <2>3. QED BY <2>1, <2>2 DEF Fields, SameSource
  <1>2. ASSUME NEW a \in Accounts
        PROVE  /\ heads[a] \in Heads /\ (heads[a].status = "none" => d.head[a].status = "none")
               /\ heads[a].status = "none" \/ ~heads[a].dirty => a \notin changed
    <2>1. d.head[a] \in Heads
      BY DEF Database
    <2>2. CASE a \in changed
      <3>1. PICK h : h = d.head[a]
        OBVIOUS
      <3>2. heads[a] = [h EXCEPT !.dirty = TRUE, !.status = IF @ = "none" THEN "uninitialized" ELSE @]
        BY <2>2, <3>1
      <3>3. heads[a] \in Heads /\ heads[a].dirty = TRUE /\ heads[a].status # "none"
        <4>1. h \in Heads
          BY <2>1, <3>1
        <4> HIDE DEF heads
        <4>2. heads[a] = [status |-> IF h.status = "none" THEN "uninitialized" ELSE h.status,
                          gen |-> h.gen, build |-> h.build, dirty |-> TRUE]
          BY <3>2, <4>1 DEF Heads
        <4>3. QED BY <4>1, <4>2 DEF Heads
      <3>4. QED BY <3>3
    <2>3. CASE a \notin changed
      <3>1. heads[a] = d.head[a]
        BY <2>3
      <3> HIDE DEF changed, heads
      <3>2. QED BY <2>1, <2>3, <3>1
    <2>4. QED BY <2>2, <2>3
  <1>3. heads \in [Accounts -> Heads]
    BY <1>2
  <1>4. Database(w)
    BY <1>1, <1>3 DEF Database, SameSource
  <1>5. ASSUME NEW l \in Lots, LotAccount[l] \notin changed
        PROVE  heads[LotAccount[l]] = d.head[LotAccount[l]] /\ lots[l] = d.lots[l]
    <2>1. LotAccount[l] \in Accounts
      BY DEF Accounts
    <2>2. QED BY <1>5, <2>1
  <1> HIDE DEF heads, changed
  <1>6. \A l \in Lots : w.head[LotAccount[l]].status = "none" \/ ~w.head[LotAccount[l]].dirty
          => w.head[LotAccount[l]] = d.head[LotAccount[l]] /\ lots[l] = d.lots[l]
    <2>1. \A l \in Lots : LotAccount[l] \in Accounts
      BY DEF Accounts
    <2>2. QED BY <1>1, <1>2, <1>5, <2>1
  <1>7. QED BY <1>1, <1>2, <1>4, <1>6

LEMMA HeadsPublishedIs ==
    ASSUME NEW d, Database(d), NEW b \in Builds
    PROVE  LET c == HeadsPublished(d, b, Accounts)
           IN  /\ Database(c) /\ SameSource(d, c) /\ c.checkpoints = d.checkpoints /\ c.build = d.build
               /\ c.lots = d.lots /\ c.mode = d.mode
               /\ \A a \in Accounts :
                    /\ c.head[a].status = "none" => d.head[a].status = "none"
                    /\ c.head[a].status # "none" =>
                         c.head[a] = [status |-> "trusted", gen |-> d.gen, build |-> b, dirty |-> FALSE]
  <1> DEFINE heads == [a \in Accounts |-> IF d.head[a].status = "none" \/ a \notin Accounts THEN d.head[a]
                         ELSE [status |-> "trusted", gen |-> d.gen, build |-> b, dirty |-> FALSE]]
             c == HeadsPublished(d, b, Accounts)
  <1>1. /\ c = [f \in Fields |-> c[f]] /\ SameSource(d, c) /\ c.build = d.build /\ c.mode = d.mode
        /\ c.checkpoints = d.checkpoints /\ c.head = heads /\ c.lots = d.lots
    <2>1. d = [f \in Fields |-> d[f]]
      BY DEF Database
    <2>2. c = [d EXCEPT !.head = heads]
      BY DEF HeadsPublished
    <2> HIDE DEF heads, c
    <2>3. QED BY <2>1, <2>2 DEF Fields, SameSource
  <1>2. heads \in [Accounts -> Heads]
    BY DEF Database, Heads
  <1>3. \A a \in Accounts :
          /\ heads[a].status = "none" => d.head[a].status = "none"
          /\ heads[a].status # "none" =>
               heads[a] = [status |-> "trusted", gen |-> d.gen, build |-> b, dirty |-> FALSE]
    OBVIOUS
  <1> HIDE DEF heads
  <1>4. QED BY <1>1, <1>2, <1>3 DEF Database, SameSource

\* A lot that two replays agree on, each by its own build, is of both builds.
LEMMA SignaturesTell ==
    ASSUME NEW d, Timed(d), NEW c, Timed(c), NEW b \in Builds, NEW h \in Builds, NEW l \in Lots,
           FullReplay(d, b).lots[l] = FullReplay(c, h).lots[l]
    PROVE  FullReplay(d, h).lots[l] = FullReplay(d, b).lots[l]
  <1> DEFINE v == FullReplay(d, b).lots[l]
  <1>1. Resigned(v, FullReplay(d, h).lots[l], b, h)
    BY BuildsDiffer
  <1>2. Resigned(v, v, h, h)
    BY BuildsDiffer
  <1>3. CASE v = NoLot
    <2>1. v.open = 0
      BY <1>3 DEF NoLot
    <2> HIDE DEF v
    <2>2. FullReplay(d, h).lots[l] = v
      BY <1>1, <1>3, <2>1 DEF Resigned
    <2>3. QED BY <2>2 DEF v
  <1>4. CASE v # NoLot
    <2> HIDE DEF v
    <2>1. v.by = {b} /\ v.by = {h}
      BY <1>1, <1>2, <1>4 DEF Resigned
    <2>2. b = h
      BY <2>1
    <2>3. QED BY <2>2 DEF v
  <1>5. QED BY <1>3, <1>4

LEMMA WrittenHolds ==
    ASSUME NEW c, LedgerHolds(c), NEW d, Stage(c, d), NEW b \in Builds, FullReplay(d, b).ok
    PROVE  LedgerHolds(LotsWritten(d, FullReplay(d, b).lots))
  <1>1. /\ Database(c) /\ HeadsHold(c) /\ Timed(c)
        /\ Database(d) /\ CheckpointsHold(d) /\ d.lots = c.lots /\ Timed(d)
    BY DatabasesAreTimed DEF LedgerHolds, Stage
  <1>2. PICK lots : lots = FullReplay(d, b).lots
    OBVIOUS
  <1>3. lots \in [Lots -> LotRecords]
    BY <1>1, <1>2, FullReplayIsTyped
  <1> DEFINE w == LotsWritten(d, lots)
  <1>4. /\ Database(w) /\ SameSource(d, w) /\ w.checkpoints = d.checkpoints /\ w.lots = lots
        /\ \A a \in Accounts : w.head[a].status = "none" => d.head[a].status = "none"
        /\ \A l \in Lots : LET h == w.head[LotAccount[l]]
             IN h.status = "none" \/ ~h.dirty => h = d.head[LotAccount[l]] /\ lots[l] = d.lots[l]
    BY <1>1, <1>3, LotsWrittenIs
  <1> HIDE DEF w
  <1>5. CheckpointsHold(w)
    BY <1>1, <1>4, PrefixesStay
  <1>6. \A a : FullReplay(w, a) = FullReplay(d, a)
    BY <1>1, <1>4, TimesSuffice DEF SameSource
  <1>7. Published(w)
    BY <1>2, <1>4, <1>6 DEF Published
  <1>8. ASSUME NEW l \in Lots PROVE HeadHolds(w, l)
    <2>1. PICK a : a = LotAccount[l]
      OBVIOUS
    <2>2. a \in Accounts
      BY <2>1 DEF Accounts
    <2>3. /\ d.head[a].status = "none" => c.head[a].status = "none"
          /\ d.head[a].status = "trusted" => d.head[a] = c.head[a]
      BY <2>2 DEF Stage
    <2>4. HeadHolds(c, l)
      BY <1>1 DEF HeadsHold
    <2>5. w.head[a].status = "none" \/ ~w.head[a].dirty => w.head[a] = d.head[a] /\ lots[l] = c.lots[l]
      BY <1>1, <1>4, <2>1
    <2>6. ASSUME w.head[a].status = "none" PROVE w.lots[l] = NoLot
      BY <1>4, <2>1, <2>3, <2>4, <2>5, <2>6 DEF HeadHolds
    <2>7. ASSUME w.head[a].status = "trusted", ~w.head[a].dirty
          PROVE  /\ w.head[a].build \in Builds
                 /\ w.lots[l] = FullReplay(w, w.head[a].build).lots[l]
      <3>1. w.head[a] = c.head[a] /\ lots[l] = c.lots[l]
        BY <2>3, <2>5, <2>7
      <3>2. PICK h : h = c.head[a].build
        OBVIOUS
      <3>3. h \in Builds /\ c.lots[l] = FullReplay(c, h).lots[l]
        BY <2>1, <2>4, <2>7, <3>1, <3>2 DEF HeadHolds
      <3>4. FullReplay(d, b).lots[l] = FullReplay(c, h).lots[l]
        BY <1>2, <3>1, <3>3
      <3>5. FullReplay(d, h).lots[l] = FullReplay(d, b).lots[l]
        BY <1>1, <3>3, <3>4, SignaturesTell
      <3>6. QED BY <1>2, <1>4, <1>6, <3>1, <3>2, <3>3, <3>5
    <2>8. QED BY <2>1, <2>6, <2>7 DEF HeadHolds
  <1>9. LedgerHolds(w)
    BY <1>4, <1>5, <1>7, <1>8 DEF LedgerHolds, HeadsHold
  <1>10. QED BY <1>2, <1>9 DEF w

\* Every account that has a head follows build b.
FollowsBuild(d, b) == \A a \in Accounts : d.head[a].status # "none" =>
    d.head[a] = [status |-> "trusted", gen |-> d.gen, build |-> b, dirty |-> FALSE]

LEMMA PublishedHolds ==
    ASSUME NEW c, LedgerHolds(c), NEW d, Stage(c, d), NEW b \in Builds, FullReplay(d, b).ok
    PROVE  LET p == HeadsPublished(LotsWritten(d, FullReplay(d, b).lots), b, Accounts)
           IN  /\ LedgerHolds(p) /\ FollowsBuild(p, b) /\ SameSource(d, p)
               /\ p.checkpoints = d.checkpoints /\ p.build = d.build /\ p.mode = d.mode
               /\ p.lots = FullReplay(d, b).lots /\ FullReplay(p, b) = FullReplay(d, b)
  <1>0. Database(d) /\ Timed(d)
    BY DatabasesAreTimed DEF Stage
  <1>1. PICK lots : lots = FullReplay(d, b).lots
    OBVIOUS
  <1>2. lots \in [Lots -> LotRecords]
    BY <1>0, <1>1, FullReplayIsTyped
  <1> DEFINE w == LotsWritten(d, lots)
             p == HeadsPublished(w, b, Accounts)
  <1>3. /\ Database(w) /\ SameSource(d, w) /\ w.checkpoints = d.checkpoints /\ w.build = d.build
        /\ w.lots = lots /\ w.mode = d.mode
    BY <1>0, <1>2, LotsWrittenIs
  <1>4. LedgerHolds(w)
    BY <1>1, WrittenHolds
  <1> HIDE DEF w
  <1>5. /\ Database(p) /\ SameSource(w, p) /\ p.checkpoints = w.checkpoints /\ p.build = w.build
        /\ p.lots = w.lots /\ p.mode = w.mode
        /\ \A a \in Accounts :
             /\ p.head[a].status = "none" => w.head[a].status = "none"
             /\ p.head[a].status # "none" =>
                  p.head[a] = [status |-> "trusted", gen |-> w.gen, build |-> b, dirty |-> FALSE]
    BY <1>3, HeadsPublishedIs
  <1> HIDE DEF p
  <1>6. SameSource(d, p) /\ \A a : FullReplay(p, a) = FullReplay(d, a)
    <2>1. SameSource(d, p)
      BY <1>3, <1>5 DEF SameSource
    <2>2. QED BY <1>0, <2>1, TimesSuffice DEF SameSource
  <1>7. CheckpointsHold(p) /\ Published(p)
    <2>1. CheckpointsHold(p)
      BY <1>3, <1>4, <1>5, PrefixesStay DEF LedgerHolds
    <2>2. QED BY <1>1, <1>3, <1>5, <1>6, <2>1 DEF Published
  <1>8. ASSUME NEW l \in Lots PROVE HeadHolds(p, l)
    <2>1. PICK a : a = LotAccount[l]
      OBVIOUS
    <2>2. a \in Accounts
      BY <2>1 DEF Accounts
    <2>3. CASE p.head[a].status = "none"
      <3>1. w.head[a].status = "none"
        BY <1>5, <2>2, <2>3
      <3>2. w.lots[l] = NoLot
        BY <1>4, <2>1, <3>1 DEF LedgerHolds, HeadsHold, HeadHolds
      <3>3. QED BY <1>5, <2>1, <2>3, <3>2 DEF HeadHolds
    <2>4. CASE p.head[a].status # "none"
      <3>1. p.head[a].build = b /\ p.head[a].status = "trusted"
        BY <1>5, <2>2, <2>4
      <3>2. QED BY <1>1, <1>3, <1>5, <1>6, <2>1, <3>1 DEF HeadHolds
    <2>5. QED BY <2>3, <2>4
  <1>9. FollowsBuild(p, b)
    BY <1>5 DEF FollowsBuild, SameSource
  <1>10. LedgerHolds(p)
    BY <1>5, <1>7, <1>8 DEF LedgerHolds, HeadsHold
  <1>11. p = HeadsPublished(LotsWritten(d, FullReplay(d, b).lots), b, Accounts)
    BY <1>1 DEF p, w
  <1>12. QED BY <1>1, <1>3, <1>5, <1>6, <1>9, <1>10, <1>11

LEMMA AStoredEventIsLast ==
    ASSUME NEW d, Database(d), Stored(d) # {}
    PROVE  \E e \in Stored(d) : \A x \in Stored(d) : x \in Upto(d, <<d.stored[e], e>>)
  <1> DEFINE S == Stored(d)
             R == {p \in S \X S : d.stored[p[1]] < d.stored[p[2]]
                                  \/ (d.stored[p[1]] = d.stored[p[2]] /\ p[1] <= p[2])}
  <1>1. \A x, y \in S : <<x, y>> \in R <=> d.stored[x] < d.stored[y] \/ (d.stored[x] = d.stored[y] /\ x <= y)
    OBVIOUS
  <1> HIDE DEF R
  <1>2. \A x \in S : d.stored[x] \in Nat /\ x \in Nat
    BY DatabasesAreTimed, TradesAreFinite DEF Timed, Stored
  <1>3. \A x, y \in S : x # y => <<x, y>> \in R \/ <<y, x>> \in R
    BY <1>1, <1>2
  <1>4. \A x, y, z \in S : <<x, y>> \in R /\ <<y, z>> \in R => <<x, z>> \in R
    BY <1>1, <1>2
  <1>5. \E e \in S : \A x \in S \ {e} : <<x, e>> \in R
    <2>1. IsFiniteSet(S) /\ S # {}
      BY EventsAreFinite
    <2> HIDE DEF S
    <2>2. QED BY <1>3, <1>4, <2>1, AFiniteSetHasALast
  <1>6. PICK e \in S : \A x \in S \ {e} : <<x, e>> \in R
    BY <1>5
  <1>7. \A x \in S : d.stored[x] < d.stored[e] \/ (d.stored[x] = d.stored[e] /\ x <= e)
    <2> SUFFICES ASSUME NEW x \in S
                 PROVE  d.stored[x] < d.stored[e] \/ (d.stored[x] = d.stored[e] /\ x <= e)
      OBVIOUS
    <2>1. CASE x = e
      BY <1>2, <2>1
    <2>2. CASE x # e
      BY <1>1, <1>6, <2>2
    <2>3. QED BY <2>1, <2>2
  <1>8. QED BY <1>7 DEF Upto

\* Two checkpoints that stand for all events are the same but for their origin.
Latest(d, b, full) ==
    LET last == CHOOSE e \in Stored(d) : \A x \in Stored(d) : x \in Upto(d, <<d.stored[e], e>>)
    IN [prefix |-> Stored(d), gen |-> d.gen, build |-> b,
        state |-> OpenLots(FullReplay(d, b).lots), full |-> full,
        end |-> IF Stored(d) = {} THEN <<0, 0>> ELSE <<d.stored[last], last>>]

LEMMA LatestIs ==
    ASSUME NEW d, Database(d), NEW b \in Builds, FullReplay(d, b).ok, NEW full \in BOOLEAN
    PROVE  LET k == Latest(d, b, full)
           IN  /\ k \in Checkpoints /\ Holds(d, k)
               /\ k.prefix = Stored(d) /\ k.gen = d.gen /\ k.build = b /\ k.full = full
               /\ k.state = OpenLots(FullReplay(d, b).lots)
  <1> DEFINE last == CHOOSE e \in Stored(d) : \A x \in Stored(d) : x \in Upto(d, <<d.stored[e], e>>)
             end == IF Stored(d) = {} THEN <<0, 0>> ELSE <<d.stored[last], last>>
             state == OpenLots(FullReplay(d, b).lots)
             k == Latest(d, b, full)
  <1>0. Timed(d) /\ Stored(d) \subseteq Trades /\ d.gen \in Nat
    BY DatabasesAreTimed DEF Stored
  <1>1. /\ end \in Nat \X Nat /\ Upto(d, end) = Stored(d)
        /\ IF Stored(d) = {} THEN end = <<0, 0>> ELSE \E e \in Stored(d) : end = <<d.stored[e], e>>
    <2>1. CASE Stored(d) = {}
      BY <2>1 DEF Upto
    <2>2. CASE Stored(d) # {}
      <3>1. last \in Stored(d) /\ \A x \in Stored(d) : x \in Upto(d, <<d.stored[last], last>>)
        BY <2>2, AStoredEventIsLast
      <3> HIDE DEF last
      <3>2. d.stored[last] \in Nat /\ last \in Nat
        BY <1>0, <3>1, TradesAreFinite DEF Timed
      <3>3. end = <<d.stored[last], last>>
        BY <2>2
      <3>4. QED BY <2>2, <3>1, <3>2, <3>3 DEF Upto
    <2>3. QED BY <2>1, <2>2
  <1>2. k = [prefix |-> Stored(d), gen |-> d.gen, build |-> b, state |-> state, full |-> full, end |-> end]
    BY DEF Latest
  <1> HIDE DEF end
  <1>3. state \in [Lots -> LotRecords]
    <2>1. FullReplay(d, b).lots \in [Lots -> LotRecords]
      BY <1>0, FullReplayIsTyped
    <2>2. state = [l \in Lots |-> Shown(FullReplay(d, b).lots[l])]
      BY OpenLotsAreShown
    <2> HIDE DEF state
    <2>3. QED BY <2>1, <2>2, ShownIsALot
  <1> HIDE DEF state, k
  <1>4. k \in Checkpoints
    BY <1>0, <1>1, <1>2, <1>3 DEF Checkpoints
  <1>5. HoldsPrefix(d, k)
    <2>1. k.prefix = Stored(d) /\ k.gen = d.gen /\ k.end = end
      BY <1>2
    <2>2. EventsAfter(d, k) = {}
      BY <1>1, <2>1 DEF EventsAfter
    <2>3. Cardinality(EventsAfter(d, k)) = 0
      BY <2>2, FS_EmptySet
    <2>4. QED BY <1>0, <1>1, <2>1, <2>3 DEF HoldsPrefix, StrictAppendOf
  <1>6. EndsAt(d, k)
    <2>1. k.prefix = Stored(d) /\ k.end = end
      BY <1>2
    <2>2. QED BY <1>1, <2>1 DEF EndsAt
  <1>7. StandsFor(d, k)
    <2>1. k.prefix = Stored(d) /\ k.build = b /\ k.state = OpenLots(FullReplay(d, b).lots)
      BY <1>2 DEF state
    <2>2. Past(d, k).stored = [e \in Trades |-> IF e \in Stored(d) THEN d.stored[e] ELSE 0]
      BY <1>4, <1>5, <2>1, PastIs
    <2>3. \A e \in Trades : e \notin Stored(d) => d.stored[e] = 0
      BY <1>0 DEF Stored, Timed
    <2>4. Past(d, k).stored = d.stored
      BY <1>0, <2>2, <2>3 DEF Timed
    <2>5. FullReplay(Past(d, k), b) = FullReplay(d, b)
      BY <1>0, <2>4, TimesSuffice
    <2>6. QED BY <2>1, <2>5 DEF StandsFor
  <1>8. Holds(d, k)
    BY <1>5, <1>6, <1>7 DEF Holds
  <1>9. QED BY <1>2, <1>4, <1>8 DEF k, state

LEMMA LatestIsUnique ==
    ASSUME NEW d, Database(d), NEW b \in Builds, FullReplay(d, b).ok, NEW full \in BOOLEAN,
           NEW j \in Checkpoints, Holds(d, j), j.build = b, j.prefix = Stored(d)
    PROVE  [j EXCEPT !.full = full] = Latest(d, b, full)
  <1>1. PICK k : k = Latest(d, b, full)
    OBVIOUS
  <1>2. /\ k \in Checkpoints /\ Holds(d, k)
        /\ k.prefix = Stored(d) /\ k.gen = d.gen /\ k.build = b /\ k.full = full
        /\ k.state = OpenLots(FullReplay(d, b).lots)
    BY <1>1, LatestIs
  <1>0. Timed(d) /\ Stored(d) \subseteq Trades /\ d.gen \in Nat /\ j.gen \in Nat
    BY DatabasesAreTimed DEF Stored, Checkpoints
  <1>3. j.gen = d.gen
    <2>1. EventsAfter(d, j) = {}
      BY DEF Holds, HoldsPrefix, EventsAfter
    <2>2. Cardinality(EventsAfter(d, j)) = 0
      BY <2>1, FS_EmptySet
    <2>3. QED BY <1>0, <2>2 DEF Holds, HoldsPrefix, StrictAppendOf
  <1>4. j.state = k.state
    <2>1. Past(d, j).stored = [e \in Trades |-> IF e \in Stored(d) THEN d.stored[e] ELSE 0]
      BY PastIs DEF Holds
    <2>2. \A e \in Trades : e \notin Stored(d) => d.stored[e] = 0
      BY <1>0 DEF Stored, Timed
    <2>3. Past(d, j).stored = d.stored
      BY <1>0, <2>1, <2>2 DEF Timed
    <2>4. FullReplay(Past(d, j), b) = FullReplay(d, b)
      BY <1>0, <2>3, TimesSuffice
    <2>5. j.state = OpenLots(FullReplay(d, b).lots)
      BY <2>4 DEF Holds, StandsFor
    <2>6. QED BY <1>2, <2>5
  <1>5. j.end = k.end
    <2>1. CASE Stored(d) = {}
      BY <1>2, <2>1 DEF Holds, EndsAt
    <2>2. CASE Stored(d) # {}
      <3>1. PICK x \in Stored(d), y \in Stored(d) : j.end = <<d.stored[x], x>> /\ k.end = <<d.stored[y], y>>
        BY <1>2, <2>2 DEF Holds, EndsAt
      <3>2. x \in Upto(d, k.end) /\ y \in Upto(d, j.end)
        BY <1>2 DEF Holds, HoldsPrefix
      <3>3. d.stored[x] \in Nat /\ d.stored[y] \in Nat /\ x \in Nat /\ y \in Nat
        BY <1>0, TradesAreFinite DEF Timed
      <3>4. x = y
        BY <3>1, <3>2, <3>3 DEF Upto
      <3>5. QED BY <3>1, <3>4
    <2>3. QED BY <2>1, <2>2
  <1>6. [j EXCEPT !.full = full] = k
    BY <1>2, <1>3, <1>4, <1>5 DEF Checkpoints
  <1>7. QED BY <1>1, <1>6

LEMMA CheckpointedHolds ==
    ASSUME NEW d, LedgerHolds(d), NEW b \in Builds, FullReplay(d, b).ok,
           NEW state, state = OpenLots(FullReplay(d, b).lots), NEW full \in BOOLEAN, NEW fits,
           \A k \in d.checkpoints : k.build = b
    PROVE  LET c == Checkpointed(d, b, state, full, fits)
           IN  LedgerHolds(c) /\ SameSource(d, c) /\ c.head = d.head /\ c.build = d.build
  <1> DEFINE c == Checkpointed(d, b, state, full, fits)
  <1>0. Database(d) /\ CheckpointsHold(d) /\ Timed(d)
    BY DatabasesAreTimed DEF LedgerHolds
  <1>1. PICK k : k = Latest(d, b, full)
    OBVIOUS
  <1>2. PICK ks : ks = {j \in d.checkpoints : [j EXCEPT !.full = full] # k} \cup {k}
    OBVIOUS
  <1>3. c = IF fits THEN [d EXCEPT !.checkpoints = Pruned(ks)]
            ELSE [d EXCEPT !.checkpoints = {}, !.mode = "untrusted"]
    BY <1>1, <1>2 DEF Checkpointed, Latest
  <1>4. /\ k \in Checkpoints /\ Holds(d, k)
        /\ k.prefix = Stored(d) /\ k.gen = d.gen /\ k.build = b
    BY <1>0, <1>1, LatestIs
  <1>5. ASSUME NEW j \in ks, j # k PROVE j \in d.checkpoints /\ NewerThan(k, j)
    <2>1. j \in d.checkpoints /\ [j EXCEPT !.full = full] # k
      BY <1>2, <1>5
    <2>2. j \in Checkpoints /\ Holds(d, j) /\ j.build = b
      BY <1>0, <2>1 DEF CheckpointsHold
    <2>3. j.prefix # Stored(d)
      BY <1>0, <1>1, <2>1, <2>2, LatestIsUnique
    <2>4. j.prefix \subseteq Stored(d)
      BY <2>2 DEF Holds, HoldsPrefix, Upto
    <2>5. Cardinality(j.prefix) < Cardinality(Stored(d))
      <3>1. IsFiniteSet(Stored(d)) /\ IsFiniteSet(j.prefix) /\ Stored(d) \subseteq Trades
        BY <2>4, EventsAreFinite, FS_Subset DEF Stored
      <3>2. Cardinality(j.prefix) \in Nat /\ Cardinality(Stored(d)) \in Nat
        BY <3>1, FS_CardinalityType
      <3>3. Cardinality(j.prefix) <= Cardinality(Stored(d))
            /\ (Cardinality(j.prefix) = Cardinality(Stored(d)) => j.prefix = Stored(d))
        BY <2>4, <3>1, FS_Subset
      <3>4. QED BY <2>3, <3>2, <3>3
    <2>6. QED BY <1>4, <2>1, <2>5 DEF NewerThan
  <1>6. /\ IsFiniteSet(ks) /\ ks \subseteq Checkpoints /\ \A j \in ks : Holds(d, j)
        /\ \A i, j \in ks : i.build = j.build /\ (i # j => NewerThan(i, j) \/ NewerThan(j, i))
    <2>1. IsFiniteSet(d.checkpoints)
      BY <1>0 DEF CheckpointsHold
    <2>2. IsFiniteSet({j \in d.checkpoints : [j EXCEPT !.full = full] # k})
      BY <2>1, FS_Subset
    <2>3. IsFiniteSet(ks)
      BY <1>2, <2>2, FS_AddElement
    <2>4. ks \subseteq d.checkpoints \cup {k}
      BY <1>2
    <2>5. QED BY <1>0, <1>4, <1>5, <2>3, <2>4 DEF CheckpointsHold
  <1>7. PICK m \in Modes, cs \in SUBSET ks :
          /\ c = [f \in Fields |-> c[f]] /\ c.stored = d.stored /\ c.gen = d.gen /\ c.build = d.build
          /\ c.head = d.head /\ c.lots = d.lots /\ c.mode = m /\ c.checkpoints = cs
    <2>1. d = [f \in Fields |-> d[f]] /\ d.mode \in Modes
      BY <1>0 DEF Database
    <2>2. Pruned(ks) \in SUBSET ks
      BY DEF Pruned
    <2> HIDE DEF c
    <2>3. CASE fits
      BY <1>3, <2>1, <2>2, <2>3 DEF Fields
    <2>4. CASE ~fits
      BY <1>3, <2>1, <2>4 DEF Fields, Modes
    <2>5. QED BY <2>3, <2>4
  <1> HIDE DEF c
  <1>8. Database(c) /\ SameSource(d, c)
    BY <1>0, <1>7 DEF Database, SameSource
  <1>9. CheckpointsHold(c)
    <2>1. IsFiniteSet(cs)
      BY <1>6, FS_Subset
    <2>2. \A j \in cs : Holds(c, j)
      BY <1>0, <1>6, <1>8, SourceSuffices
    <2>3. QED BY <1>6, <1>7, <2>1, <2>2 DEF CheckpointsHold
  <1>10. \A a : FullReplay(c, a) = FullReplay(d, a)
    BY <1>0, <1>8, TimesSuffice DEF SameSource
  <1>11. Published(c) /\ HeadsHold(c)
    BY <1>7, <1>10 DEF LedgerHolds, Published, HeadsHold, HeadHolds
  <1>12. QED BY <1>7, <1>8, <1>9, <1>11 DEF LedgerHolds, c

-----------------------------------------------------------------------------
(* The fast path.                                                          *)

LEMMA TailsAreTrades ==
    ASSUME NEW d, Timed(d), NEW b \in Builds, NEW state \in [Lots -> LotRecords],
           NEW T \in SUBSET Trades, TailReplay(d, state, T, b).ok
    PROVE  \A e \in T : Trade[e].kind \in {"open", "close"}
  <1> DEFINE r == Replayed(d, state, T, b, TRUE)
  <1>1. r \in Accs
    BY ReplayedIsTyped
  <1>2. TailReplay(d, state, T, b) = [r EXCEPT !.ok = @ /\ \A e \in T : Trade[e].kind \in {"open", "close"}]
    BY DEF TailReplay
  <1> HIDE DEF r
  <1>3. QED BY <1>1, <1>2 DEF Accs

\* What stands before and after checkpoint k of a database and of what a
\* transaction made of it.
LEMMA StagesExtend ==
    ASSUME NEW c, LedgerHolds(c), NEW d, Stage(c, d), NEW k \in d.checkpoints,
           \A e \in EventsAfter(d, k) : Trade[e].kind \in {"open", "close"}
    PROVE  /\ Extends(Past(d, k), d) /\ Extends(Past(d, k), c)
           /\ New(Past(d, k), d) = EventsAfter(d, k) /\ New(Past(d, k), c) \subseteq EventsAfter(d, k)
           /\ FullReplay(Past(d, k), k.build).ok
           /\ k.state = OpenLots(FullReplay(Past(d, k), k.build).lots)
           /\ \A x \in Stored(c) : d.stored[x] = c.stored[x]
  <1> DEFINE p == Past(d, k)
             q == Past(c, k)
  <1>1. /\ Database(c) /\ Database(d) /\ k \in Checkpoints /\ Holds(d, k) /\ Holds(c, k)
        /\ HoldsPrefix(d, k) /\ HoldsPrefix(c, k)
        /\ \A x \in Stored(c) : d.stored[x] = c.stored[x]
    BY DEF LedgerHolds, Stage, CheckpointsHold, Holds
  <1>2. p.stored = [e \in Trades |-> IF e \in k.prefix THEN d.stored[e] ELSE 0]
        /\ Timed(p) /\ Stored(p) = k.prefix /\ k.prefix \subseteq Stored(d) /\ New(p, d) = EventsAfter(d, k)
    BY <1>1, PastIs
  <1>3. q.stored = [e \in Trades |-> IF e \in k.prefix THEN c.stored[e] ELSE 0]
        /\ Timed(q) /\ Stored(q) = k.prefix /\ k.prefix \subseteq Stored(c) /\ New(q, c) = EventsAfter(c, k)
    BY <1>1, PastIs
  <1>4. Extends(p, d)
    BY <1>1, TailsExtend
  <1>5. \A e \in EventsAfter(c, k) : e \in EventsAfter(d, k)
    <2>1. Stored(c) \subseteq Stored(d)
      BY <1>1 DEF Stored
    <2>2. QED BY <1>1, <2>1 DEF HoldsPrefix, EventsAfter
  <1>6. Extends(q, c)
    BY <1>1, <1>5, TailsExtend
  <1>7. q.stored = p.stored
    BY <1>1, <1>2, <1>3
  <1> HIDE DEF p, q
  <1>8. Extends(p, c) /\ New(p, c) = New(q, c)
    BY <1>2, <1>3, <1>6, <1>7 DEF Extends, New
  <1>9. FullReplay(p, k.build).ok /\ k.state = OpenLots(FullReplay(p, k.build).lots)
    BY <1>1 DEF Holds, StandsFor, p
  <1>10. QED BY <1>1, <1>2, <1>3, <1>4, <1>5, <1>8, <1>9 DEF p

\* A tail that does not collide with what is published opens no lot again.
LEMMA CollisionsAreSeen ==
    ASSUME NEW c, Database(c), Published(c), NEW d, d.lots = c.lots, NEW k, ~Collides(d, k),
           NEW p, Extends(p, d), Extends(p, c), New(p, d) = EventsAfter(d, k),
           NEW b \in Builds, FullReplay(p, b).ok
    PROVE  OpensOnce(Effective(p), New(p, d))
  <1> DEFINE E == Effective(p)
             T == EventsAfter(d, k)
  <1>1. PICK s \in Builds : FullReplay(c, s).ok /\ c.lots = FullReplay(c, s).lots
    BY DEF Published
  <1>2. /\ VoidsFit(p) /\ Effective(c) = E \cup New(p, c) /\ E \cap T = {}
        /\ Effective(c) \in SUBSET Trades /\ Timed(c) /\ Timed(p) /\ E \in SUBSET Trades
    BY FullReplayIs, ExtensionsKeep, EffectiveIsSmall, DatabasesAreTimed DEF Extends
  <1>3. Full(c, Effective(c), s).ok /\ c.lots = Full(c, Effective(c), s).lots /\ Full(p, E, b).ok
    BY <1>1, FullReplayIs
  <1>4. ASSUME NEW x \in T, Trade[x].kind = "open", NEW y \in E, Trade[y].lot = Trade[x].lot
        PROVE  FALSE
    <2>1. PICK o \in E : Trade[o].lot = Trade[y].lot /\ Trade[o].kind = "open"
      <3>1. Opened(Full(p, E, b), E, Trade[y].lot)
        BY <1>2, <1>3, OpenedOnce
      <3>2. QED BY <3>1 DEF Opened
    <2>2. y \in Effective(c) /\ o \in Effective(c)
      BY <1>2
    <2>3. /\ c.lots[Trade[y].lot] # NoLot
          /\ \A z \in Effective(c) : Trade[z].lot = Trade[y].lot /\ Trade[z].kind = "open"
               => z = c.lots[Trade[y].lot].open
      <3>1. PICK S : S = Effective(c)
        OBVIOUS
      <3>2. /\ Full(c, S, s).lots[Trade[y].lot] # NoLot
            /\ \A z \in S : Trade[z].lot = Trade[y].lot /\ Trade[z].kind = "open"
                 => z = Full(c, S, s).lots[Trade[y].lot].open
        <4>1. Timed(c) /\ s \in Builds /\ S \in SUBSET Trades /\ Full(c, S, s).ok /\ y \in S
          BY <1>2, <1>3, <2>2, <3>1
        <4>2. Opened(Full(c, S, s), S, Trade[y].lot)
          BY <4>1, OpenedOnce
        <4>3. QED BY <4>2 DEF Opened
      <3>3. c.lots = Full(c, S, s).lots
        BY <1>3, <3>1
      <3>4. QED BY <3>1, <3>2, <3>3
    <2>4. d.lots[Trade[x].lot] # NoLot /\ d.lots[Trade[x].lot].open = o
      BY <1>4, <2>1, <2>2, <2>3
    <2>5. o \notin T
      BY <1>2
    <2>6. Collides(d, k)
      BY <1>4, <2>4, <2>5 DEF Collides
    <2>7. QED BY <2>6
  <1>5. ASSUME NEW x \in T, Trade[x].kind = "open", NEW y \in T, Trade[y].kind = "open",
               Trade[y].lot = Trade[x].lot, y # x
        PROVE  FALSE
    BY <1>5 DEF Collides
  <1>6. QED BY <1>4, <1>5 DEF OpensOnce

\* The lots that a tail does not touch are what a full replay makes of them.
LEMMA UntouchedStays ==
    ASSUME NEW c, NEW d, NEW p, Extends(p, d), Extends(p, c), VoidsFit(p), NEW l \in Lots,
           Of(New(p, d), l) = {}, Of(New(p, c), l) = {}, NEW b \in Builds
    PROVE  FullReplay(d, b).lots[l] = FullReplay(c, b).lots[l]
  <1>1. PICK S : S = Of(Effective(p), l)
    OBVIOUS
  <1>2. ASSUME NEW e, Extends(p, e), Of(New(p, e), l) = {}
        PROVE  FullReplay(e, b).lots[l] = Full(e, S, b).lots[l]
    <2>1. Effective(e) = Effective(p) \cup New(p, e) /\ Timed(e) /\ Effective(e) \in SUBSET Trades
      BY <1>2, ExtensionsKeep, EffectiveIsSmall DEF Extends
    <2>2. Of(Effective(e), l) = S
      BY <1>1, <1>2, <2>1 DEF Of
    <2>3. OfLots(e, Effective(e), b)
      BY <2>1, LotsAreTheirOwn
    <2>4. QED BY <2>2, <2>3, FullReplayIs DEF OfLots
  <1>3. ASSUME NEW e, Extends(p, e) PROVE Full(e, S, b) = Full(p, S, b)
    <2>1. PICK tail : tail = FALSE
      OBVIOUS
    <2>2. S \in SUBSET Trades /\ \A x \in S : e.stored[x] = p.stored[x]
      BY <1>1, <1>3 DEF Of, Effective, Extends, Stored
    <2>3. Replayed(e, NoLots, S, b, tail) = Replayed(p, NoLots, S, b, tail)
      BY <1>3, <2>2, ReplaysAgree DEF Extends
    <2>4. QED BY <2>1, <2>3 DEF Full
  <1>4. QED BY <1>2, <1>3

LEMMA ResumesReplay ==
    ASSUME NEW c, LedgerHolds(c), NEW d, Stage(c, d), NEW k \in d.checkpoints, NEW b \in Builds,
           Resumable(d, k, b), ~Collides(d, k)
    PROVE  LET r == TailReplay(d, k.state, EventsAfter(d, k), b)
           IN  /\ FullReplay(d, b).ok /\ r.lots = OpenLots(FullReplay(d, b).lots)
               /\ \A l \in Lots : FullReplay(d, b).lots[l]
                    = IF r.touched[l] = NoLot THEN d.lots[l] ELSE r.touched[l]
  <1> DEFINE T == EventsAfter(d, k)
             p == Past(d, k)
             r == TailReplay(d, k.state, T, b)
  <1>0. /\ Timed(c) /\ Timed(d) /\ Database(c) /\ Published(c) /\ HeadsHold(c) /\ d.lots = c.lots
        /\ k \in Checkpoints /\ k.build = b /\ r.ok /\ T \in SUBSET Trades
    BY DatabasesAreTimed DEF LedgerHolds, Stage, CheckpointsHold, Resumable, Decodes, EventsAfter, Stored
  <1>1. \A e \in T : Trade[e].kind \in {"open", "close"}
    <2>1. k.state \in [Lots -> LotRecords]
      BY <1>0 DEF Checkpoints
    <2>2. QED BY <1>0, <2>1, TailsAreTrades
  <1>2. /\ Extends(p, d) /\ Extends(p, c) /\ New(p, d) = T /\ New(p, c) \subseteq T
        /\ FullReplay(p, b).ok /\ k.state = OpenLots(FullReplay(p, b).lots)
    BY <1>0, <1>1, StagesExtend
  <1> HIDE DEF p
  <1>3. OpensOnce(Effective(p), New(p, d))
    BY <1>0, <1>2, CollisionsAreSeen
  <1>4. TailReplay(d, k.state, New(p, d), b).ok
    BY <1>0, <1>2
  <1>5. /\ FullReplay(d, b).ok /\ r.lots = OpenLots(FullReplay(d, b).lots)
        /\ \A l \in Lots : r.touched[l] = IF Of(T, l) = {} THEN NoLot ELSE FullReplay(d, b).lots[l]
    BY <1>2, <1>3, <1>4, TailReplays
  <1>6. ASSUME NEW l \in Lots, Of(T, l) # {} PROVE FullReplay(d, b).lots[l] # NoLot
    <2>1. PICK x \in T : Trade[x].lot = l
      BY <1>6 DEF Of
    <2>2. x \in Effective(d) /\ Effective(d) \in SUBSET Trades
      BY <1>2, FullReplayIs, ExtensionsKeep, EffectiveIsSmall
    <2>3. Full(d, Effective(d), b).ok
      BY <1>5, FullReplayIs
    <2>4. Full(d, Effective(d), b).lots[l] # NoLot
      <3>1. Opened(Full(d, Effective(d), b), Effective(d), Trade[x].lot)
        BY <1>0, <2>2, <2>3, OpenedOnce
      <3>2. QED BY <2>1, <3>1 DEF Opened
    <2>5. QED BY <2>4, FullReplayIs
  <1>7. ASSUME NEW l \in Lots, Of(T, l) = {} PROVE FullReplay(d, b).lots[l] = c.lots[l]
    <2>1. FullReplay(d, b).lots[l] = FullReplay(c, b).lots[l]
      <3>1. VoidsFit(p)
        BY <1>2, FullReplayIs
      <3>2. Of(New(p, d), l) = {} /\ Of(New(p, c), l) = {}
        BY <1>2, <1>7 DEF Of
      <3>3. QED BY <1>2, <3>1, <3>2, UntouchedStays
    <2>2. PICK a : a = LotAccount[l]
      OBVIOUS
    <2>3. a \in Accounts /\ HeadHolds(c, l) /\ HeadFits(d, k, a, b)
      BY <1>0, <2>2 DEF Accounts, HeadsHold, Resumable
    <2>4. /\ d.head[a].status = "none" => c.head[a].status = "none"
          /\ d.head[a].status = "trusted" => d.head[a] = c.head[a]
      BY <2>3 DEF Stage
    <2>5. CASE d.head[a].status = "trusted"
      <3>1. c.head[a].status = "trusted" /\ ~c.head[a].dirty /\ c.head[a].build = b
        BY <2>3, <2>4, <2>5 DEF HeadFits
      <3>2. QED BY <2>1, <2>2, <2>3, <3>1 DEF HeadHolds
    <2>6. CASE d.head[a].status # "trusted"
      <3>1. c.lots[l] = NoLot
        <4>1. CASE d.head[a].status = "none"
          BY <2>2, <2>3, <2>4, <4>1 DEF HeadHolds
        <4>2. CASE d.head[a].status # "none"
          <5>1. a \notin AccountsOfLots(d.lots)
            BY <2>3, <2>6, <4>2 DEF HeadFits
          <5>2. QED BY <1>0, <2>2, <5>1 DEF AccountsOfLots
        <4>3. QED BY <4>1, <4>2
      <3>2. PICK s \in Builds : c.lots = FullReplay(c, s).lots
        BY <1>0 DEF Published
      <3>3. Resigned(NoLot, FullReplay(c, b).lots[l], s, b)
        BY <1>0, <3>1, <3>2, BuildsDiffer
      <3>4. FullReplay(c, b).lots[l] = NoLot
        BY <3>3 DEF Resigned, NoLot
      <3>5. QED BY <2>1, <3>1, <3>4
    <2>7. QED BY <2>5, <2>6
  <1> HIDE DEF r, T
  <1>8. \A l \in Lots : FullReplay(d, b).lots[l] = IF r.touched[l] = NoLot THEN d.lots[l] ELSE r.touched[l]
    BY <1>0, <1>5, <1>6, <1>7
  <1>9. QED BY <1>5, <1>8 DEF r, T

-----------------------------------------------------------------------------
(* Both paths.                                                             *)

LEMMA FollowersRead ==
    ASSUME NEW d, d.build \in Builds, FollowsBuild(d, d.build) PROVE AllRead(d)
  BY DEF AllRead, FollowsBuild, Readable

\* A database that differs in its build or its mode alone.
LEMMA LabelsDoNotCount ==
    ASSUME NEW d, LedgerHolds(d), NEW c, Database(c), SameSource(d, c), c.head = d.head,
           c.lots = d.lots, c.checkpoints = d.checkpoints
    PROVE  LedgerHolds(c)
  <1>1. Database(d) /\ Timed(d) /\ CheckpointsHold(d) /\ Published(d) /\ HeadsHold(d)
    BY DatabasesAreTimed DEF LedgerHolds
  <1>2. \A a : FullReplay(c, a) = FullReplay(d, a)
    BY <1>1, TimesSuffice DEF SameSource
  <1>3. CheckpointsHold(c)
    BY <1>1, PrefixesStay
  <1>4. QED BY <1>1, <1>2, <1>3 DEF LedgerHolds, Published, HeadsHold, HeadHolds

LEMMA FastPathHolds ==
    ASSUME NEW c, LedgerHolds(c), NEW d, Stage(c, d), NEW k \in d.checkpoints, NEW b \in Builds,
           Resumable(d, k, b), ~Collides(d, k), NEW fits
    PROVE  LedgerHolds(FastPath(d, k, b, fits)) /\ AllRead(FastPath(d, k, b, fits))
  <1> DEFINE r == TailReplay(d, k.state, EventsAfter(d, k), b)
             lots == [l \in Lots |-> IF r.touched[l] = NoLot THEN d.lots[l] ELSE r.touched[l]]
             p == HeadsPublished(LotsWritten(d, lots), b, Accounts)
             f == FastPath(d, k, b, fits)
  <1>1. /\ FullReplay(d, b).ok /\ r.lots = OpenLots(FullReplay(d, b).lots)
        /\ \A l \in Lots : FullReplay(d, b).lots[l]
             = IF r.touched[l] = NoLot THEN d.lots[l] ELSE r.touched[l]
    BY ResumesReplay
  <1>2. lots = FullReplay(d, b).lots
    <2>1. FullReplay(d, b).lots \in [Lots -> LotRecords]
      BY DatabasesAreTimed, FullReplayIsTyped DEF Stage
    <2> HIDE DEF r
    <2>2. QED BY <1>1, <2>1
  <1>3. f = p \/ f = Checkpointed(p, b, r.lots, FALSE, fits)
    BY DEF FastPath, Resumed
  <1> HIDE DEF r, lots
  <1>4. /\ LedgerHolds(p) /\ FollowsBuild(p, b) /\ p.checkpoints = d.checkpoints /\ p.build = d.build
        /\ FullReplay(p, b) = FullReplay(d, b)
    BY <1>1, <1>2, PublishedHolds
  <1>5. d.build = b /\ k.build = b
    BY DEF Resumable, Decodes
  <1>6. \A j \in p.checkpoints : j.build = b
    BY <1>4, <1>5 DEF Stage, CheckpointsHold
  <1> HIDE DEF p, f
  <1>7. CASE f = p
    BY <1>4, <1>5, <1>7, FollowersRead DEF f
  <1>8. CASE f = Checkpointed(p, b, r.lots, FALSE, fits)
    <2> DEFINE q == Checkpointed(p, b, r.lots, FALSE, fits)
    <2>1. LedgerHolds(q) /\ SameSource(p, q) /\ q.head = p.head /\ q.build = p.build
      <3>1. FullReplay(p, b).ok /\ r.lots = OpenLots(FullReplay(p, b).lots)
        BY <1>1, <1>4
      <3>2. PICK full, state : full = FALSE /\ state = r.lots
        OBVIOUS
      <3>3. full \in BOOLEAN /\ q = Checkpointed(p, b, state, full, fits)
            /\ state = OpenLots(FullReplay(p, b).lots)
        BY <3>1, <3>2
      <3> HIDE DEF q
      <3>4. QED BY <1>4, <1>6, <3>1, <3>3, CheckpointedHolds
    <2> HIDE DEF q
    <2>2. FollowsBuild(q, q.build) /\ q.build = b
      BY <1>4, <1>5, <2>1 DEF FollowsBuild, SameSource
    <2>3. f = q
      BY <1>8 DEF q
    <2>4. QED BY <2>1, <2>2, <2>3, FollowersRead DEF f
  <1>9. QED BY <1>3, <1>7, <1>8 DEF f

LEMMA FullPathHolds ==
    ASSUME NEW c, LedgerHolds(c), NEW d, Stage(c, d), NEW b \in Builds, NEW known \in BOOLEAN,
           FullReplay(d, b).ok, NEW seed, NEW fits, known /\ seed => \A k \in d.checkpoints : k.build = b
    PROVE  LET f == FullPath(d, FullReplay(d, b).lots, b, known, seed, fits)
           IN  LedgerHolds(f) /\ (known => AllRead(f))
  <1>1. PICK lots : lots = FullReplay(d, b).lots
    OBVIOUS
  <1> DEFINE w == LotsWritten(d, lots)
             h == HeadsPublished(w, b, Accounts)
             p == [h EXCEPT !.build = b]
             f == FullPath(d, lots, b, known, seed, fits)
  <1>2. f = IF ~known THEN w ELSE IF seed THEN Checkpointed(p, b, OpenLots(lots), TRUE, fits) ELSE p
    BY DEF FullPath
  <1>3. LedgerHolds(w)
    BY <1>1, WrittenHolds
  <1>4. /\ LedgerHolds(h) /\ FollowsBuild(h, b) /\ h.checkpoints = d.checkpoints /\ h.lots = lots
        /\ FullReplay(h, b) = FullReplay(d, b)
    BY <1>1, PublishedHolds
  <1> HIDE DEF w, h, f
  <1> SUFFICES LedgerHolds(f) /\ (known => AllRead(f))
    BY <1>1 DEF f
  <1>5. Database(h) /\ Timed(h)
    BY <1>4, DatabasesAreTimed DEF LedgerHolds
  <1>6. /\ p = [x \in Fields |-> p[x]] /\ p.stored = h.stored /\ p.gen = h.gen
        /\ p.checkpoints = h.checkpoints /\ p.build = b /\ p.head = h.head /\ p.lots = h.lots /\ p.mode = h.mode
    BY <1>5 DEF Database, Fields
  <1> HIDE DEF p
  <1>7. Database(p) /\ SameSource(h, p)
    BY <1>5, <1>6 DEF Database, SameSource
  <1>8. LedgerHolds(p) /\ FullReplay(p, b) = FullReplay(h, b)
    BY <1>4, <1>5, <1>6, <1>7, LabelsDoNotCount, TimesSuffice DEF SameSource
  <1>9. FollowsBuild(p, p.build)
    BY <1>4, <1>6 DEF FollowsBuild
  <1>10. CASE ~known
    BY <1>2, <1>3, <1>10
  <1>11. CASE known /\ ~seed
    BY <1>2, <1>6, <1>8, <1>9, <1>11, FollowersRead
  <1>12. CASE known /\ seed
    <2>1. PICK full, state : full = TRUE /\ state = OpenLots(lots)
      OBVIOUS
    <2> DEFINE q == Checkpointed(p, b, state, full, fits)
    <2>2. f = q
      BY <1>2, <1>12, <2>1
    <2>3. FullReplay(p, b).ok /\ state = OpenLots(FullReplay(p, b).lots) /\ full \in BOOLEAN
          /\ \A k \in p.checkpoints : k.build = b
      BY <1>1, <1>4, <1>6, <1>8, <1>12, <2>1
    <2>4. LedgerHolds(q) /\ SameSource(p, q) /\ q.head = p.head /\ q.build = p.build
      BY <1>8, <2>3, CheckpointedHolds
    <2> HIDE DEF q
    <2>5. FollowsBuild(q, q.build) /\ q.build = b
      BY <1>6, <1>9, <2>4 DEF FollowsBuild, SameSource
    <2>6. QED BY <2>2, <2>4, <2>5, FollowersRead
  <1>13. QED BY <1>10, <1>11, <1>12

-----------------------------------------------------------------------------
(* The transactions.                                                       *)

LEMMA SameLedger == ASSUME ledger' = ledger PROVE LedgerHolds(ledger)' <=> LedgerHolds(ledger)
  BY DEF LedgerHolds, Database, CheckpointsHold, Holds, HoldsPrefix, StrictAppendOf, EventsAfter, Upto,
         Stored, EndsAt, StandsFor, Past, FullReplay, Published, HeadsHold, HeadHolds

LEMMA RunKeeps ==
    ASSUME ProjectionIInv, NEW d, Stage(ledger, d), NEW b \in Builds, NEW known \in BOOLEAN,
           NEW fast \in BOOLEAN, NEW created \in BOOLEAN, NEW fits, created = FALSE => d = ledger,
           ProjectionRun(d, b, known, fast, created, fits)
    PROVE  ProjectionIInv'
  <1> DEFINE k == Newest(d.checkpoints)
             unread == known /\ fast /\ CheckpointsOn(d) /\ ~Decodes(d, k, b)
             dropped == [d EXCEPT !.checkpoints = @ \ {k}, !.mode = "untrusted"]
             from == IF unread THEN dropped ELSE d
             lots == FullReplay(d, b).lots
             seed == from.mode = "enabled" /\ fast
  <1>1. /\ \/ ~created /\ ledger' = d
           \/ /\ known /\ CheckpointsOn(d) /\ Resumable(d, k, b) /\ ~Collides(d, k)
              /\ ledger' = FastPath(d, k, b, fits)
           \/ FullReplay(d, b).ok /\ ledger' = FullPath(from, lots, b, known, seed, fits)
        /\ blind' = IF ledger' = ledger THEN blind ELSE ~known
    BY DEF ProjectionRun
  <1>0. /\ LedgerHolds(ledger) /\ AllReadable /\ blind \in BOOLEAN
        /\ Database(d) /\ Timed(d) /\ CheckpointsHold(d)
    BY DatabasesAreTimed DEF ProjectionIInv, Stage
  <1>2. CASE ledger' = ledger
    <2>1. blind' = blind
      BY <1>1, <1>2
    <2>2. AllReadable'
      BY <1>0, <1>2, <2>1 DEF AllReadable, Readable
    <2>3. QED BY <1>0, <1>2, <2>1, <2>2, SameLedger DEF ProjectionIInv
  <1>3. ASSUME NEW f, ledger' = f, LedgerHolds(f), known => AllRead(f), ledger' # ledger
        PROVE  ProjectionIInv'
    <2>1. blind' = ~known
      BY <1>1, <1>3
    <2>2. AllReadable'
      BY <1>3, <2>1 DEF AllReadable, AllRead, Readable
    <2>3. LedgerHolds(ledger')
      BY <1>3
    <2>4. LedgerHolds(ledger)'
      BY <2>3 DEF LedgerHolds, Database, CheckpointsHold, Holds, HoldsPrefix, StrictAppendOf, EventsAfter,
                  Upto, Stored, EndsAt, StandsFor, Past, FullReplay, Published, HeadsHold, HeadHolds
    <2>5. QED BY <2>1, <2>2, <2>4 DEF ProjectionIInv
  <1>4. CASE known /\ CheckpointsOn(d) /\ Resumable(d, k, b) /\ ~Collides(d, k)
             /\ ledger' = FastPath(d, k, b, fits)
    <2>1. k \in d.checkpoints
      BY <1>0, <1>4, NewestIsOneOfThem DEF CheckpointsOn
    <2> HIDE DEF k
    <2>2. PICK f : f = FastPath(d, k, b, fits)
      OBVIOUS
    <2>3. LedgerHolds(f) /\ AllRead(f)
      BY <1>0, <1>4, <2>1, <2>2, FastPathHolds
    <2>4. QED BY <1>2, <1>3, <1>4, <2>2, <2>3
  <1>5. CASE FullReplay(d, b).ok /\ ledger' = FullPath(from, lots, b, known, seed, fits)
    <2>1. Stage(ledger, from)
      <3>1. PICK ks : ks = d.checkpoints \ {k}
        OBVIOUS
      <3>2. ks \subseteq d.checkpoints /\ dropped = [d EXCEPT !.checkpoints = ks, !.mode = "untrusted"]
        BY <3>1
      <3>3. "untrusted" \in Modes
        BY DEF Modes
      <3> HIDE DEF dropped, unread
      <3>4. Stage(ledger, dropped)
        BY <3>2, <3>3, CheckpointsRemoved
      <3>5. QED BY <3>4
    <2>2. from.stored = d.stored
      <3>1. dropped.stored = d.stored
        BY <1>0 DEF Database, Fields
      <3> HIDE DEF dropped, unread
      <3>2. QED BY <3>1
    <2>3. FullReplay(from, b) = FullReplay(d, b)
      BY <1>0, <2>2, TimesSuffice
    <2>4. known /\ seed => \A j \in from.checkpoints : j.build = b
      <3> SUFFICES ASSUME known, seed, NEW j \in from.checkpoints PROVE j.build = b
        OBVIOUS
      <3>1. from.mode = "enabled" /\ fast
        OBVIOUS
      <3>2. ~unread
        <4>1. dropped.mode = "untrusted"
          BY <1>0 DEF Database, Fields
        <4> HIDE DEF dropped
        <4>2. QED BY <3>1, <4>1
      <3>3. d.mode = "enabled" /\ j \in d.checkpoints
        <4> HIDE DEF unread, dropped
        <4>1. QED BY <3>1, <3>2
      <3>4. k \in d.checkpoints
        BY <1>0, <3>3, NewestIsOneOfThem
      <3>5. k.build = b
        BY <3>1, <3>2, <3>3 DEF CheckpointsOn, Decodes
      <3>6. QED BY <1>0, <3>3, <3>4, <3>5 DEF CheckpointsHold
    <2> HIDE DEF from, seed, unread, dropped
    <2>5. PICK f : f = FullPath(from, FullReplay(from, b).lots, b, known, seed, fits)
      OBVIOUS
    <2>6. LedgerHolds(f) /\ (known => AllRead(f))
      BY <1>0, <1>5, <2>1, <2>3, <2>4, <2>5, FullPathHolds
    <2>7. ledger' = f
      BY <1>5, <2>3, <2>5
    <2>8. QED BY <1>2, <1>3, <2>6, <2>7
  <1>6. CASE ~created /\ ledger' = d
    BY <1>2, <1>6
  <1>7. QED BY <1>1, <1>4, <1>5, <1>6

LEMMA ProjectionStarts == ProjectionInit => ProjectionIInv
  <1> SUFFICES ASSUME ProjectionInit PROVE ProjectionIInv
    OBVIOUS
  <1>1. /\ ledger.stored = [e \in Trades |-> 0] /\ ledger.gen = 0 /\ ledger.build = "none"
        /\ ledger.checkpoints = {} /\ ledger.head = [a \in Accounts |-> NewHead]
        /\ ledger.mode = "disabled" /\ ledger.lots = NoLots
        /\ ledger = [f \in Fields |-> ledger[f]] /\ blind = FALSE
    BY DEF ProjectionInit, Fields, NoLots
  <1>2. NewHead \in Heads /\ NewHead.status = "none" /\ NoLots \in [Lots -> LotRecords]
    BY ProjectionAssumption, NoLotIsALot DEF NewHead, Heads
  <1>3. Database(ledger) /\ Timed(ledger)
    <2>1. Database(ledger)
      BY <1>1, <1>2, ProjectionAssumption DEF Database, Modes
    <2>2. QED BY <2>1, DatabasesAreTimed
  <1>4. CheckpointsHold(ledger)
    BY <1>1, FS_EmptySet DEF CheckpointsHold
  <1>5. Published(ledger)
    <2>1. PICK b \in Builds : TRUE
      BY ProjectionAssumption
    <2>2. Stored(ledger) = {} /\ Voids(ledger) = {}
      BY <1>1 DEF Stored, Voids
    <2>3. Effective(ledger) = {} /\ VoidsFit(ledger)
      BY <2>2 DEF Effective, VoidsFit
    <2>4. Full(ledger, {}, b).lots = NoLots /\ Full(ledger, {}, b).ok
      BY <1>3, FullOfNone
    <2>5. FullReplay(ledger, b).ok /\ FullReplay(ledger, b).lots = NoLots
      BY <2>3, <2>4, FullReplayIs
    <2>6. QED BY <1>1, <2>5 DEF Published
  <1>6. HeadsHold(ledger)
    <2>1. ASSUME NEW l \in Lots PROVE HeadHolds(ledger, l)
      <3>1. LotAccount[l] \in Accounts
        BY DEF Accounts
      <3>2. ledger.head[LotAccount[l]].status = "none" /\ ledger.lots[l] = NoLot
        BY <1>1, <1>2, <3>1 DEF NoLots
      <3>3. QED BY <3>2 DEF HeadHolds
    <2>2. QED BY <2>1 DEF HeadsHold
  <1>7. QED BY <1>1, <1>2, <1>3, <1>4, <1>5, <1>6 DEF ProjectionIInv, LedgerHolds, AllReadable

LEMMA WroteKeeps ==
    ASSUME ProjectionIInv, NEW d, Stage(ledger, d), NEW new, NEW b \in Builds, NEW known \in BOOLEAN,
           NEW fast \in BOOLEAN, NEW fits \in BOOLEAN, Wrote(d, new, b, known, fast, fits)
    PROVE  ProjectionIInv'
  <1>1. ProjectionRun(d, b, known, fast, TRUE, fits)
    BY DEF Wrote
  <1>2. QED BY <1>1, RunKeeps

LEMMA WritersKeep ==
    ASSUME ProjectionIInv, NEW b \in Builds, NEW known \in BOOLEAN, NEW fast \in BOOLEAN,
           NEW fits \in BOOLEAN, NEW e \in Trades, NEW t \in 1..MaxTradeTime,
           Write(b, known, e, t, fast, fits)
    PROVE  ProjectionIInv'
  <1>1. /\ LedgerHolds(ledger) /\ Database(ledger)
        /\ ledger.gen < MaxGeneration /\ ledger.stored[e] = 0
    BY DEF Write, ProjectionIInv, LedgerHolds
  <1>2. Stage(ledger, Inserted(ledger, e, t))
    BY <1>1, NothingStored, InsertedStages
  <1>3. Wrote(Inserted(ledger, e, t), {e}, b, known, fast, fits)
    BY DEF Write
  <1>4. QED BY <1>2, <1>3, WroteKeeps

LEMMA WritersOfBothKeep ==
    ASSUME ProjectionIInv, NEW b \in Builds, NEW known \in BOOLEAN, NEW fast \in BOOLEAN,
           NEW fits \in BOOLEAN, NEW e \in Trades, NEW t \in 1..MaxTradeTime,
           NEW f \in Trades, NEW u \in 1..MaxTradeTime,
           WriteBoth(b, known, e, t, f, u, fast, fits)
    PROVE  ProjectionIInv'
  <1> DEFINE c == Inserted(ledger, e, t)
  <1>1. /\ LedgerHolds(ledger) /\ Database(ledger) /\ e # f
        /\ ledger.gen + 1 < MaxGeneration /\ ledger.stored[e] = 0 /\ ledger.stored[f] = 0
    BY DEF WriteBoth, ProjectionIInv, LedgerHolds
  <1>2. ledger.gen \in Nat /\ MaxGeneration \in Nat /\ ledger.gen < MaxGeneration
    BY <1>1, ProjectionAssumption DEF Database
  <1>3. Stage(ledger, c)
    BY <1>1, <1>2, NothingStored, InsertedStages
  <1>4. c.stored = [ledger.stored EXCEPT ![e] = t] /\ c.gen = ledger.gen + 1
    BY <1>1, <1>2, InsertedIs
  <1> HIDE DEF c
  <1>5. c.stored[f] = 0 /\ c.gen < MaxGeneration
    BY <1>1, <1>4 DEF Database
  <1>6. Stage(ledger, Inserted(c, f, u))
    BY <1>1, <1>3, <1>5, InsertedStages
  <1>7. Wrote(Inserted(c, f, u), {e, f}, b, known, fast, fits)
    BY DEF WriteBoth, c
  <1>8. QED BY <1>6, <1>7, WroteKeeps

LEMMA RewriteKeeps ==
    ASSUME ProjectionIInv, NEW b \in Builds, NEW e \in Trades, NEW t \in 1..MaxTradeTime, Rewrite(b, e, t)
    PROVE  ProjectionIInv'
  <1>1. LedgerHolds(ledger) /\ ledger.gen < MaxGeneration
    BY DEF Rewrite, ProjectionIInv
  <1>2. Stage(ledger, Updated(ledger, e, t))
    BY <1>1, UpdatedStages
  <1>3. ProjectionRun(Updated(ledger, e, t), b, TRUE, FALSE, TRUE, TRUE)
    BY DEF Rewrite
  <1>4. QED BY <1>2, <1>3, RunKeeps

LEMMA RepeatsKeep ==
    ASSUME ProjectionIInv, NEW b \in Builds, NEW known \in BOOLEAN, NEW fits \in BOOLEAN,
           Repeat(b, fits) \/ Rebuild(b, known)
    PROVE  ProjectionIInv'
  <1>1. Stage(ledger, ledger)
    BY NothingStored DEF ProjectionIInv
  <1>2. \/ ProjectionRun(ledger, b, TRUE, TRUE, FALSE, fits)
        \/ ProjectionRun(ledger, b, known, FALSE, FALSE, TRUE)
    BY DEF Repeat, Rebuild
  <1>3. QED BY <1>1, <1>2, RunKeeps

LEMMA SwitchesKeep ==
    ASSUME ProjectionIInv, NEW b, Activate(b) \/ Deactivate PROVE ProjectionIInv'
  <1>1. LedgerHolds(ledger) /\ Database(ledger) /\ AllReadable /\ blind \in BOOLEAN
    BY DEF ProjectionIInv, LedgerHolds
  <1>2. PICK m \in {"enabled", "disabled"} : ledger' = [ledger EXCEPT !.mode = m]
    BY DEF Activate, Deactivate
  <1>3. blind' = blind
    BY DEF Activate, Deactivate
  <1>4. PICK f : f = ledger'
    OBVIOUS
  <1>5. /\ f = [x \in Fields |-> f[x]] /\ SameSource(ledger, f) /\ f.mode = m /\ f.lots = ledger.lots
        /\ f.checkpoints = ledger.checkpoints /\ f.build = ledger.build /\ f.head = ledger.head
    BY <1>1, <1>2, <1>4 DEF Database, Fields, SameSource
  <1>6. Database(f)
    BY <1>1, <1>5 DEF Database, SameSource, Modes
  <1>7. LedgerHolds(f)
    BY <1>1, <1>5, <1>6, LabelsDoNotCount
  <1>8. LedgerHolds(ledger)'
    <2>1. LedgerHolds(ledger')
      BY <1>4, <1>7
    <2>2. QED BY <2>1 DEF LedgerHolds, Database, CheckpointsHold, Holds, HoldsPrefix, StrictAppendOf, EventsAfter,
                    Upto, Stored, EndsAt, StandsFor, Past, FullReplay, Published, HeadsHold, HeadHolds
  <1>9. AllReadable'
    BY <1>1, <1>3, <1>4, <1>5 DEF AllReadable, Readable, SameSource
  <1>10. QED BY <1>1, <1>3, <1>8, <1>9 DEF ProjectionIInv

LEMMA MigrateKeeps ==
    ASSUME ProjectionIInv, NEW b \in Builds, Migrate(b) PROVE ProjectionIInv'
  <1>1. LedgerHolds(ledger) /\ Database(ledger) /\ Timed(ledger)
    BY DatabasesAreTimed DEF ProjectionIInv, LedgerHolds
  <1> DEFINE empty == [ledger EXCEPT !.checkpoints = {}]
             c == FullPath(empty, FullReplay(ledger, b).lots, b, TRUE, TRUE, TRUE)
  <1>2. FullReplay(ledger, b).ok /\ ledger' = [c EXCEPT !.mode = "disabled"] /\ blind' = FALSE
    BY DEF Migrate
  <1>3. PICK m \in Modes : m = ledger.mode
    BY <1>1 DEF Database
  <1>4. empty = [ledger EXCEPT !.checkpoints = {}, !.mode = m]
    <2> DEFINE x == [ledger EXCEPT !.checkpoints = {}, !.mode = m]
    <2>1. ledger = [f \in Fields |-> ledger[f]]
      BY <1>1 DEF Database
    <2>2. x = [f \in Fields |-> x[f]] /\ empty = [f \in Fields |-> empty[f]]
      BY <2>1
    <2>3. \A f \in Fields : x[f] = empty[f]
      BY <1>3, <2>1 DEF Fields
    <2> HIDE DEF x, empty
    <2>4. x = empty
      BY <2>2, <2>3
    <2>5. QED BY <2>4 DEF x
  <1>5. Stage(ledger, empty)
    <2>1. PICK ks : ks = {}
      OBVIOUS
    <2>2. ks \subseteq ledger.checkpoints /\ empty = [ledger EXCEPT !.checkpoints = ks, !.mode = m]
      BY <1>4, <2>1
    <2> HIDE DEF empty
    <2>3. QED BY <1>1, <2>2, NothingStored, CheckpointsRemoved
  <1>6. empty.checkpoints = {} /\ empty.stored = ledger.stored
    BY <1>1 DEF Database, Fields
  <1> HIDE DEF empty
  <1>7. FullReplay(empty, b) = FullReplay(ledger, b)
    BY <1>1, <1>6, TimesSuffice
  <1>8. LedgerHolds(c) /\ AllRead(c)
    <2>1. PICK known, fits : known = TRUE /\ fits = TRUE
      OBVIOUS
    <2>2. known \in BOOLEAN /\ c = FullPath(empty, FullReplay(empty, b).lots, b, known, known, fits)
      BY <1>7, <2>1
    <2> HIDE DEF c
    <2>3. QED BY <1>1, <1>2, <1>5, <1>6, <1>7, <2>1, <2>2, FullPathHolds
  <1> HIDE DEF c
  <1>9. PICK f : f = ledger'
    OBVIOUS
  <1>10. /\ f = [x \in Fields |-> f[x]] /\ SameSource(c, f) /\ f.mode = "disabled" /\ f.lots = c.lots
         /\ f.checkpoints = c.checkpoints /\ f.build = c.build /\ f.head = c.head
    BY <1>2, <1>8, <1>9 DEF LedgerHolds, Database, Fields, SameSource
  <1>11. Database(f)
    BY <1>8, <1>10 DEF LedgerHolds, Database, SameSource, Modes
  <1>12. LedgerHolds(f)
    BY <1>8, <1>10, <1>11, LabelsDoNotCount
  <1>13. LedgerHolds(ledger)'
    <2>1. LedgerHolds(ledger')
      BY <1>9, <1>12
    <2>2. QED BY <2>1 DEF LedgerHolds, Database, CheckpointsHold, Holds, HoldsPrefix, StrictAppendOf, EventsAfter,
                    Upto, Stored, EndsAt, StandsFor, Past, FullReplay, Published, HeadsHold, HeadHolds
  <1>14. AllReadable'
    BY <1>8, <1>9, <1>10 DEF AllReadable, AllRead, Readable, SameSource
  <1>15. QED BY <1>2, <1>13, <1>14 DEF ProjectionIInv

LEMMA ProjectionKeeps == ProjectionIInv /\ [ProjectionNext]_projectionVars => ProjectionIInv'
  <1> SUFFICES ASSUME ProjectionIInv, [ProjectionNext]_projectionVars PROVE ProjectionIInv'
    OBVIOUS
  <1>1. CASE UNCHANGED projectionVars
    <2>1. ledger' = ledger /\ blind' = blind
      BY <1>1 DEF projectionVars
    <2>2. AllReadable'
      BY <2>1 DEF ProjectionIInv, AllReadable, Readable
    <2>3. QED BY <2>1, <2>2, SameLedger DEF ProjectionIInv
  <1>2. ASSUME NEW b \in Builds, NEW known \in BOOLEAN, NEW fast \in BOOLEAN, NEW fits \in BOOLEAN,
               NEW e \in Trades, NEW t \in 1..MaxTradeTime, Write(b, known, e, t, fast, fits)
        PROVE  ProjectionIInv'
    BY <1>2, WritersKeep
  <1>2a. ASSUME NEW b \in Builds, NEW known \in BOOLEAN, NEW fast \in BOOLEAN, NEW fits \in BOOLEAN,
                NEW p \in Together, NEW t \in 1..MaxTradeTime, NEW u \in 1..MaxTradeTime,
                WriteBoth(b, known, p[1], t, p[2], u, fast, fits)
         PROVE  ProjectionIInv'
    <2>1. p[1] \in Trades /\ p[2] \in Trades BY ProjectionAssumption
    <2>2. QED BY <1>2a, <2>1, WritersOfBothKeep
  <1>3. ASSUME NEW b \in Builds, NEW e \in Trades, NEW t \in 1..MaxTradeTime, Rewrite(b, e, t)
        PROVE  ProjectionIInv'
    BY <1>3, RewriteKeeps
  <1>4. ASSUME NEW b \in Builds, NEW known \in BOOLEAN, NEW fits \in BOOLEAN, Repeat(b, fits) \/ Rebuild(b, known)
        PROVE  ProjectionIInv'
    BY <1>4, RepeatsKeep
  <1>5. ASSUME NEW b \in Builds, Migrate(b) \/ Activate(b) PROVE ProjectionIInv'
    BY <1>5, MigrateKeeps, SwitchesKeep
  <1>6. ASSUME Deactivate PROVE ProjectionIInv'
    BY <1>6, SwitchesKeep
  <1>7. QED BY <1>1, <1>2, <1>2a, <1>3, <1>4, <1>5, <1>6 DEF ProjectionNext

-----------------------------------------------------------------------------
(* What a preview shows.                                                   *)

LEMMA PreviewsReplay ==
    ASSUME LedgerHolds(ledger), CheckpointsOn(ledger), NEW b \in Builds,
           NEW e \in Trades \ Stored(ledger), NEW t \in 1..MaxTradeTime, PreviewResumes(b, e, t),
           FullReplay([ledger EXCEPT !.stored[e] = t], b).ok
    PROVE  PreviewLots(b, e, t).lots = OpenLots(FullReplay([ledger EXCEPT !.stored[e] = t], b).lots)
  <1> DEFINE c == [ledger EXCEPT !.stored[e] = t]
             k == Newest(ledger.checkpoints)
             now == TailReplay(ledger, k.state, EventsAfter(ledger, k), b)
             p == Past(ledger, k)
  <1>1. Database(ledger) /\ Timed(ledger) /\ Published(ledger) /\ CheckpointsHold(ledger) /\ Stage(ledger, ledger)
    BY NothingStored, DatabasesAreTimed DEF LedgerHolds
  <1>2. k \in ledger.checkpoints /\ k \in Checkpoints
    BY <1>1, NewestIsOneOfThem DEF CheckpointsOn, CheckpointsHold
  <1>3. k.build = b /\ now.ok
    BY DEF PreviewResumes, Resumable, Decodes
  <1>4. FullReplay(ledger, b).ok
    <2>1. PICK s \in Builds : FullReplay(ledger, s).ok
      BY <1>1 DEF Published
    <2>2. QED BY <1>1, <2>1, BuildsDiffer
  <1>5. now.lots = OpenLots(FullReplay(ledger, b).lots)
    <2> HIDE DEF k
    <2>1. k.state \in [Lots -> LotRecords] /\ EventsAfter(ledger, k) \in SUBSET Trades
      BY <1>2 DEF Checkpoints, EventsAfter, Stored
    <2>2. \A x \in EventsAfter(ledger, k) : Trade[x].kind \in {"open", "close"}
      BY <1>1, <1>3, <2>1, TailsAreTrades
    <2>3. /\ Extends(p, ledger) /\ New(p, ledger) = EventsAfter(ledger, k)
          /\ FullReplay(p, b).ok /\ k.state = OpenLots(FullReplay(p, b).lots)
      BY <1>1, <1>2, <1>3, <2>2, StagesExtend DEF LedgerHolds
    <2> HIDE DEF p
    <2>4. OpensOnce(Effective(p), New(p, ledger))
      BY <1>4, <2>3, ReplaysOpenOnce
    <2>5. TailReplay(ledger, k.state, New(p, ledger), b).ok
      BY <1>3, <2>3
    <2>6. QED BY <2>3, <2>4, <2>5, TailReplays
  <1>6. c.stored = [ledger.stored EXCEPT ![e] = t]
    BY <1>1 DEF Database, Fields
  <1>7. TailReplay(c, now.lots, {e}, b).ok /\ AppendsLast(e, t)
        /\ PreviewLots(b, e, t) = TailReplay(c, now.lots, {e}, b)
    BY DEF PreviewResumes, PreviewLots
  <1> HIDE DEF c, now, k, p
  <1>8. Timed(c) /\ e \in Trades /\ t \in Nat /\ t > 0 /\ New(ledger, c) = {e}
        /\ \A x \in Stored(ledger) : c.stored[x] = ledger.stored[x]
    <2>1. t \in Nat /\ t > 0
      BY ProjectionAssumption
    <2>2. Timed(c)
      BY <1>1, <1>6, <2>1 DEF Timed
    <2>3. Stored(c) = Stored(ledger) \cup {e} /\ \A x \in Stored(ledger) : c.stored[x] = ledger.stored[x]
      BY <1>1, <1>6, <2>1 DEF Timed, Stored
    <2>4. QED BY <2>1, <2>2, <2>3 DEF New
  <1>9. Trade[e].kind \in {"open", "close"}
    <2>1. PICK T, state : T = {e} /\ state = now.lots
      OBVIOUS
    <2>2. T \in SUBSET Trades /\ TailReplay(c, state, T, b).ok
      BY <1>7, <1>8, <2>1
    <2>3. state \in [Lots -> LotRecords]
      <3>1. FullReplay(ledger, b).lots \in [Lots -> LotRecords]
        BY <1>1, FullReplayIsTyped
      <3>2. state = [l \in Lots |-> Shown(FullReplay(ledger, b).lots[l])]
        BY <1>5, <2>1, OpenLotsAreShown
      <3>3. QED BY <3>1, <3>2, ShownIsALot
    <2>4. QED BY <1>8, <2>1, <2>2, <2>3, TailsAreTrades
  <1>10. Extends(ledger, c)
    <2>1. c.stored[e] = t
      BY <1>1, <1>6, <1>8 DEF Timed
    <2>2. QED BY <1>1, <1>7, <1>8, <1>9, <2>1 DEF Extends, AppendsLast
  <1>11. FullReplay(c, b).ok
    BY DEF c
  <1>12. OpensOnce(Effective(ledger), New(ledger, c))
    BY <1>4, <1>10, <1>11, ReplaysOpenOnce
  <1>13. TailReplay(c, now.lots, New(ledger, c), b).ok
    BY <1>7, <1>8
  <1>14. PICK state : state = now.lots
    OBVIOUS
  <1>15. TailReplay(c, state, New(ledger, c), b).lots = OpenLots(FullReplay(c, b).lots)
    BY <1>4, <1>5, <1>10, <1>12, <1>13, <1>14, TailReplays
  <1>16. PreviewLots(b, e, t).lots = OpenLots(FullReplay(c, b).lots)
    BY <1>7, <1>8, <1>14, <1>15
  <1>17. QED BY <1>16 DEF c

-----------------------------------------------------------------------------
(* The theorems.                                                           *)

LEMMA LotsHaveValues == ASSUME NEW v \in LotRecords PROVE LotValue(v)
  BY DEF LotRecords, LotValue

LEMMA ProjectionIsKept == ProjectionIInv => ProjectionInv
  <1> SUFFICES ASSUME ProjectionIInv PROVE ProjectionInv
    OBVIOUS
  <1>1. LedgerHolds(ledger) /\ Database(ledger) /\ CheckpointsHold(ledger) /\ Published(ledger)
        /\ HeadsHold(ledger) /\ blind \in BOOLEAN
    BY DEF ProjectionIInv, LedgerHolds
  <1>2. ProjectionTypeOK
    BY <1>1, LotsHaveValues DEF Database, Modes, ProjectionTypeOK
  <1>3. PublishedIsReplay
    BY <1>1 DEF Published, PublishedIsReplay
  <1>4. ReadersGetReplay
    <2> SUFFICES ASSUME NEW b \in Builds, NEW l \in Lots, Readable(ledger, LotAccount[l], b)
                 PROVE  ledger.lots[l] = FullReplay(ledger, b).lots[l]
      BY DEF ReadersGetReplay
    <2>1. HeadHolds(ledger, l)
      BY <1>1 DEF HeadsHold
    <2>2. QED BY <2>1 DEF HeadHolds, Readable
  <1>5. CheckpointsHoldPrefix
    BY <1>1 DEF CheckpointsHold, Holds, CheckpointsHoldPrefix
  <1>6. CheckpointsAreTrue
    <2>1. ASSUME NEW k \in ledger.checkpoints PROVE CheckpointIsTrue(k)
      <3>1. StandsFor(ledger, k)
        BY <1>1 DEF CheckpointsHold, Holds
      <3>2. \A j \in ledger.checkpoints \ {k} : NewerThan(j, k) \/ NewerThan(k, j)
        BY <1>1 DEF CheckpointsHold
      <3>3. QED BY <3>1, <3>2 DEF StandsFor, Past, CheckpointIsTrue
    <2>2. QED BY <2>1 DEF CheckpointsAreTrue
  <1>7. QED BY <1>2, <1>3, <1>4, <1>5, <1>6 DEF ProjectionInv

\* Whichever path published them, the lots are what a full replay of all stored
\* events by one build gives, readers get their own build's, and a checkpoint
\* holds what its prefix replays to (position_projection_runtime.py,
\* project_resumable_trade_events, the triggers of trade_events).
THEOREM PublicationsAreReplays == ProjectionSpec => []ProjectionInv
  <1>1. QED BY ProjectionStarts, ProjectionKeeps, ProjectionIsKept, PTL DEF ProjectionSpec

\* A preview resumed from a checkpoint shows the open lots that the commit of
\* its event publishes (preview_position_projection_append).
THEOREM PreviewsAreHonest == ProjectionSpec => []PreviewIsHonest
  <1>1. ProjectionIInv => PreviewIsHonest
    <2> SUFFICES ASSUME LedgerHolds(ledger), CheckpointsOn(ledger), NEW b \in Builds,
                        NEW e \in Trades \ Stored(ledger), NEW t \in 1..MaxTradeTime,
                        PreviewResumes(b, e, t), FullReplay([ledger EXCEPT !.stored[e] = t], b).ok
                 PROVE  PreviewLots(b, e, t).lots
                          = OpenLots(FullReplay([ledger EXCEPT !.stored[e] = t], b).lots)
      BY DEF ProjectionIInv, PreviewIsHonest
    <2>1. QED BY PreviewsReplay
  <1>2. QED BY <1>1, ProjectionStarts, ProjectionKeeps, PTL DEF ProjectionSpec

\* After a write that knows its implementation every account that has a head
\* can be read by that build, whichever of both paths published
\* (publish_full_position_projection_heads, read_current_position_projection).
THEOREM PositionsStayReadable == ProjectionSpec => []AllReadable
  <1>1. ProjectionIInv => AllReadable
    BY DEF ProjectionIInv
  <1>2. QED BY <1>1, ProjectionStarts, ProjectionKeeps, PTL DEF ProjectionSpec

\* A trusted checkpoint stands for exactly the stored events up to its end, and
\* the generation counts exactly those after it, whatever was stored late,
\* voided, rewritten or pruned (trg_trade_events_source_insert and _update).
THEOREM CheckpointsStandForPrefixes == ProjectionSpec => []CheckpointsHoldPrefix
  <1>1. ProjectionIInv => CheckpointsHoldPrefix
    BY ProjectionIsKept DEF ProjectionInv
  <1>2. QED BY <1>1, ProjectionStarts, ProjectionKeeps, PTL DEF ProjectionSpec

===============================================================================
