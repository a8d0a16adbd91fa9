------------------------ MODULE RepositoryIndex_proofs ------------------------
(***************************************************************************)
(* Proofs about RepositoryIndex: the two indexes hold one snapshot, what   *)
(* is found quotes the repository, the merge keeps what both rankings      *)
(* agree on, and an ingestion loses no file, for any number of files and   *)
(* any limits.                                                             *)
(***************************************************************************)
EXTENDS RepositoryIndex, FiniteSetTheorems, SequenceTheorems, TLAPS

LEMMA LessOfTwo ==
  ASSUME NEW a \in Int, NEW b \in Int
  PROVE  Min({a, b}) = IF a <= b THEN a ELSE b
<1>1. PICK m \in {a, b} : \A y \in {a, b} : m =< y
  <2>1. CASE a <= b
    BY <2>1
  <2>2. CASE b < a
    BY <2>2
  <2> QED
    BY <2>1, <2>2
<1>2. Min({a, b}) \in {a, b} /\ \A y \in {a, b} : Min({a, b}) =< y
  BY <1>1 DEF Min
<1> QED
  BY <1>2

LEMMA MoreOfTwo ==
  ASSUME NEW a \in Int, NEW b \in Int
  PROVE  Max({a, b}) = IF a >= b THEN a ELSE b
<1>1. PICK m \in {a, b} : \A y \in {a, b} : m >= y
  <2>1. CASE a >= b
    BY <2>1
  <2>2. CASE b > a
    BY <2>2
  <2> QED
    BY <2>1, <2>2
<1>2. Max({a, b}) \in {a, b} /\ \A y \in {a, b} : Max({a, b}) >= y
  BY <1>1 DEF Max
<1> QED
  BY <1>2

(* At least twenty and at most two hundred chunks of each index are merged. *)
LEMMA PoolSize == Pool \in 20..200
<1>1. TopK \in Int /\ 4 * TopK \in Int /\ TopK >= 1
  BY LimitsAssumption
<1>2. Max({4 * TopK, 20}) \in Int /\ Max({4 * TopK, 20}) >= 20
  BY <1>1, MoreOfTwo
<1>3. \A n \in Int : Min({n, 200}) = IF n <= 200 THEN n ELSE 200
  BY LessOfTwo
<1> QED
  BY <1>2, <1>3 DEF Pool

(* The first n of a ranking. *)
LEMMA TopIs ==
  ASSUME NEW S, NEW m \in Nat, NEW r \in [1..m -> S], NEW n \in Nat
  PROVE  /\ DOMAIN Top(n, r) = {i \in 1..m : i <= n}
         /\ \A i \in DOMAIN Top(n, r) : Top(n, r)[i] = r[i]
<1> DEFINE k == IF n <= m THEN n ELSE m
<1>1. r \in Seq(S) /\ Len(r) = m
  BY SeqDef
<1>2. Top(n, r) = SubSeq(r, 1, k) /\ k \in Int /\ k >= 0
  BY <1>1, LessOfTwo DEF Top
<1>3. /\ SubSeq(r, 1, k) \in Seq(S)
      /\ Len(SubSeq(r, 1, k)) = k
      /\ \A i \in 1..k : SubSeq(r, 1, k)[i] = r[i]
  <2>1. \A i \in 1..k : r[i] \in S
    BY <1>2
  <2>2. /\ SubSeq(r, 1, k) \in Seq(S)
        /\ Len(SubSeq(r, 1, k)) = IF 1 <= k THEN k - 1 + 1 ELSE 0
        /\ \A i \in 1 .. k - 1 + 1 : SubSeq(r, 1, k)[i] = r[1 + i - 1]
    BY <1>2, <2>1, SubSeqProperties
  <2> QED
    BY <1>2, <2>2
<1>4. DOMAIN SubSeq(r, 1, k) = 1..k
  BY <1>3, LenProperties
<1>5. 1..k = {i \in 1..m : i <= n}
  OBVIOUS
<1> HIDE DEF k
<1> QED
  BY <1>2, <1>3, <1>4, <1>5

-----------------------------------------------------------------------------
(* Rankings and reciprocal ranks *)

LEMMA RankingIs ==
  ASSUME NEW S, IsFiniteSet(S), NEW r \in Rankings(S)
  PROVE  /\ Cardinality(S) \in Nat /\ r \in [1..Cardinality(S) -> S]
         /\ ToSet(r) = S
         /\ \A c \in S : /\ Position(r, c) \in DOMAIN r /\ Position(r, c) \in Nat \ {0}
                        /\ \A j \in DOMAIN r : r[j] = c <=> j = Position(r, c)
<1>1. Cardinality(S) \in Nat /\ r \in [1..Cardinality(S) -> S]
  BY FS_CardinalityType DEF Rankings
<1>2. \A c \in S : \E k \in DOMAIN r : \A j \in DOMAIN r : r[j] = c <=> j = k
  BY DEF Rankings
<1>3. ToSet(r) = S
  BY <1>1, <1>2 DEF ToSet
<1>4. ASSUME NEW c \in S
      PROVE  /\ Position(r, c) \in DOMAIN r
             /\ \A j \in DOMAIN r : r[j] = c <=> j = Position(r, c)
  <2>1. PICK k \in DOMAIN r : \A j \in DOMAIN r : r[j] = c <=> j = k
    BY <1>2
  <2>2. Position(r, c) \in DOMAIN r /\ r[Position(r, c)] = c
    BY <2>1 DEF Position
  <2> QED
    BY <2>1, <2>2
<1>5. DOMAIN r \subseteq Nat \ {0}
  BY <1>1
<1> QED
  BY <1>1, <1>3, <1>4, <1>5

(* What a chunk's place in one index adds to its score: nothing behind the   *)
(* pool.                                                                    *)
LEMMA ReciprocalIs ==
  ASSUME NEW S, IsFiniteSet(S), NEW r \in Rankings(S), NEW c
  PROVE  Reciprocal(Top(Pool, r), c) =
           IF c \in S /\ Position(r, c) <= Pool THEN Share(Position(r, c)) ELSE 0
<1> DEFINE t == Top(Pool, r)
<1>1. /\ Pool \in Nat /\ Cardinality(S) \in Nat /\ r \in [1..Cardinality(S) -> S]
      /\ DOMAIN r = 1..Cardinality(S)
  BY PoolSize, RankingIs
<1>2. /\ DOMAIN t = {i \in 1..Cardinality(S) : i <= Pool}
      /\ \A i \in DOMAIN t : t[i] = r[i]
  <2>1. PICK m : m = Cardinality(S)
    OBVIOUS
  <2>2. m \in Nat /\ r \in [1..m -> S]
    BY <1>1, <2>1
  <2>3. /\ DOMAIN Top(Pool, r) = {i \in 1..m : i <= Pool}
        /\ \A i \in DOMAIN Top(Pool, r) : Top(Pool, r)[i] = r[i]
    <3>1. \A n \in Nat : /\ DOMAIN Top(n, r) = {i \in 1..m : i <= n}
                         /\ \A i \in DOMAIN Top(n, r) : Top(n, r)[i] = r[i]
      BY <2>2, TopIs
    <3> QED
      BY <1>1, <3>1
  <2> QED
    BY <2>1, <2>3
<1>3. \A i \in DOMAIN t : i \in DOMAIN r /\ i <= Pool /\ t[i] = r[i] /\ r[i] \in S
  BY <1>1, <1>2
<1>4. \A i \in DOMAIN r : i <= Pool => i \in DOMAIN t
  BY <1>1, <1>2
<1> HIDE DEF t
<1>5. CASE c \in S /\ Position(r, c) <= Pool
  <2>1. Position(r, c) \in DOMAIN t /\ t[Position(r, c)] = c
    BY <1>3, <1>4, <1>5, RankingIs
  <2>2. \A i \in DOMAIN t : t[i] = c => i = Position(r, c)
    BY <1>3, <1>5, RankingIs
  <2>3. Position(t, c) = Position(r, c)
    BY <2>1, <2>2 DEF Position
  <2> QED
    BY <1>5, <2>1, <2>3 DEF Reciprocal, t
<1>6. CASE ~ (c \in S /\ Position(r, c) <= Pool)
  <2>1. ~ \E i \in DOMAIN t : t[i] = c
    BY <1>3, <1>6, RankingIs
  <2> QED
    BY <1>6, <2>1 DEF Reciprocal, t
<1> QED
  BY <1>5, <1>6

(* Quotients of a million differ between any two neighbours up to 260. *)
LEMMA RanksDiffer ==
  ASSUME NEW a \in Nat, NEW b \in Nat, 61 <= a, a < b, b <= 260
  PROVE  1000000 \div a > 1000000 \div b
<1> DEFINE q == 1000000 \div a
           p == 1000000 \div b
<1>1. q \in Int /\ p \in Int /\ 1000000 < (q + 1) * a /\ p * b <= 1000000
  <2>1. \A n \in Nat, d \in Nat \ {0} : /\ n \div d \in Int
                                       /\ d * (n \div d) <= n
                                       /\ n < d * (n \div d) + d
    OBVIOUS
  <2> QED
    BY <2>1
<1> HIDE DEF q, p
<1>2. SUFFICES ASSUME q <= p PROVE FALSE
  BY <1>1 DEF q, p
<1>3. q >= 3000
  <2> SUFFICES ASSUME q < 3000 PROVE FALSE
    BY <1>1
  <2>1. (q + 1) * a <= 3000 * a
    BY <1>1
  <2> QED
    BY <1>1, <2>1
<1>4. p * b >= q * (a + 1)
  <2>1. p * b >= q * b
    BY <1>1, <1>2
  <2>2. q * b >= q * (a + 1)
    BY <1>1, <1>3
  <2> QED
    BY <1>1, <2>1, <2>2
<1>5. q * (a + 1) = q * a + q /\ (q + 1) * a = q * a + a
  BY <1>1
<1>6. q * a \in Int
  BY <1>1
<1> QED
  BY <1>1, <1>3, <1>4, <1>5, <1>6

LEMMA Shares ==
  /\ \A n \in Nat : Share(n) \in Nat
  /\ \A m, n \in 1..200 : m < n => Share(m) > Share(n)
<1>1. ASSUME NEW n \in Nat PROVE Share(n) \in Nat
  BY DEF Share
<1>2. ASSUME NEW m \in 1..200, NEW n \in 1..200, m < n PROVE Share(m) > Share(n)
  <2>1. /\ 60 + m \in Nat /\ 60 + n \in Nat
        /\ 61 <= 60 + m /\ 60 + m < 60 + n /\ 60 + n <= 260
    BY <1>2
  <2>2. 1000000 \div (60 + m) > 1000000 \div (60 + n)
    <3>1. \A a, b \in Nat : 61 <= a /\ a < b /\ b <= 260 => 1000000 \div a > 1000000 \div b
      BY RanksDiffer
    <3> DEFINE a == 60 + m
               b == 60 + n
    <3>2. a \in Nat /\ b \in Nat /\ 61 <= a /\ a < b /\ b <= 260
      BY <2>1
    <3> HIDE DEF a, b
    <3>3. 1000000 \div a > 1000000 \div b
      BY <3>1, <3>2
    <3> QED
      BY <3>3 DEF a, b
  <2> QED
    BY <2>2 DEF Share
<1> QED
  BY <1>1, <1>2

(* Two places among the first 61 are worth more than the first place of one *)
(* list.                                                                    *)
LEMMA TwoBeatOne ==
  ASSUME NEW a \in 1..61, NEW b \in 1..61, NEW c \in Nat \ {0}
  PROVE  Share(a) + Share(b) > Share(c)
<1>1. \A n \in 1..61 : Share(n) \in Int /\ Share(n) >= 8264
  <2> SUFFICES ASSUME NEW n \in 1..61
               PROVE  Share(n) \in Int /\ Share(n) >= 8264
    OBVIOUS
  <2> DEFINE q == Share(n)
  <2>1. q \in Int /\ 1000000 < (60 + n) * q + (60 + n)
    BY DEF Share
  <2> HIDE DEF q
  <2>2. SUFFICES ASSUME q < 8264 PROVE FALSE
    BY <2>1 DEF q
  <2>3. (60 + n) * q + (60 + n) <= (60 + n) * 8264
    BY <2>1, <2>2
  <2> QED
    BY <2>1, <2>3
<1>2. Share(c) \in Int /\ Share(c) <= 16393
  <2> DEFINE q == Share(c)
  <2>1. q \in Int /\ (60 + c) * q <= 1000000
    BY DEF Share
  <2> HIDE DEF q
  <2>2. SUFFICES ASSUME q > 16393 PROVE FALSE
    BY <2>1 DEF q
  <2>3. (60 + c) * q >= 61 * q
    BY <2>1, <2>2
  <2> QED
    BY <2>1, <2>2, <2>3
<1> QED
  BY <1>1, <1>2

-----------------------------------------------------------------------------
(* Merging *)

(* What a retriever takes of a ranking. *)
LEMMA TopOfRanking ==
  ASSUME NEW S, IsFiniteSet(S), NEW r \in Rankings(S), NEW n \in Nat
  PROVE  /\ DOMAIN Top(n, r) = {i \in DOMAIN r : i <= n}
         /\ \A i \in DOMAIN Top(n, r) : Top(n, r)[i] = r[i]
         /\ \A c : c \in ToSet(Top(n, r)) <=> c \in S /\ Position(r, c) <= n
<1>1. /\ DOMAIN Top(n, r) = {i \in DOMAIN r : i <= n}
      /\ \A i \in DOMAIN Top(n, r) : Top(n, r)[i] = r[i]
  <2>1. PICK m : m = Cardinality(S)
    OBVIOUS
  <2>2. m \in Nat /\ r \in [1..m -> S] /\ DOMAIN r = 1..m
    BY <2>1, RankingIs
  <2>3. /\ DOMAIN Top(n, r) = {i \in 1..m : i <= n}
        /\ \A i \in DOMAIN Top(n, r) : Top(n, r)[i] = r[i]
    <3>1. \A k \in Nat : /\ DOMAIN Top(k, r) = {i \in 1..m : i <= k}
                         /\ \A i \in DOMAIN Top(k, r) : Top(k, r)[i] = r[i]
      BY <2>2, TopIs
    <3> QED
      BY <3>1
  <2> QED
    BY <2>2, <2>3
<1>2. ASSUME NEW c, c \in ToSet(Top(n, r)) PROVE c \in S /\ Position(r, c) <= n
  <2>1. PICK i \in DOMAIN r : i <= n /\ r[i] = c
    BY <1>1, <1>2 DEF ToSet
  <2>2. c \in S
    BY <2>1, RankingIs
  <2> QED
    BY <2>1, <2>2, RankingIs
<1>3. ASSUME NEW c \in S, Position(r, c) <= n PROVE c \in ToSet(Top(n, r))
  <2>1. Position(r, c) \in DOMAIN Top(n, r) /\ Top(n, r)[Position(r, c)] = c
    BY <1>1, <1>3, RankingIs
  <2> QED
    BY <2>1 DEF ToSet
<1> QED
  BY <1>1, <1>2, <1>3

LEMMA ReciprocalIsNat ==
  ASSUME NEW S, IsFiniteSet(S), NEW r \in Rankings(S), NEW c
  PROVE  Reciprocal(Top(Pool, r), c) \in Nat
<1>1. CASE c \in S /\ Position(r, c) <= Pool
  <2>1. Position(r, c) \in Nat
    BY <1>1, RankingIs
  <2> QED
    BY <1>1, <2>1, Shares, ReciprocalIs
<1>2. CASE ~ (c \in S /\ Position(r, c) <= Pool)
  BY <1>2, ReciprocalIs
<1> QED
  BY <1>1, <1>2

(* In one list the higher of two chunks adds more, or both add nothing. *)
LEMMA HigherAddsMore ==
  ASSUME NEW S, IsFiniteSet(S), NEW r \in Rankings(S), NEW c \in S, NEW d \in S,
         Position(r, c) < Position(r, d)
  PROVE  /\ Reciprocal(Top(Pool, r), c) >= Reciprocal(Top(Pool, r), d)
         /\ Position(r, d) <= Pool =>
              /\ Position(r, c) <= Pool
              /\ Reciprocal(Top(Pool, r), c) > Reciprocal(Top(Pool, r), d)
<1>1. Position(r, c) \in Nat \ {0} /\ Position(r, d) \in Nat \ {0} /\ Pool \in 20..200
  BY RankingIs, PoolSize
<1>2. ASSUME Position(r, d) <= Pool
      PROVE  /\ Position(r, c) <= Pool
             /\ Reciprocal(Top(Pool, r), c) > Reciprocal(Top(Pool, r), d)
  <2>1. Position(r, c) <= Pool /\ Position(r, c) \in 1..200 /\ Position(r, d) \in 1..200
    BY <1>1, <1>2
  <2>2. Share(Position(r, c)) > Share(Position(r, d))
    BY <2>1, Shares
  <2> QED
    BY <1>2, <2>1, <2>2, ReciprocalIs
<1>3. CASE Position(r, d) <= Pool
  BY <1>2, <1>3, ReciprocalIsNat
<1>4. CASE ~ (Position(r, d) <= Pool)
  <2>1. Reciprocal(Top(Pool, r), d) = 0
    BY <1>4, ReciprocalIs
  <2> QED
    BY <1>4, <2>1, ReciprocalIsNat
<1> QED
  BY <1>3, <1>4, <1>2

(* Agreement of the two lists decides the scores ... *)
LEMMA AgreementScores ==
  ASSUME NEW S, IsFiniteSet(S), NEW M \in SUBSET S,
         NEW byText \in Rankings(M), NEW byVector \in Rankings(S), NEW boosted,
         NEW c \in M, NEW d \in S,
         d \in boosted => c \in boosted,
         \/ /\ d \in M
            /\ Position(byText, c) < Position(byText, d)
            /\ Position(byVector, c) < Position(byVector, d)
         \/ /\ d \notin M
            /\ Position(byText, c) <= Min({61, Pool})
            /\ Position(byVector, c) <= Min({61, Pool}),
         d \in ToSet(Top(Pool, byText)) \cup ToSet(Top(Pool, byVector))
  PROVE  /\ c \in ToSet(Top(Pool, byText)) \cup ToSet(Top(Pool, byVector))
         /\ Score(Top(Pool, byText), Top(Pool, byVector), boosted, c)
              > Score(Top(Pool, byText), Top(Pool, byVector), boosted, d)
<1> DEFINE text(x) == Reciprocal(Top(Pool, byText), x)
           vector(x) == Reciprocal(Top(Pool, byVector), x)
<1>1. IsFiniteSet(M) /\ c \in S
  BY FS_Subset
<1>2. /\ Position(byText, c) \in Nat \ {0} /\ Position(byVector, c) \in Nat \ {0}
      /\ Position(byVector, d) \in Nat \ {0} /\ Pool \in 20..200
      /\ text(c) \in Nat /\ text(d) \in Nat /\ vector(c) \in Nat /\ vector(d) \in Nat
  BY <1>1, RankingIs, PoolSize, ReciprocalIsNat
<1>P. /\ \A x : x \in ToSet(Top(Pool, byText)) <=> x \in M /\ Position(byText, x) <= Pool
      /\ \A x : x \in ToSet(Top(Pool, byVector)) <=> x \in S /\ Position(byVector, x) <= Pool
  <2>1. \A k \in Nat : \A x : x \in ToSet(Top(k, byText)) <=> x \in M /\ Position(byText, x) <= k
    BY <1>1, TopOfRanking
  <2>2. \A k \in Nat : \A x : x \in ToSet(Top(k, byVector)) <=> x \in S /\ Position(byVector, x) <= k
    BY TopOfRanking
  <2> QED
    BY <1>2, <2>1, <2>2
<1>3. (d \in M /\ Position(byText, d) <= Pool) \/ Position(byVector, d) <= Pool
  BY <1>P
<1>4. SUFFICES /\ Position(byText, c) <= Pool \/ Position(byVector, c) <= Pool
               /\ text(c) + vector(c) > text(d) + vector(d)
  <2>1. ASSUME Position(byText, c) <= Pool \/ Position(byVector, c) <= Pool
        PROVE  c \in ToSet(Top(Pool, byText)) \cup ToSet(Top(Pool, byVector))
    BY <1>1, <2>1, <1>P
  <2>2. ASSUME text(c) + vector(c) > text(d) + vector(d)
        PROVE  Score(Top(Pool, byText), Top(Pool, byVector), boosted, c)
                 > Score(Top(Pool, byText), Top(Pool, byVector), boosted, d)
    <3> HIDE DEF text, vector
    <3>1. /\ Bonus(boosted, c) \in Nat /\ Bonus(boosted, d) \in Nat
          /\ Bonus(boosted, c) >= Bonus(boosted, d)
      BY DEF Bonus
    <3>2. text(c) + vector(c) + Bonus(boosted, c) > text(d) + vector(d) + Bonus(boosted, d)
      BY <1>2, <2>2, <3>1
    <3> QED
      BY <3>2 DEF Score, text, vector
  <2> QED
    BY <2>1, <2>2
<1>5. CASE /\ d \in M
           /\ Position(byText, c) < Position(byText, d)
           /\ Position(byVector, c) < Position(byVector, d)
  <2>1. /\ text(c) >= text(d)
        /\ Position(byText, d) <= Pool => Position(byText, c) <= Pool /\ text(c) > text(d)
    BY <1>1, <1>5, HigherAddsMore
  <2>2. /\ vector(c) >= vector(d)
        /\ Position(byVector, d) <= Pool =>
             Position(byVector, c) <= Pool /\ vector(c) > vector(d)
    BY <1>1, <1>5, HigherAddsMore
  <2> HIDE DEF text, vector
  <2> QED
    BY <1>2, <1>3, <2>1, <2>2
<1>6. CASE /\ d \notin M
           /\ Position(byText, c) <= Min({61, Pool})
           /\ Position(byVector, c) <= Min({61, Pool})
  <2>1. /\ Position(byText, c) <= Pool /\ Position(byVector, c) <= Pool
        /\ Position(byText, c) <= 61 /\ Position(byVector, c) <= 61
    <3>1. Min({61, Pool}) <= 61 /\ Min({61, Pool}) <= Pool /\ Min({61, Pool}) \in Int
      BY <1>2, LessOfTwo
    <3> QED
      BY <1>2, <1>6, <3>1
  <2>2. /\ text(c) = Share(Position(byText, c))
        /\ vector(c) = Share(Position(byVector, c))
        /\ text(d) = 0
        /\ vector(d) = Share(Position(byVector, d))
    BY <1>1, <1>3, <1>6, <2>1, ReciprocalIs
  <2>3. Position(byText, c) \in 1..61 /\ Position(byVector, c) \in 1..61
    BY <1>2, <2>1
  <2>4. Share(Position(byText, c)) + Share(Position(byVector, c)) > Share(Position(byVector, d))
    BY <1>2, <2>3, TwoBeatOne
  <2> HIDE DEF text, vector
  <2> QED
    BY <1>2, <2>1, <2>2, <2>4
<1> QED
  BY <1>5, <1>6

(* ... and what is never behind another is not behind it after the cut. *)
LEMMA OrderSurvivesCut ==
  ASSUME NEW U, IsFiniteSet(U), NEW merged \in Rankings(U),
         NEW c \in U, NEW d \in U, c # d,
         \A i, j \in DOMAIN merged : i < j => ~ (merged[i] = d /\ merged[j] = c),
         NEW n \in Nat, d \in ToSet(Top(n, merged))
  PROVE  /\ c \in ToSet(Top(n, merged))
         /\ Position(Top(n, merged), c) < Position(Top(n, merged), d)
<1>1. /\ Position(merged, c) \in DOMAIN merged /\ Position(merged, c) \in Nat
      /\ Position(merged, d) \in DOMAIN merged /\ Position(merged, d) \in Nat
      /\ merged[Position(merged, c)] = c /\ merged[Position(merged, d)] = d
  BY RankingIs
<1>2. Position(merged, c) < Position(merged, d)
  <2>1. Position(merged, c) # Position(merged, d)
    BY <1>1
  <2>2. ~ (Position(merged, d) < Position(merged, c))
    BY <1>1
  <2> QED
    BY <1>1, <2>1, <2>2
<1>3. /\ DOMAIN Top(n, merged) = {i \in DOMAIN merged : i <= n}
      /\ \A i \in DOMAIN Top(n, merged) : Top(n, merged)[i] = merged[i]
      /\ \A x : x \in ToSet(Top(n, merged)) <=> x \in U /\ Position(merged, x) <= n
  <2>1. \A k \in Nat :
          /\ DOMAIN Top(k, merged) = {i \in DOMAIN merged : i <= k}
          /\ \A i \in DOMAIN Top(k, merged) : Top(k, merged)[i] = merged[i]
          /\ \A x : x \in ToSet(Top(k, merged)) <=> x \in U /\ Position(merged, x) <= k
    BY TopOfRanking
  <2> QED
    BY <2>1
<1>4. ASSUME NEW x \in U, Position(merged, x) <= n
      PROVE  Position(Top(n, merged), x) = Position(merged, x)
  <2>1. /\ Position(merged, x) \in DOMAIN merged
        /\ \A i \in DOMAIN merged : merged[i] = x <=> i = Position(merged, x)
    BY RankingIs
  <2>2. /\ Position(merged, x) \in DOMAIN Top(n, merged)
        /\ \A i \in DOMAIN Top(n, merged) : Top(n, merged)[i] = x <=> i = Position(merged, x)
    BY <1>3, <1>4, <2>1
  <2> QED
    BY <2>2 DEF Position
<1>5. Position(merged, d) <= n /\ Position(merged, c) <= n
  BY <1>1, <1>2, <1>3
<1>6. /\ Position(Top(n, merged), c) = Position(merged, c)
      /\ Position(Top(n, merged), d) = Position(merged, d)
  BY <1>4, <1>5
<1> QED
  BY <1>2, <1>3, <1>5, <1>6

(* AgreementWins, of any result. *)
Wins(res) ==
  \A c, d \in ToSet(res.semantic) :
    /\ c # d
    /\ d \in res.boosted => c \in res.boosted
    /\ c \in ToSet(res.lexical)
    /\ \/ /\ d \in ToSet(res.lexical)
          /\ Position(res.lexical, c) < Position(res.lexical, d)
          /\ Position(res.semantic, c) < Position(res.semantic, d)
       \/ /\ d \notin ToSet(res.lexical)
          /\ Position(res.lexical, c) <= Min({61, Pool})
          /\ Position(res.semantic, c) <= Min({61, Pool})
    /\ d \in ToSet(res.selected)
    => /\ c \in ToSet(res.selected)
       /\ Position(res.selected, c) < Position(res.selected, d)

LEMMA MergeWins ==
  ASSUME NEW S, IsFiniteSet(S), NEW M \in SUBSET S, NEW boosted,
         NEW byText \in Rankings(M), NEW byVector \in Rankings(S),
         NEW merged \in Merges(Top(Pool, byText), Top(Pool, byVector), boosted)
  PROVE  /\ ToSet(Top(TopK, merged)) \subseteq S
         /\ Wins([lexical |-> byText, semantic |-> byVector, boosted |-> boosted,
                  selected |-> Top(TopK, merged)])
<1> DEFINE t == Top(Pool, byText)
           v == Top(Pool, byVector)
           U == ToSet(t) \cup ToSet(v)
           score(x) == Score(t, v, boosted, x)
           tie(x, y) == x.file < y.file
<1>0. TopK \in Nat /\ Pool \in Nat
  BY LimitsAssumption, PoolSize
<1>1. IsFiniteSet(M) /\ U \subseteq S /\ IsFiniteSet(U)
  <2>1. IsFiniteSet(M)
    BY FS_Subset
  <2>2. ToSet(t) \subseteq M /\ ToSet(v) \subseteq S
    <3>1. \A k \in Nat : /\ \A x \in ToSet(Top(k, byText)) : x \in M
                         /\ \A x \in ToSet(Top(k, byVector)) : x \in S
      BY <2>1, TopOfRanking
    <3> QED
      BY <1>0, <3>1
  <2>3. U \subseteq S
    BY <2>2
  <2> HIDE DEF U
  <2> QED
    BY <2>1, <2>3, FS_Subset
<1>2. /\ merged \in Rankings(U)
      /\ \A i, j \in DOMAIN merged : i < j =>
           \/ score(merged[i]) > score(merged[j])
           \/ score(merged[i]) = score(merged[j]) /\ tie(merged[i], merged[j])
  BY DEF Merges
<1>3. ToSet(byVector) = S /\ ToSet(byText) = M
  BY <1>1, RankingIs
<1>4. \A x \in U : score(x) \in Nat
  <2> SUFFICES ASSUME NEW x \in U PROVE Score(t, v, boosted, x) \in Nat
    OBVIOUS
  <2>1. Reciprocal(t, x) \in Nat /\ Reciprocal(v, x) \in Nat /\ Bonus(boosted, x) \in Nat
    BY <1>1, ReciprocalIsNat DEF Bonus
  <2> QED
    BY <2>1 DEF Score
<1>5. ToSet(Top(TopK, merged)) \subseteq U
  <2> HIDE DEF U
  <2> QED
    BY <1>0, <1>1, <1>2, TopOfRanking
<1>6. ASSUME NEW c \in S, NEW d \in S,
             d \in boosted => c \in boosted, c \in M,
             \/ /\ d \in M
                /\ Position(byText, c) < Position(byText, d)
                /\ Position(byVector, c) < Position(byVector, d)
             \/ /\ d \notin M
                /\ Position(byText, c) <= Min({61, Pool})
                /\ Position(byVector, c) <= Min({61, Pool}),
             d \in ToSet(Top(TopK, merged))
      PROVE  /\ c \in ToSet(Top(TopK, merged))
             /\ Position(Top(TopK, merged), c) < Position(Top(TopK, merged), d)
  <2>1. d \in U
    BY <1>5, <1>6
  <2>2. c \in U /\ score(c) > score(d)
    BY <1>6, <2>1, AgreementScores
  <2> HIDE DEF U, score, tie
  <2>3. /\ c # d
        /\ \A i, j \in DOMAIN merged : i < j => ~ (merged[i] = d /\ merged[j] = c)
    BY <1>2, <1>4, <2>1, <2>2
  <2>4. \A k \in Nat : d \in ToSet(Top(k, merged)) =>
          /\ c \in ToSet(Top(k, merged))
          /\ Position(Top(k, merged), c) < Position(Top(k, merged), d)
    BY <1>1, <1>2, <2>1, <2>2, <2>3, OrderSurvivesCut
  <2> QED
    BY <1>0, <1>6, <2>4
<1> DEFINE res == [lexical |-> byText, semantic |-> byVector, boosted |-> boosted,
                   selected |-> Top(TopK, merged)]
<1>7. /\ res.lexical = byText /\ res.semantic = byVector /\ res.boosted = boosted
      /\ res.selected = Top(TopK, merged)
  OBVIOUS
<1> HIDE DEF res, t, v, U, score, tie
<1>8. Wins(res)
  BY <1>3, <1>6, <1>7 DEF Wins
<1> QED
  BY <1>1, <1>5, <1>8 DEF res

-----------------------------------------------------------------------------
(* Types *)

LEMMA InitType == Init => TypeOK
<1> SUFFICES ASSUME Init PROVE TypeOK
  OBVIOUS
<1>1. accepted \in Seq([name : Names, size : 0..MaxSize])
  BY EmptySeq DEF Init
<1> QED
  BY <1>1, LimitsAssumption DEF Init, TypeOK

(* What a walk accepts fits under the total. *)
LEMMA AcceptedFits ==
  ASSUME TypeOK, NEW n \in Names, Denial(repository[n]) = "none"
  PROVE  /\ repository[n].kind \in {"broken", "text"}
         /\ total + repository[n].size \in 0..MaxIndexBytes
<1>1. repository[n] \in File
  BY DEF TypeOK
<1>2. repository[n].kind \in FileKind /\ repository[n].size \in Nat
  BY <1>1 DEF File
<1>3. /\ repository[n].kind \notin {"denied", "absent", "binary"}
      /\ total + repository[n].size <= MaxIndexBytes
  <2> DEFINE f == repository[n]
  <2>1. ASSUME f.kind = "denied" PROVE Denial(f) = "denied"
    BY <2>1 DEF Denial
  <2>2. ASSUME f.kind = "absent" PROVE Denial(f) = "unreadable"
    BY <2>2 DEF Denial
  <2>3. ASSUME f.kind \in {"binary", "broken", "text"}
        PROVE  f.kind # "binary" /\ total + f.size <= MaxIndexBytes
    <3>1. Denial(f) = IF f.size > MaxFileBytes THEN "oversized_file"
                      ELSE IF total + f.size > MaxIndexBytes THEN "max_index_bytes"
                      ELSE IF f.kind = "binary" THEN "binary"
                      ELSE IF Len(accepted) >= MaxFiles THEN "max_files" ELSE "none"
      BY <2>3 DEF Denial
    <3>2. ~ (total + f.size > MaxIndexBytes) /\ f.kind # "binary"
      BY <3>1
    <3>3. total + f.size \in Int /\ MaxIndexBytes \in Int
      BY <1>2, LimitsAssumption DEF TypeOK
    <3> HIDE DEF f
    <3> QED
      BY <3>2, <3>3
  <2> QED
    BY <1>2, <2>1, <2>2, <2>3 DEF FileKind
<1>4. total \in Nat /\ MaxIndexBytes \in Nat
  BY LimitsAssumption DEF TypeOK
<1> QED
  BY <1>2, <1>3, <1>4 DEF FileKind

LEMMA DenialIsReason ==
  ASSUME NEW f \in File, Denial(f) # "none"
  PROVE  Denial(f) \in Reasons
BY DEF Denial, Reasons, File, FileKind

LEMMA ChunksType ==
  ASSUME TypeOK PROVE Chunks \subseteq Chunk
BY DEF TypeOK, Chunks

LEMMA NextType == TypeOK /\ [Next]_vars => TypeOK'
<1> SUFFICES ASSUME TypeOK, [Next]_vars PROVE TypeOK'
  OBVIOUS
<1> USE DEF walk, ingestion, indexes, history, bounds
<1>1. CASE Build
  <2>1. accepted' \in Seq([name : Names, size : 0..MaxSize])
    BY <1>1, EmptySeq DEF Build
  <2>2. builds' \in 0..MaxBuilds /\ names' \subseteq Names
    BY <1>1, LimitsAssumption DEF Build, Present, TypeOK
  <2>3. total' \in 0..MaxIndexBytes /\ skipped' \in [Reasons -> SUBSET Names]
    BY <1>1, LimitsAssumption DEF Build
  <2> QED
    BY <1>1, <2>1, <2>2, <2>3 DEF Build, TypeOK
<1>2. CASE WalkFile
  <2>1. PICK n \in names :
          /\ names' = names \ {n}
          /\ IF Denial(repository[n]) = "none"
             THEN /\ accepted' = Append(accepted, [name |-> n, size |-> repository[n].size])
                  /\ total' = total + repository[n].size
                  /\ UNCHANGED skipped
             ELSE /\ skipped' = [skipped EXCEPT ![Denial(repository[n])] = @ \cup {n}]
                  /\ UNCHANGED <<accepted, total>>
    BY <1>2 DEF WalkFile
  <2>2. n \in Names /\ repository[n] \in File /\ repository[n].size \in 0..MaxSize
    BY DEF TypeOK, File
  <2>3. accepted' \in Seq([name : Names, size : 0..MaxSize])
    <3>1. accepted \in Seq([name : Names, size : 0..MaxSize])
      BY DEF TypeOK
    <3>2. [name |-> n, size |-> repository[n].size] \in [name : Names, size : 0..MaxSize]
      BY <2>2
    <3>3. Append(accepted, [name |-> n, size |-> repository[n].size])
            \in Seq([name : Names, size : 0..MaxSize])
      BY <3>1, <3>2, AppendProperties
    <3> QED
      BY <2>1, <3>1, <3>3
  <2>4. total' \in 0..MaxIndexBytes
    BY <2>1, <2>2, AcceptedFits DEF TypeOK
  <2>5. skipped' \in [Reasons -> SUBSET Names]
    BY <2>1, <2>2, DenialIsReason DEF TypeOK
  <2> QED
    BY <1>2, <2>1, <2>3, <2>4, <2>5 DEF WalkFile, TypeOK
<1>3. CASE ReadFile
  <2>1. /\ Head(accepted) \in [name : Names, size : 0..MaxSize]
        /\ accepted' \in Seq([name : Names, size : 0..MaxSize])
    BY <1>3, HeadTailProperties DEF ReadFile, TypeOK
  <2> DEFINE n == Head(accepted).name
  <2>2. n \in Names /\ repository[n] \in File
    BY <2>1 DEF TypeOK
  <2>3. ChunkOf(n, repository[n]) \in Chunk /\ repository[n].size \in 0..MaxSize
    BY <2>2 DEF ChunkOf, Chunk, File
  <2>4. documents' \subseteq [chunk : Chunk, bytes : 0..MaxSize] /\ failures' \subseteq Names
    BY <1>3, <2>2, <2>3 DEF ReadFile, TypeOK
  <2> QED
    BY <1>3, <2>1, <2>4 DEF ReadFile, TypeOK
<1>4. ASSUME Raise, pc \in {"read", "encode", "replace"}, faults' \in 0..MaxFaults
      PROVE  TypeOK'
  BY <1>4 DEF Raise, TypeOK
<1>5. CASE Walked \/ Read
  BY <1>5 DEF Walked, Read, TypeOK
<1>51. CASE DocumentVanished
  BY <1>4, <1>51 DEF DocumentVanished, TypeOK
<1>52. ASSUME Abort PROVE faults' \in 0..MaxFaults
  BY <1>52, LimitsAssumption DEF Abort, TypeOK
<1>6. CASE PrepareSnapshot
  BY <1>4, <1>52, <1>6 DEF PrepareSnapshot, Abort, TypeOK
<1>7. CASE ReplaceLexical
  BY <1>4, <1>52, <1>7, ChunksType DEF ReplaceLexical, Abort, TypeOK
<1>8. CASE InstallSnapshot
  BY <1>8, ChunksType DEF InstallSnapshot, TypeOK
<1>9. CASE Search
  BY <1>9 DEF Search, TypeOK
<1>10. CASE Change
  BY <1>10, LimitsAssumption DEF Change, TypeOK
<1>11. CASE Quiet \/ UNCHANGED vars
  BY <1>11 DEF Quiet, vars, TypeOK
<1> QED
  BY <1>1, <1>2, <1>3, <1>5, <1>51, <1>6, <1>7, <1>8, <1>9, <1>10, <1>11 DEF Next, BuildStep

(* Totals, lists and indexes have their types: no walk takes more bytes     *)
(* than max_index_bytes.                                                    *)
THEOREM TypeCorrect == Spec => []TypeOK
BY InitType, NextType, PTL DEF Spec

-----------------------------------------------------------------------------
(***************************************************************************)
(* Ingestion.  IngestionWhole speaks of a finished ingestion; what makes   *)
(* it true is an account that every file of the walk and every read keeps. *)
(* A name the walker listed is yet to be walked, taken, or denied; a taken *)
(* one waits to be read or was ingested.  Reading moves a name within      *)
(* Taken, so that the bytes and files the walk counted stay those of Taken *)
(* until the last is read.                                                 *)
(***************************************************************************)
Listed == {n \in Names : before.repository[n].kind # "absent"}
Waiting == {accepted[k].name : k \in DOMAIN accepted}
Taken == Waiting \cup Ingested
TakenBytes == {b \in Taken \X (1..MaxSize) : b[2] <= repository[b[1]].size}

Accounted ==
  /\ names \cup Taken \cup Denied = Listed
  /\ names \cap Taken = {} /\ names \cap Denied = {} /\ Taken \cap Denied = {}
  /\ Waiting \cap Ingested = {}
  /\ \A j, k \in DOMAIN accepted : accepted[j].name = accepted[k].name => j = k
  /\ \A d, e \in documents : d.chunk.file = e.chunk.file => d = e
  /\ \A d \in documents : d.chunk.file \notin failures
  /\ \A r, s \in Reasons : r # s => skipped[r] \cap skipped[s] = {}

Counted ==
  /\ pc = "walk" => documents = {} /\ failures = {} /\ Cardinality(Waiting) = Len(accepted)
  /\ pc # "walk" => names = {}
  /\ pc \notin {"walk", "read"} => accepted = <<>>
  /\ Cardinality(Taken) <= MaxFiles

Sized ==
  /\ repository = before.repository
  /\ \A k \in DOMAIN accepted : accepted[k].size = repository[accepted[k].name].size
  /\ \A d \in documents : d.bytes = repository[d.chunk.file].size
  /\ Cardinality(TakenBytes) = total
  /\ \A n \in Names \ (names \cup Taken) :
       repository[n].kind = "text" =>
         \/ repository[n].size > MaxFileBytes
         \/ total + repository[n].size > MaxIndexBytes
         \/ Cardinality(Taken) = MaxFiles

Ingesting == pc # "idle" => Accounted /\ Counted /\ (Stable => Sized)

IngestionInv == TypeOK /\ before.changes \in Nat /\ before.changes <= changes /\ Ingesting

(* What the account is made of changes with these variables alone. *)
LEMMA SameAccount ==
  ASSUME UNCHANGED <<names, accepted, skipped, documents, failures, before>>
  PROVE  /\ Waiting' = Waiting /\ Ingested' = Ingested /\ Taken' = Taken
         /\ Denied' = Denied /\ Listed' = Listed
         /\ Accounted => Accounted'
<1>1. Waiting' = Waiting /\ Ingested' = Ingested /\ Denied' = Denied /\ Listed' = Listed
  BY DEF Waiting, Ingested, Denied, Listed
<1>2. Taken' = Taken
  BY <1>1 DEF Taken
<1> QED
  BY <1>1, <1>2 DEF Accounted

LEMMA SameSizes ==
  ASSUME UNCHANGED <<repository, names, accepted, total, documents, before>>, Taken' = Taken
  PROVE  Sized => Sized'
<1>1. TakenBytes' = TakenBytes
  BY DEF TakenBytes
<1> QED
  BY <1>1 DEF Sized

LEMMA TakenIsFinite ==
  ASSUME TypeOK
  PROVE  /\ Waiting \subseteq Names /\ Ingested \subseteq Names /\ Taken \subseteq Names
         /\ IsFiniteSet(Names) /\ IsFiniteSet(Taken) /\ Cardinality(Taken) \in Nat
         /\ IsFiniteSet(Ingested) /\ Cardinality(Ingested) \in Nat
         /\ IsFiniteSet(Names \X (1..MaxSize))
<1>1. accepted \in Seq([name : Names, size : 0..MaxSize])
  BY DEF TypeOK
<1>2. \A k \in DOMAIN accepted : accepted[k] \in [name : Names, size : 0..MaxSize]
  BY <1>1, LenProperties, ElementOfSeq
<1>3. Waiting \subseteq Names
  BY <1>2 DEF Waiting
<1>4. Ingested \subseteq Names
  BY DEF Ingested, TypeOK, Chunk
<1>5. IsFiniteSet(Names) /\ IsFiniteSet(1..MaxSize)
  BY LimitsAssumption, FS_Interval DEF Names
<1>6. IsFiniteSet(Names \X (1..MaxSize))
  BY <1>5, FS_Product
<1>7. Taken \subseteq Names
  BY <1>3, <1>4 DEF Taken
<1> QED
  BY <1>3, <1>4, <1>5, <1>6, <1>7, FS_Subset, FS_CardinalityType

(* A file that is taken adds its bytes. *)
LEMMA OneMoreFile ==
  ASSUME NEW T \in SUBSET Names, NEW n \in Names, n \notin T,
         NEW R \in [Names -> File]
  PROVE  LET bytes(S) == {b \in S \X (1..MaxSize) : b[2] <= R[b[1]].size}
         IN  /\ IsFiniteSet(bytes(T)) /\ Cardinality(bytes(T)) \in Nat
             /\ Cardinality(bytes(T \cup {n})) = Cardinality(bytes(T)) + R[n].size
<1> DEFINE bytes(S) == {b \in S \X (1..MaxSize) : b[2] <= R[b[1]].size}
           own == {b \in {n} \X (1..MaxSize) : b[2] <= R[n].size}
           f == [i \in 1..R[n].size |-> <<n, i>>]
<1>1. R[n].size \in 0..MaxSize /\ MaxSize \in Nat
  BY LimitsAssumption DEF File
<1>2. IsFiniteSet(Names \X (1..MaxSize))
  <2>1. IsFiniteSet(Names) /\ IsFiniteSet(1..MaxSize)
    BY LimitsAssumption, FS_Interval DEF Names
  <2> QED
    BY <2>1, FS_Product
<1>3. bytes(T) \subseteq Names \X (1..MaxSize) /\ own \subseteq Names \X (1..MaxSize)
  OBVIOUS
<1>4. IsFiniteSet(bytes(T)) /\ IsFiniteSet(own)
  BY <1>2, <1>3, FS_Subset
<1>5. bytes(T \cup {n}) = bytes(T) \cup own /\ bytes(T) \cap own = {}
  OBVIOUS
<1>6. f \in Bijection(1..R[n].size, own)
  <2>1. \A i \in 1..R[n].size : <<n, i>> \in own
    BY <1>1
  <2>2. \A b \in own : b[2] \in 1..R[n].size /\ b = <<n, b[2]>>
    BY <1>1
  <2>3. f \in [1..R[n].size -> own]
    BY <2>1
  <2>4. \A i, j \in 1..R[n].size : f[i] = f[j] => i = j
    OBVIOUS
  <2>5. \A b \in own : \E i \in 1..R[n].size : f[i] = b
    BY <2>2
  <2> HIDE DEF f, own
  <2>6. f \in Injection(1..R[n].size, own)
    BY <2>3, <2>4 DEF Injection, IsInjective
  <2>7. f \in Surjection(1..R[n].size, own)
    BY <2>3, <2>5 DEF Surjection
  <2> QED
    BY <2>6, <2>7 DEF Bijection
<1>7. Cardinality(1..R[n].size) = R[n].size /\ IsFiniteSet(1..R[n].size)
  <2>1. \A m \in Nat : Cardinality(1..m) = m /\ IsFiniteSet(1..m)
    BY FS_Interval
  <2> QED
    BY <1>1, <2>1
<1>8. Cardinality(own) = R[n].size
  <2> HIDE DEF f, own
  <2> QED
    BY <1>6, <1>7, FS_Bijection DEF ExistsBijection
<1>9. Cardinality(bytes(T \cup {n})) = Cardinality(bytes(T)) + R[n].size
  <2>1. PICK A, B : A = bytes(T) /\ B = own
    OBVIOUS
  <2>2. Cardinality(A \cup B) = Cardinality(A) + Cardinality(B) - Cardinality(A \cap B)
    BY <1>4, <2>1, FS_Union
  <2>3. Cardinality(A \cap B) = 0
    BY <1>5, <2>1, FS_EmptySet
  <2>4. Cardinality(A) \in Nat /\ Cardinality(B) \in Nat
    BY <1>4, <2>1, FS_CardinalityType
  <2>5. Cardinality(A \cup B) = Cardinality(A) + Cardinality(B)
    BY <2>2, <2>3, <2>4
  <2> HIDE DEF bytes, own
  <2> QED
    BY <1>5, <1>8, <2>1, <2>5
<1> QED
  BY <1>4, <1>9, FS_CardinalityType

LEMMA DenialIs ==
  ASSUME NEW f, f.kind \in {"binary", "broken", "text"}
  PROVE  Denial(f) = IF f.size > MaxFileBytes THEN "oversized_file"
                     ELSE IF total + f.size > MaxIndexBytes THEN "max_index_bytes"
                     ELSE IF f.kind = "binary" THEN "binary"
                     ELSE IF Len(accepted) >= MaxFiles THEN "max_files" ELSE "none"
BY DEF Denial

LEMMA RoomForAccepted ==
  ASSUME TypeOK, NEW n \in Names, Denial(repository[n]) = "none"
  PROVE  ~ (Len(accepted) >= MaxFiles)
<1>1. repository[n].kind \in {"broken", "text"}
  BY AcceptedFits
<1> QED
  BY <1>1, DenialIs

LEMMA NoRoomForDenied ==
  ASSUME NEW f, f.kind = "text", Denial(f) # "none"
  PROVE  \/ f.size > MaxFileBytes
         \/ total + f.size > MaxIndexBytes
         \/ Len(accepted) >= MaxFiles
BY DenialIs

(* A walked file goes to the end of the list, or under one reason. *)
LEMMA WalkFileMoves ==
  ASSUME TypeOK, WalkFile
  PROVE  \E n \in names :
           /\ names' = names \ {n}
           /\ UNCHANGED <<repository, pc, documents, failures, before, changes>>
           /\ \/ /\ Denial(repository[n]) = "none"
                 /\ total' = total + repository[n].size
                 /\ skipped' = skipped
                 /\ Len(accepted') = Len(accepted) + 1
                 /\ DOMAIN accepted' = DOMAIN accepted \cup {Len(accepted) + 1}
                 /\ Len(accepted) + 1 \notin DOMAIN accepted
                 /\ \A k \in DOMAIN accepted : accepted'[k] = accepted[k]
                 /\ accepted'[Len(accepted) + 1] = [name |-> n, size |-> repository[n].size]
              \/ /\ Denial(repository[n]) \in Reasons
                 /\ Denial(repository[n]) # "none"
                 /\ UNCHANGED <<accepted, total>>
                 /\ skipped' = [skipped EXCEPT ![Denial(repository[n])] = @ \cup {n}]
<1>1. PICK n \in names :
        /\ names' = names \ {n}
        /\ IF Denial(repository[n]) = "none"
           THEN /\ accepted' = Append(accepted, [name |-> n, size |-> repository[n].size])
                /\ total' = total + repository[n].size
                /\ UNCHANGED skipped
           ELSE /\ skipped' = [skipped EXCEPT ![Denial(repository[n])] = @ \cup {n}]
                /\ UNCHANGED <<accepted, total>>
  BY DEF WalkFile
<1>2. /\ UNCHANGED <<repository, pc, documents, failures, before, changes>>
      /\ n \in Names /\ repository[n] \in File
      /\ accepted \in Seq([name : Names, size : 0..MaxSize])
  BY DEF WalkFile, ingestion, history, bounds, TypeOK
<1>3. CASE Denial(repository[n]) = "none"
  <2> DEFINE item == [name |-> n, size |-> repository[n].size]
  <2>1. item \in [name : Names, size : 0..MaxSize]
    BY <1>2 DEF File
  <2>2. accepted' = Append(accepted, item)
    BY <1>1, <1>3
  <2> HIDE DEF item
  <2>3. /\ accepted' \in Seq([name : Names, size : 0..MaxSize])
        /\ Len(accepted') = Len(accepted) + 1
        /\ \A k \in 1..Len(accepted) : accepted'[k] = accepted[k]
        /\ accepted'[Len(accepted) + 1] = item
    BY <1>2, <2>1, <2>2, AppendProperties
  <2>4. /\ DOMAIN accepted = 1..Len(accepted) /\ Len(accepted) \in Nat
        /\ DOMAIN accepted' = 1..Len(accepted')
    BY <1>2, <2>3, LenProperties
  <2>5. /\ DOMAIN accepted' = DOMAIN accepted \cup {Len(accepted) + 1}
        /\ Len(accepted) + 1 \notin DOMAIN accepted
    BY <2>3, <2>4
  <2>6. /\ total' = total + repository[n].size /\ skipped' = skipped
        /\ \A k \in DOMAIN accepted : accepted'[k] = accepted[k]
        /\ accepted'[Len(accepted) + 1] = [name |-> n, size |-> repository[n].size]
    BY <1>1, <1>3, <2>3, <2>4 DEF item
  <2> QED
    BY <1>1, <1>2, <1>3, <2>3, <2>5, <2>6
<1>4. CASE Denial(repository[n]) # "none"
  BY <1>1, <1>2, <1>4, DenialIsReason
<1> QED
  BY <1>3, <1>4

LEMMA WalkFileAccount ==
  ASSUME IngestionInv, WalkFile PROVE Ingesting'
<1>0. /\ TypeOK /\ pc = "walk" /\ pc' = "walk"
      /\ Accounted /\ Counted /\ (Stable => Sized)
      /\ accepted \in Seq([name : Names, size : 0..MaxSize])
      /\ Len(accepted) \in Nat /\ MaxFiles \in Nat /\ total \in Nat
  BY LenProperties, LimitsAssumption DEF WalkFile, IngestionInv, Ingesting, TypeOK
<1>1. PICK n \in names :
        /\ names' = names \ {n}
        /\ UNCHANGED <<repository, pc, documents, failures, before, changes>>
        /\ \/ /\ Denial(repository[n]) = "none"
              /\ total' = total + repository[n].size
              /\ skipped' = skipped
              /\ Len(accepted') = Len(accepted) + 1
              /\ DOMAIN accepted' = DOMAIN accepted \cup {Len(accepted) + 1}
              /\ Len(accepted) + 1 \notin DOMAIN accepted
              /\ \A k \in DOMAIN accepted : accepted'[k] = accepted[k]
              /\ accepted'[Len(accepted) + 1] = [name |-> n, size |-> repository[n].size]
           \/ /\ Denial(repository[n]) \in Reasons
              /\ Denial(repository[n]) # "none"
              /\ UNCHANGED <<accepted, total>>
              /\ skipped' = [skipped EXCEPT ![Denial(repository[n])] = @ \cup {n}]
  BY <1>0, WalkFileMoves
<1>2. /\ n \in Names /\ repository \in [Names -> File] /\ n \notin Taken /\ n \notin Denied
      /\ repository[n].size \in Nat
  BY <1>0 DEF TypeOK, Accounted, File
<1>3. /\ Ingested' = Ingested /\ Listed' = Listed /\ Stable' = Stable
      /\ Ingested = {} /\ Taken = Waiting /\ Cardinality(Waiting) = Len(accepted)
  BY <1>0, <1>1 DEF Ingested, Listed, Stable, Counted, Taken
<1>4. CASE Denial(repository[n]) = "none"
  <2>1. /\ total' = total + repository[n].size
        /\ skipped' = skipped
        /\ Len(accepted') = Len(accepted) + 1
        /\ DOMAIN accepted' = DOMAIN accepted \cup {Len(accepted) + 1}
        /\ Len(accepted) + 1 \notin DOMAIN accepted
        /\ \A k \in DOMAIN accepted : accepted'[k] = accepted[k]
        /\ accepted'[Len(accepted) + 1] = [name |-> n, size |-> repository[n].size]
    BY <1>1, <1>4
  <2>2. /\ Waiting' = Waiting \cup {n}
        /\ \A j, k \in DOMAIN accepted' : accepted'[j].name = accepted'[k].name => j = k
    <3>1. accepted'[Len(accepted) + 1].name = n
      BY <2>1
    <3>2. \A k \in DOMAIN accepted : accepted'[k].name \in Waiting
      BY <2>1 DEF Waiting
    <3>3. n \notin Waiting
      BY <1>2 DEF Taken
    <3>4. \A j, k \in DOMAIN accepted : accepted'[j].name = accepted'[k].name => j = k
      BY <1>0, <2>1 DEF Accounted
    <3>5. Waiting' = {accepted'[k].name : k \in DOMAIN accepted} \cup {n}
      BY <2>1, <3>1 DEF Waiting
    <3>6. Waiting = {accepted'[k].name : k \in DOMAIN accepted}
      BY <2>1 DEF Waiting
    <3>7. \A j, k \in DOMAIN accepted' : accepted'[j].name = accepted'[k].name => j = k
      BY <2>1, <3>1, <3>2, <3>3, <3>4
    <3> QED
      BY <3>5, <3>6, <3>7
  <2>3. Taken' = Taken \cup {n} /\ Denied' = Denied
    BY <1>3, <2>1, <2>2 DEF Taken, Denied
  <2>4. Accounted'
    <3>1. /\ names' \cup Taken' \cup Denied' = Listed'
          /\ names' \cap Taken' = {} /\ names' \cap Denied' = {} /\ Taken' \cap Denied' = {}
          /\ Waiting' \cap Ingested' = {}
      BY <1>0, <1>1, <1>2, <1>3, <2>2, <2>3 DEF Accounted
    <3>2. /\ \A d, e \in documents' : d.chunk.file = e.chunk.file => d = e
          /\ \A d \in documents' : d.chunk.file \notin failures'
          /\ \A r, s \in Reasons : r # s => skipped'[r] \cap skipped'[s] = {}
      BY <1>0, <1>1, <2>1 DEF Accounted
    <3> QED
      BY <2>2, <3>1, <3>2 DEF Accounted
  <2>5. /\ Cardinality(Taken') = Cardinality(Taken) + 1 /\ Cardinality(Taken) < MaxFiles
        /\ Cardinality(Taken) = Len(accepted)
    <3>1. IsFiniteSet(Taken)
      BY <1>0, TakenIsFinite
    <3>2. Cardinality(Taken \cup {n}) = Cardinality(Taken) + 1
      BY <1>2, <3>1, FS_AddElement
    <3>3. ~ (Len(accepted) >= MaxFiles)
      BY <1>0, <1>2, <1>4, RoomForAccepted
    <3> QED
      BY <1>0, <1>3, <2>3, <3>2, <3>3
  <2>6. Counted'
    <3>1. Taken' = Waiting'
      BY <1>3, <2>2, <2>3
    <3>2. Cardinality(Waiting') = Len(accepted') /\ Cardinality(Taken') <= MaxFiles
      BY <1>0, <2>1, <2>5, <3>1
    <3> QED
      BY <1>0, <1>1, <3>2 DEF Counted
  <2>7. ASSUME Stable PROVE Sized'
    <3>1. Sized
      BY <1>0, <2>7
    <3>2. Cardinality(TakenBytes') = total'
      <4>1. Cardinality(TakenBytes') = Cardinality(TakenBytes) + repository[n].size
        <5>1. Taken \in SUBSET Names
          BY <1>0, TakenIsFinite
        <5>2. TakenBytes' = {b \in (Taken \cup {n}) \X (1..MaxSize) :
                               b[2] <= repository[b[1]].size}
          BY <1>1, <2>3 DEF TakenBytes
        <5> QED
          BY <1>2, <5>1, <5>2, OneMoreFile DEF TakenBytes
      <4> QED
        BY <2>1, <3>1, <4>1 DEF Sized
    <3>3. \A k \in DOMAIN accepted' : accepted'[k].size = repository'[accepted'[k].name].size
      BY <1>1, <2>1, <3>1 DEF Sized
    <3>4. \A m \in Names \ (names' \cup Taken') :
            repository'[m].kind = "text" =>
              \/ repository'[m].size > MaxFileBytes
              \/ total' + repository'[m].size > MaxIndexBytes
              \/ Cardinality(Taken') = MaxFiles
      <4> SUFFICES ASSUME NEW m \in Names \ (names \cup Taken), repository[m].kind = "text",
                          ~ (repository[m].size > MaxFileBytes)
                   PROVE  total + repository[n].size + repository[m].size > MaxIndexBytes
        BY <1>1, <2>1, <2>3
      <4>1. total + repository[m].size > MaxIndexBytes
        BY <2>5, <3>1 DEF Sized
      <4>2. repository[m].size \in Nat /\ MaxIndexBytes \in Nat
        BY <1>2, LimitsAssumption DEF File
      <4> QED
        BY <1>0, <1>2, <4>1, <4>2
    <3> QED
      BY <1>1, <3>1, <3>2, <3>3, <3>4 DEF Sized
  <2> QED
    BY <1>3, <2>4, <2>6, <2>7 DEF Ingesting
<1>5. CASE Denial(repository[n]) # "none"
  <2> DEFINE reason == Denial(repository[n])
  <2>1. /\ reason \in Reasons /\ UNCHANGED <<accepted, total>>
        /\ skipped' = [skipped EXCEPT ![reason] = @ \cup {n}]
    BY <1>1, <1>5
  <2>2. /\ skipped \in [Reasons -> SUBSET Names]
        /\ \A r \in Reasons : skipped'[r] = IF r = reason THEN skipped[r] \cup {n} ELSE skipped[r]
    BY <1>0, <2>1 DEF TypeOK
  <2> HIDE DEF reason
  <2>3. Denied' = Denied \cup {n}
    BY <2>1, <2>2 DEF Denied
  <2>4. Waiting' = Waiting /\ Taken' = Taken
    BY <1>3, <2>1 DEF Waiting, Taken
  <2>5. Accounted'
    <3>1. /\ names' \cup Taken' \cup Denied' = Listed'
          /\ names' \cap Taken' = {} /\ names' \cap Denied' = {} /\ Taken' \cap Denied' = {}
          /\ Waiting' \cap Ingested' = {}
      BY <1>0, <1>1, <1>2, <1>3, <2>3, <2>4 DEF Accounted
    <3>2. /\ \A d, e \in documents' : d.chunk.file = e.chunk.file => d = e
          /\ \A d \in documents' : d.chunk.file \notin failures'
          /\ \A j, k \in DOMAIN accepted' : accepted'[j].name = accepted'[k].name => j = k
      BY <1>0, <1>1, <2>1 DEF Accounted
    <3>3. \A r, s \in Reasons : r # s => skipped'[r] \cap skipped'[s] = {}
      <4>1. \A r \in Reasons : n \notin skipped[r]
        BY <1>2 DEF Denied
      <4>2. \A r, s \in Reasons : r # s => skipped[r] \cap skipped[s] = {}
        BY <1>0 DEF Accounted
      <4> QED
        BY <2>2, <4>1, <4>2
    <3> QED
      BY <3>1, <3>2, <3>3 DEF Accounted
  <2>6. Counted'
    BY <1>0, <1>1, <2>1, <2>4 DEF Counted
  <2>7. ASSUME Stable PROVE Sized'
    <3>1. Sized /\ TakenBytes' = TakenBytes
      BY <1>0, <1>1, <2>4, <2>7 DEF TakenBytes
    <3>2. ASSUME repository[n].kind = "text"
          PROVE  \/ repository[n].size > MaxFileBytes
                 \/ total + repository[n].size > MaxIndexBytes
                 \/ Cardinality(Taken) = MaxFiles
      <4>1. Len(accepted) >= MaxFiles => Cardinality(Taken) = MaxFiles
        BY <1>0, <1>3 DEF Counted
      <4> QED
        BY <1>5, <3>2, <4>1, NoRoomForDenied
    <3> QED
      BY <1>1, <2>1, <2>4, <3>1, <3>2 DEF Sized
  <2> QED
    BY <1>3, <2>5, <2>6, <2>7 DEF Ingesting
<1> QED
  BY <1>4, <1>5

(* A file that is read leaves the list and is a document or a failure. *)
LEMMA ReadFileMoves ==
  ASSUME TypeOK, Accounted, ReadFile
  PROVE  LET n == Head(accepted).name IN
         /\ n \in Waiting /\ Head(accepted).size \in 0..MaxSize
         /\ Waiting' = Waiting \ {n}
         /\ DOMAIN accepted' \subseteq {k \in Nat : k + 1 \in DOMAIN accepted}
         /\ \A k \in DOMAIN accepted' : accepted'[k] = accepted[k + 1]
<1> DEFINE n == Head(accepted).name
<1>1. /\ accepted \in Seq([name : Names, size : 0..MaxSize])
      /\ accepted # <<>> /\ accepted' = Tail(accepted)
  BY DEF TypeOK, ReadFile
<1>2. /\ Head(accepted) \in [name : Names, size : 0..MaxSize]
      /\ Tail(accepted) \in Seq([name : Names, size : 0..MaxSize])
      /\ Len(Tail(accepted)) = Len(accepted) - 1
      /\ \A k \in 1..Len(Tail(accepted)) : Tail(accepted)[k] = accepted[k + 1]
  BY <1>1, HeadTailProperties
<1>3. /\ DOMAIN accepted = 1..Len(accepted) /\ Len(accepted) \in Nat
      /\ DOMAIN accepted' = 1..Len(accepted')
  BY <1>1, <1>2, LenProperties
<1>4. 1 \in DOMAIN accepted /\ Head(accepted) = accepted[1]
  BY <1>1, <1>2, <1>3
<1>5. /\ DOMAIN accepted' = {k \in Nat : k + 1 \in DOMAIN accepted /\ k # 0}
      /\ \A k \in DOMAIN accepted' : accepted'[k] = accepted[k + 1]
  BY <1>1, <1>2, <1>3
<1>6. n \in Waiting
  BY <1>4 DEF Waiting
<1>7. \A k \in DOMAIN accepted : accepted[k].name = n <=> k = 1
  BY <1>4 DEF Accounted
<1>8. Waiting' = Waiting \ {n}
  <2>1. ASSUME NEW k \in DOMAIN accepted' PROVE accepted'[k].name \in Waiting \ {n}
    <3>1. k + 1 \in DOMAIN accepted /\ k + 1 # 1 /\ accepted'[k] = accepted[k + 1]
      BY <1>5, <2>1
    <3> QED
      BY <1>7, <3>1 DEF Waiting
  <2>2. ASSUME NEW k \in DOMAIN accepted, accepted[k].name # n
        PROVE  \E j \in DOMAIN accepted' : accepted'[j].name = accepted[k].name
    <3>1. k # 1 /\ k \in 1..Len(accepted)
      BY <1>3, <1>4, <2>2
    <3>2. k - 1 \in DOMAIN accepted' /\ (k - 1) + 1 = k
      BY <1>1, <1>2, <1>3, <3>1
    <3> QED
      BY <1>5, <3>2
  <2>3. Waiting' = {accepted'[k].name : k \in DOMAIN accepted'}
    BY DEF Waiting
  <2> HIDE DEF n
  <2> QED
    BY <2>1, <2>2, <2>3 DEF Waiting
<1> QED
  BY <1>2, <1>5, <1>6, <1>8

LEMMA ReadFileAccount ==
  ASSUME IngestionInv, ReadFile PROVE Ingesting'
<1> DEFINE n == Head(accepted).name
           f == repository[n]
           d == [chunk |-> ChunkOf(n, f), bytes |-> f.size]
<1>0. /\ TypeOK /\ pc = "read" /\ pc' = "read"
      /\ Accounted /\ Counted /\ (Stable => Sized)
  BY DEF ReadFile, IngestionInv, Ingesting
<1>1. /\ n \in Waiting
      /\ Waiting' = Waiting \ {n}
      /\ DOMAIN accepted' \subseteq {k \in Nat : k + 1 \in DOMAIN accepted}
      /\ \A k \in DOMAIN accepted' : accepted'[k] = accepted[k + 1]
  BY <1>0, ReadFileMoves
<1>2. /\ UNCHANGED <<repository, names, total, skipped, before, changes>>
      /\ \/ documents' = documents \cup {d} /\ failures' = failures
         \/ failures' = failures \cup {n} /\ documents' = documents
  BY DEF ReadFile, history, bounds
<1>3. d.chunk.file = n /\ d.bytes = f.size
  BY DEF ChunkOf
<1>4. n \in Taken /\ n \notin Ingested
  BY <1>0, <1>1 DEF Accounted, Taken
<1> HIDE DEF n, f, d
<1>5. Ingested' = Ingested \cup {n}
  BY <1>2, <1>3 DEF Ingested
<1>6. Taken' = Taken /\ Denied' = Denied /\ Listed' = Listed /\ Stable' = Stable
  BY <1>1, <1>2, <1>5 DEF Taken, Denied, Listed, Stable
<1>7. Accounted'
  <2>1. /\ names' \cup Taken' \cup Denied' = Listed'
        /\ names' \cap Taken' = {} /\ names' \cap Denied' = {} /\ Taken' \cap Denied' = {}
        /\ \A r, s \in Reasons : r # s => skipped'[r] \cap skipped'[s] = {}
    BY <1>0, <1>2, <1>6 DEF Accounted
  <2>2. Waiting' \cap Ingested' = {}
    BY <1>0, <1>1, <1>5 DEF Accounted
  <2>3. ASSUME NEW j \in DOMAIN accepted', NEW k \in DOMAIN accepted',
               accepted'[j].name = accepted'[k].name
        PROVE  j = k
    <3>1. /\ j + 1 \in DOMAIN accepted /\ k + 1 \in DOMAIN accepted /\ j \in Nat /\ k \in Nat
          /\ accepted[j + 1].name = accepted[k + 1].name
      BY <1>1, <2>3
    <3>2. j + 1 = k + 1
      BY <1>0, <3>1 DEF Accounted
    <3> QED
      BY <3>1, <3>2
  <2>4. /\ \A x \in documents : x.chunk.file \in Ingested
        /\ failures \subseteq Ingested
    BY DEF Ingested
  <2>5. /\ \A x, y \in documents : x.chunk.file = y.chunk.file => x = y
        /\ \A x \in documents : x.chunk.file \notin failures
    BY <1>0 DEF Accounted
  <2>6. /\ \A x, y \in documents' : x.chunk.file = y.chunk.file => x = y
        /\ \A x \in documents' : x.chunk.file \notin failures'
    BY <1>2, <1>3, <1>4, <2>4, <2>5
  <2> QED
    BY <2>1, <2>2, <2>3, <2>6 DEF Accounted
<1>8. Counted'
  BY <1>0, <1>2, <1>6 DEF Counted
<1>9. ASSUME Stable PROVE Sized'
  <2>1. Sized /\ TakenBytes' = TakenBytes
    BY <1>0, <1>2, <1>6, <1>9 DEF TakenBytes
  <2>2. \A k \in DOMAIN accepted' : accepted'[k].size = repository'[accepted'[k].name].size
    BY <1>1, <1>2, <2>1 DEF Sized
  <2>3. \A x \in documents' : x.bytes = repository'[x.chunk.file].size
    BY <1>2, <1>3, <2>1 DEF Sized, f
  <2> QED
    BY <1>2, <1>6, <2>1, <2>2, <2>3 DEF Sized
<1> QED
  BY <1>6, <1>7, <1>8, <1>9 DEF Ingesting

LEMMA BuildAccount ==
  ASSUME IngestionInv, Build PROVE Ingesting'
<1>1. /\ names' = Present /\ accepted' = <<>> /\ documents' = {} /\ failures' = {}
      /\ skipped' = [r \in Reasons |-> {}] /\ total' = 0 /\ pc' = "walk"
      /\ before'.repository = repository /\ repository' = repository
  BY DEF Build
<1>2. /\ DOMAIN accepted' = {} /\ Waiting' = {} /\ Ingested' = {} /\ Taken' = {}
      /\ Len(accepted') = 0
  <2>1. DOMAIN accepted' = {} /\ Len(accepted') = 0
    BY <1>1
  <2>2. Waiting' = {}
    BY <2>1 DEF Waiting
  <2>3. Ingested' = {}
    BY <1>1 DEF Ingested
  <2> QED
    BY <2>1, <2>2, <2>3 DEF Taken
<1>3. Denied' = {} /\ Listed' = Present
  BY <1>1 DEF Denied, Listed, Present
<1>4. Accounted'
  BY <1>1, <1>2, <1>3 DEF Accounted
<1>5. Cardinality({}) = 0
  BY FS_EmptySet
<1>6. Counted'
  BY <1>1, <1>2, <1>5, LimitsAssumption DEF Counted
<1>7. Sized'
  <2>1. TakenBytes' = {}
    BY <1>2 DEF TakenBytes
  <2>2. Names \ (names' \cup Taken') = {n \in Names : repository'[n].kind = "absent"}
    BY <1>1, <1>2 DEF Present
  <2> QED
    BY <1>1, <1>2, <1>5, <2>1, <2>2 DEF Sized
<1> QED
  BY <1>4, <1>6, <1>7 DEF Ingesting

LEMMA IngestingKept ==
  ASSUME IngestionInv, [Next]_vars PROVE Ingesting'
<1> USE DEF walk, ingestion, indexes, history, bounds
<1>0. ASSUME UNCHANGED <<names, accepted, total, skipped, documents, failures, before>>,
             pc # "idle" => Accounted' /\ Counted',
             pc' = "idle" \/ pc # "idle",
             Stable' => Stable /\ repository' = repository
      PROVE  Ingesting'
  <2>1. pc # "idle" => Accounted /\ Counted /\ (Stable => Sized)
    BY DEF IngestionInv, Ingesting
  <2>2. Stable' /\ Sized => Sized'
    BY <1>0, SameAccount, SameSizes
  <2> QED
    BY <1>0, <2>1, <2>2 DEF Ingesting
<1>1. ASSUME UNCHANGED <<names, accepted, total, skipped, documents, failures, before>>,
             pc' = "idle" \/ pc # "idle",
             \/ pc' = pc \/ pc' = "idle"
             \/ pc = "walk" /\ pc' = "read" /\ names = {}
             \/ pc = "read" /\ pc' = "encode" /\ accepted = <<>>
             \/ pc = "encode" /\ pc' = "replace"
             \/ pc = "replace" /\ pc' = "install",
             Stable' => Stable /\ repository' = repository
      PROVE  Ingesting'
  <2>1. CASE pc' = "idle"
    BY <2>1 DEF Ingesting
  <2>2. CASE pc' # "idle"
    <3>1. Accounted' /\ Taken' = Taken
      BY <1>1, <2>2, SameAccount DEF IngestionInv, Ingesting
    <3>2. Counted
      BY <1>1, <2>2 DEF IngestionInv, Ingesting
    <3>3. Waiting' = Waiting
      BY <1>1, SameAccount
    <3>4. pc' = "walk" => pc = "walk"
      BY <1>1, <2>2
    <3>5. /\ pc' # "walk" => names' = {}
          /\ pc' \notin {"walk", "read"} => accepted' = <<>>
      BY <1>1, <2>2, <3>2 DEF Counted
    <3>6. Counted'
      BY <1>1, <3>1, <3>2, <3>3, <3>4, <3>5 DEF Counted
    <3> QED
      BY <1>0, <1>1, <3>1, <3>6
  <2> QED
    BY <2>1, <2>2
<1>2. CASE Change
  <2>1. /\ UNCHANGED <<names, accepted, total, skipped, documents, failures, before, pc>>
        /\ changes' = changes + 1 /\ changes \in Nat
        /\ before.changes \in Nat /\ before.changes <= changes
    BY <1>2 DEF Change, IngestionInv, TypeOK
  <2>2. ~ Stable'
    BY <2>1 DEF Stable
  <2> QED
    BY <1>1, <2>1, <2>2 DEF Ingesting
<1>3. CASE \/ Walked \/ DocumentVanished \/ Read
           \/ PrepareSnapshot \/ ReplaceLexical \/ InstallSnapshot
  <2>1. /\ UNCHANGED <<repository, names, accepted, total, skipped, documents, failures, before>>
        /\ changes' = changes /\ pc # "idle"
        /\ \/ pc' = "idle"
           \/ pc = "walk" /\ pc' = "read" /\ names = {}
           \/ pc = "read" /\ pc' = "encode" /\ accepted = <<>>
           \/ pc = "encode" /\ pc' = "replace"
           \/ pc = "replace" /\ pc' = "install"
    BY <1>3 DEF Walked, DocumentVanished, Read, PrepareSnapshot, ReplaceLexical, InstallSnapshot,
       Abort, Raise
  <2>2. Stable' = Stable
    BY <2>1 DEF Stable
  <2> QED
    BY <1>1, <2>1, <2>2
<1>4. CASE Search \/ Quiet \/ UNCHANGED vars
  <2>1. /\ UNCHANGED <<repository, names, accepted, total, skipped, documents, failures, before>>
        /\ changes' = changes /\ pc' = pc
    BY <1>4 DEF Search, Quiet, vars
  <2>2. Stable' = Stable
    BY <2>1 DEF Stable
  <2> QED
    BY <1>1, <2>1, <2>2
<1> QED
  BY <1>2, <1>3, <1>4, BuildAccount, WalkFileAccount, ReadFileAccount DEF Next, BuildStep

(* What is read of a file is what the walk counted, so reading keeps to the  *)
(* limits.                                                                   *)
LEMMA ReadIsTaken ==
  ASSUME TypeOK, Accounted, Sized
  PROVE  /\ IsFiniteSet(BytesRead)
         /\ Cardinality(BytesRead) <= total
<1> DEFINE f == [b \in BytesRead |-> <<b[1].chunk.file, b[2]>>]
<1>1. IsFiniteSet(TakenBytes) /\ Cardinality(TakenBytes) = total
  <2>1. TakenBytes \subseteq Names \X (1..MaxSize) /\ IsFiniteSet(Names \X (1..MaxSize))
    BY TakenIsFinite DEF TakenBytes
  <2> QED
    BY <2>1, FS_Subset DEF Sized
<1>2. ASSUME NEW b \in BytesRead PROVE f[b] \in TakenBytes
  <2>1. b[1] \in documents /\ b[2] \in 1..MaxSize /\ b[2] <= b[1].bytes
    BY <1>2 DEF BytesRead
  <2>2. b[1].chunk.file \in Taken
    BY <2>1 DEF Taken, Ingested
  <2>3. b[2] <= repository[b[1].chunk.file].size
    BY <2>1 DEF Sized
  <2> QED
    BY <2>1, <2>2, <2>3 DEF TakenBytes
<1>3. ASSUME NEW b \in BytesRead, NEW c \in BytesRead, f[b] = f[c] PROVE b = c
  <2>1. /\ b[1] \in documents /\ c[1] \in documents
        /\ b = <<b[1], b[2]>> /\ c = <<c[1], c[2]>>
    BY <1>3 DEF BytesRead
  <2>2. b[1].chunk.file = c[1].chunk.file /\ b[2] = c[2]
    BY <1>3
  <2> QED
    BY <2>1, <2>2 DEF Accounted
<1>4. f \in Injection(BytesRead, TakenBytes)
  <2>1. f \in [BytesRead -> TakenBytes]
    BY <1>2
  <2> HIDE DEF f
  <2> QED
    BY <1>3, <2>1 DEF Injection, IsInjective
<1> QED
  BY <1>1, <1>4, FS_Injection DEF ExistsInjection

(* An ingestion that ends loses no name, and when nobody changed the         *)
(* repository it keeps to the limits and leaves out no text that would fit.  *)
LEMMA WholeIngestion ==
  ASSUME IngestionInv, pc \in {"encode", "replace", "install"}
  PROVE  NamesAccounted /\ (Stable => LimitsHold /\ NothingFitsLeft)
<1>1. TypeOK /\ Accounted /\ Counted /\ (Stable => Sized)
  BY DEF IngestionInv, Ingesting
<1>2. Waiting = {} /\ names = {} /\ Taken = Ingested
  <2>1. accepted = <<>> /\ names = {}
    BY <1>1 DEF Counted
  <2>2. DOMAIN accepted = {}
    BY <2>1
  <2>3. Waiting = {}
    BY <2>2 DEF Waiting
  <2> QED
    BY <2>1, <2>3 DEF Taken
<1>3. NamesAccounted
  BY <1>1, <1>2 DEF Accounted, Listed, NamesAccounted
<1>4. ASSUME Stable PROVE LimitsHold
  <2>1. Cardinality(BytesRead) \in Nat /\ Cardinality(BytesRead) <= total
    BY <1>1, <1>4, ReadIsTaken, FS_CardinalityType
  <2>2. total \in 0..MaxIndexBytes /\ MaxIndexBytes \in Nat
    BY <1>1, LimitsAssumption DEF TypeOK
  <2>3. Cardinality(Ingested) <= MaxFiles
    BY <1>1, <1>2 DEF Counted
  <2> QED
    BY <2>1, <2>2, <2>3 DEF LimitsHold
<1>5. ASSUME Stable PROVE NothingFitsLeft
  BY <1>1, <1>2, <1>5 DEF Sized, NothingFitsLeft
<1> QED
  BY <1>3, <1>4, <1>5
-----------------------------------------------------------------------------
(***************************************************************************)
(* The two indexes differ at most while the vectors are being installed,   *)
(* and then the text index already holds the chunks of the documents that  *)
(* were read.  While nobody changes the repository, what the walker took   *)
(* and what was read are texts of it as it is; hence so are the chunks of  *)
(* an index that was installed.  A build clears the results, so results    *)
(* are always of the present indexes.                                      *)
(***************************************************************************)
Current(c) == repository[c.file].version = c.version /\ repository[c.file].kind = "text"

Finite == IsFiniteSet(documents) /\ IsFiniteSet(lexical) /\ IsFiniteSet(semantic)

OneSnapshot == /\ semantic = whole
               /\ lexical = IF pc = "install" THEN Chunks ELSE whole

Accepting == /\ before.changes \in Nat /\ before.changes <= changes
             /\ Stable => \A k \in DOMAIN accepted :
                            repository[accepted[k].name].kind \in {"broken", "text"}
             /\ Stable => raised # "read"

Quoting == /\ Stable => \A d \in documents : Current(d.chunk)
           /\ Stable /\ raised = "none" /\ pc = "idle" => \A c \in semantic : Current(c)

Answering == /\ pc # "idle" => results = NoResults
             /\ ToSet(results.selected) \subseteq semantic
             /\ Wins(results)

IInv == TypeOK /\ Finite /\ OneSnapshot /\ Accepting /\ Ingesting /\ Quoting /\ Answering

LEMMA NothingFound ==
  /\ ToSet(NoResults.selected) = {} /\ Wins(NoResults)
<1>1. ToSet(<<>>) = {}
  BY DEF ToSet
<1>2. NoResults.selected = <<>> /\ NoResults.semantic = <<>>
  BY DEF NoResults
<1> QED
  BY <1>1, <1>2 DEF Wins

(* A chunk per document that has text. *)
LEMMA ChunksFinite == ASSUME IsFiniteSet(documents) PROVE IsFiniteSet(Chunks)
<1> DEFINE D == {x \in documents : x.bytes > 0}
           f == [x \in D |-> x.chunk]
<1>1. IsFiniteSet(D)
  BY FS_Subset
<1>2. Chunks = {d.chunk : d \in D}
  BY DEF Chunks
<1>3. f \in [D -> Chunks] /\ \A c \in Chunks : \E d \in D : f[d] = c
  BY <1>2
<1>4. f \in Surjection(D, Chunks)
  <2> HIDE DEF f, D
  <2> QED
    BY <1>3 DEF Surjection
<1> HIDE DEF f, D
<1> QED
  BY <1>1, <1>4, FS_Surjection DEF ExistsSurjection

LEMMA InitIndex == Init => IInv
<1> SUFFICES ASSUME Init PROVE IInv
  OBVIOUS
<1>1. Finite
  BY FS_EmptySet DEF Init, Finite
<1>2. OneSnapshot
  BY DEF Init, OneSnapshot
<1>3. Accepting /\ Quoting
  <2>1. accepted = <<>> /\ documents = {} /\ semantic = {} /\ raised = "none"
        /\ before.changes = 0 /\ changes = 0
    BY DEF Init
  <2>2. DOMAIN accepted = {}
    BY <2>1
  <2> QED
    BY <2>1, <2>2 DEF Accepting, Quoting
<1>4. Answering
  BY NothingFound DEF Init, Answering
<1>5. Ingesting
  BY DEF Init, Ingesting
<1> QED
  BY <1>1, <1>2, <1>3, <1>4, <1>5, InitType DEF IInv

LEMMA FiniteKept ==
  ASSUME IInv, [Next]_vars PROVE Finite'
<1> USE DEF walk, ingestion, indexes, history, bounds
<1>0. Finite /\ IsFiniteSet(Chunks)
  BY ChunksFinite DEF IInv, Finite
<1>1. CASE Build
  BY <1>0, <1>1, FS_EmptySet DEF Build, Finite
<1>2. CASE ReadFile
  <2>1. \A x : IsFiniteSet(documents \cup {x})
    BY <1>0, FS_AddElement DEF Finite
  <2> QED
    BY <1>0, <1>2, <2>1 DEF ReadFile, Finite
<1>3. CASE \/ WalkFile \/ Walked \/ DocumentVanished \/ Read
           \/ Search \/ Change \/ Quiet \/ UNCHANGED vars
  <2>1. UNCHANGED <<documents, lexical, semantic>>
    BY <1>3 DEF WalkFile, Walked, DocumentVanished, Raise, Read, Search, Change, Quiet, vars
  <2> QED
    BY <1>0, <2>1 DEF Finite
<1>4. CASE PrepareSnapshot \/ ReplaceLexical \/ InstallSnapshot
  <2>1. /\ UNCHANGED documents
        /\ lexical' = lexical \/ lexical' = Chunks
        /\ semantic' = semantic \/ semantic' = Chunks
    BY <1>4 DEF PrepareSnapshot, ReplaceLexical, InstallSnapshot, Abort, Raise
  <2> QED
    BY <1>0, <2>1 DEF Finite
<1> QED
  BY <1>1, <1>2, <1>3, <1>4 DEF Next, BuildStep

LEMMA OneSnapshotKept ==
  ASSUME IInv, [Next]_vars PROVE OneSnapshot'
<1> USE DEF walk, ingestion, indexes, history, bounds
<1>0. OneSnapshot
  BY DEF IInv
<1>1. ASSUME UNCHANGED <<lexical, semantic, whole>>, pc # "install", pc' # "install"
      PROVE  OneSnapshot'
  BY <1>0, <1>1 DEF OneSnapshot
<1>2. CASE Build \/ WalkFile \/ Walked \/ ReadFile \/ DocumentVanished \/ Read \/ PrepareSnapshot
  BY <1>1, <1>2 DEF Build, WalkFile, Walked, ReadFile, DocumentVanished, Read, PrepareSnapshot,
     Abort, Raise
<1>3. CASE ReplaceLexical
  <2>1. CASE pc' = "install" /\ lexical' = Chunks /\ UNCHANGED <<documents, semantic, whole>>
    <3>1. Chunks' = Chunks
      BY <2>1 DEF Chunks
    <3> QED
      BY <1>0, <2>1, <3>1 DEF OneSnapshot
  <2>2. CASE Abort
    BY <1>1, <1>3, <2>2 DEF Abort, Raise, ReplaceLexical
  <2> QED
    BY <1>3, <2>1, <2>2 DEF ReplaceLexical
<1>4. CASE InstallSnapshot
  BY <1>0, <1>4 DEF InstallSnapshot, OneSnapshot
<1>5. CASE Search \/ Change \/ Quiet \/ UNCHANGED vars
  <2>1. UNCHANGED <<pc, documents, lexical, semantic, whole>>
    BY <1>5 DEF Search, Change, Quiet, vars
  <2>2. Chunks' = Chunks
    BY <2>1 DEF Chunks
  <2> QED
    BY <1>0, <2>1, <2>2 DEF OneSnapshot
<1> QED
  BY <1>2, <1>3, <1>4, <1>5 DEF Next, BuildStep

LEMMA AcceptingKept ==
  ASSUME IInv, [Next]_vars PROVE Accepting'
<1> USE DEF walk, ingestion, indexes, history, bounds
<1>0. Accepting /\ changes \in Nat /\ accepted \in Seq([name : Names, size : 0..MaxSize])
  BY DEF IInv, TypeOK
<1>1. CASE Build
  <2>1. before'.changes = changes /\ accepted' = <<>> /\ UNCHANGED changes /\ raised' = "none"
    BY <1>1 DEF Build
  <2>2. DOMAIN accepted' = {}
    BY <2>1
  <2> QED
    BY <1>0, <2>1, <2>2 DEF Accepting
<1>2. CASE WalkFile
  <2>1. PICK n \in names :
          IF Denial(repository[n]) = "none"
          THEN accepted' = Append(accepted, [name |-> n, size |-> repository[n].size])
          ELSE UNCHANGED accepted
    BY <1>2 DEF WalkFile
  <2>2. /\ n \in Names /\ repository[n].size \in 0..MaxSize
        /\ UNCHANGED <<repository, before, raised, changes>>
    BY <1>2 DEF WalkFile, IInv, TypeOK, File
  <2>3. CASE Denial(repository[n]) = "none"
    <3> DEFINE item == [name |-> n, size |-> repository[n].size]
    <3>1. item \in [name : Names, size : 0..MaxSize] /\ item.name = n
      BY <2>2
    <3>2. accepted' = Append(accepted, item)
      BY <2>1, <2>3
    <3> HIDE DEF item
    <3>3. /\ Append(accepted, item) \in Seq([name : Names, size : 0..MaxSize])
          /\ Len(Append(accepted, item)) = Len(accepted) + 1
          /\ \A k \in 1..Len(accepted) : Append(accepted, item)[k] = accepted[k]
          /\ Append(accepted, item)[Len(accepted) + 1] = item
      BY <1>0, <3>1, AppendProperties
    <3>4. /\ DOMAIN accepted = 1..Len(accepted) /\ Len(accepted) \in Nat
          /\ DOMAIN accepted' = 1..Len(accepted')
      BY <1>0, <3>2, <3>3, LenProperties
    <3>5. \A k \in DOMAIN accepted' :
            (k \in DOMAIN accepted /\ accepted'[k] = accepted[k]) \/ accepted'[k] = item
      BY <3>2, <3>3, <3>4
    <3>6. repository[n].kind \in {"broken", "text"}
      BY <2>2, <2>3, AcceptedFits DEF IInv
    <3> QED
      BY <1>0, <2>2, <3>1, <3>5, <3>6 DEF Accepting, Stable
  <2>4. CASE Denial(repository[n]) # "none"
    BY <1>0, <2>1, <2>2, <2>4 DEF Accepting, Stable
  <2> QED
    BY <2>3, <2>4
<1>3. CASE ReadFile
  <2>1. /\ accepted # <<>> /\ accepted' = Tail(accepted)
        /\ UNCHANGED <<repository, before, raised, changes>>
    BY <1>3 DEF ReadFile
  <2>2. /\ Tail(accepted) \in Seq([name : Names, size : 0..MaxSize])
        /\ Len(Tail(accepted)) = Len(accepted) - 1
        /\ \A k \in 1..Len(Tail(accepted)) : Tail(accepted)[k] = accepted[k + 1]
    BY <1>0, <2>1, HeadTailProperties
  <2>3. /\ DOMAIN accepted = 1..Len(accepted) /\ Len(accepted) \in Nat
        /\ DOMAIN accepted' = 1..Len(accepted')
    BY <1>0, <2>1, <2>2, LenProperties
  <2>4. \A k \in DOMAIN accepted' : k + 1 \in DOMAIN accepted /\ accepted'[k] = accepted[k + 1]
    BY <2>1, <2>2, <2>3
  <2> QED
    BY <1>0, <2>1, <2>4 DEF Accepting, Stable
<1>4. CASE Change
  <2>1. changes' = changes + 1 /\ UNCHANGED before
    BY <1>4 DEF Change
  <2> QED
    BY <1>0, <2>1 DEF Accepting, Stable
<1>5. CASE \/ Walked \/ Read \/ PrepareSnapshot \/ ReplaceLexical \/ InstallSnapshot
           \/ Search \/ Quiet \/ UNCHANGED vars
  <2>1. UNCHANGED <<repository, accepted, before, changes>> /\ (raised' = raised \/ raised' # "read")
    BY <1>5 DEF Walked, Read, PrepareSnapshot, ReplaceLexical, InstallSnapshot, Abort, Raise,
       Search, Quiet, vars
  <2> QED
    BY <1>0, <2>1 DEF Accepting, Stable
(* A document that vanishes was accepted; it is gone because somebody        *)
(* changed the repository.                                                   *)
<1>6. CASE DocumentVanished
  <2>1. /\ accepted # <<>> /\ repository[Head(accepted).name].kind = "absent"
        /\ UNCHANGED <<repository, accepted, before, changes>>
    BY <1>6 DEF DocumentVanished, Raise
  <2>2. 1 \in DOMAIN accepted /\ Head(accepted) = accepted[1]
    BY <1>0, <2>1
  <2>3. ~ Stable
    BY <1>0, <2>1, <2>2 DEF Accepting
  <2> QED
    BY <1>0, <2>1, <2>3 DEF Accepting, Stable
<1> QED
  BY <1>1, <1>2, <1>3, <1>4, <1>5, <1>6 DEF Next, BuildStep

LEMMA QuotingKept ==
  ASSUME IInv, [Next]_vars PROVE Quoting'
<1> USE DEF walk, ingestion, indexes, history, bounds
<1>0. /\ Quoting /\ Accepting /\ changes \in Nat
      /\ accepted \in Seq([name : Names, size : 0..MaxSize])
  BY DEF IInv, TypeOK
<1>1. CASE Build
  BY <1>1 DEF Build, Quoting
<1>2. CASE ReadFile
  <2>1. PICK n : n = Head(accepted).name
    OBVIOUS
  <2>2. /\ accepted # <<>> /\ pc' = "read"
        /\ UNCHANGED <<repository, before, changes>>
        /\ IF Normalizes(repository[n])
           THEN documents' = documents \cup
                  {[chunk |-> ChunkOf(n, repository[n]), bytes |-> repository[n].size]}
           ELSE UNCHANGED documents
    BY <1>2, <2>1 DEF ReadFile
  <2>3. Stable => repository[n].kind \in {"broken", "text"}
    <3>1. 1 \in DOMAIN accepted /\ Head(accepted) = accepted[1]
      BY <1>0, <2>2
    <3> QED
      BY <1>0, <2>1, <3>1 DEF Accepting
  <2>4. Stable /\ Normalizes(repository[n]) => Current(ChunkOf(n, repository[n]))
    BY <2>3 DEF Normalizes, Current, ChunkOf
  <2>5. \A d \in documents' : \/ d \in documents
                              \/ Normalizes(repository[n]) /\ d.chunk = ChunkOf(n, repository[n])
    BY <2>2
  <2> QED
    BY <1>0, <2>2, <2>4, <2>5 DEF Quoting, Stable, Current
<1>3. CASE InstallSnapshot
  <2>1. /\ semantic' = Chunks /\ pc' = "idle"
        /\ UNCHANGED <<repository, documents, before, changes>>
    BY <1>3 DEF InstallSnapshot
  <2>2. \A c \in Chunks : \E d \in documents : c = d.chunk
    BY DEF Chunks
  <2> QED
    BY <1>0, <2>1, <2>2 DEF Quoting, Stable, Current
<1>4. CASE Change
  <2>1. changes' = changes + 1 /\ UNCHANGED before
    BY <1>4 DEF Change
  <2> QED
    BY <1>0, <2>1 DEF Quoting, Accepting, Stable
<1>5. ASSUME Raise, pc # "none" PROVE Quoting'
  <2>1. raised' # "none" /\ UNCHANGED <<repository, documents, before, changes>>
    BY <1>5 DEF Raise
  <2> QED
    BY <1>0, <2>1 DEF Quoting, Stable, Current
<1>51. CASE DocumentVanished
  BY <1>5, <1>51 DEF DocumentVanished
<1>6. CASE WalkFile \/ Walked \/ Read \/ PrepareSnapshot \/ ReplaceLexical
  <2>1. ASSUME ~ Abort
        PROVE  pc' # "idle" /\ UNCHANGED <<repository, documents, before, changes>>
    BY <1>6, <2>1 DEF WalkFile, Walked, Read, PrepareSnapshot, ReplaceLexical
  <2>2. ASSUME Abort PROVE Raise /\ pc # "none"
    BY <1>6, <2>2 DEF Abort, WalkFile, Walked, Read, PrepareSnapshot, ReplaceLexical
  <2> QED
    BY <1>0, <1>5, <2>1, <2>2 DEF Quoting, Stable, Current
<1>7. CASE Search \/ Quiet \/ UNCHANGED vars
  <2>1. UNCHANGED <<repository, pc, documents, semantic, before, raised, changes>>
    BY <1>7 DEF Search, Quiet, vars
  <2> QED
    BY <1>0, <2>1 DEF Quoting, Stable, Current
<1> QED
  BY <1>1, <1>2, <1>3, <1>4, <1>51, <1>6, <1>7 DEF Next, BuildStep

LEMMA AnsweringKept ==
  ASSUME IInv, [Next]_vars PROVE Answering'
<1> USE DEF walk, ingestion, indexes, history, bounds
<1>0. Answering
  BY DEF IInv
<1>1. ASSUME results' = NoResults PROVE Answering'
  BY <1>1, NothingFound DEF Answering, Wins
<1>2. CASE Build
  BY <1>1, <1>2 DEF Build
<1>3. CASE BuildStep
  <2>1. pc # "idle" /\ UNCHANGED results
    BY <1>3 DEF BuildStep, WalkFile, Walked, ReadFile, DocumentVanished, Read, PrepareSnapshot,
       ReplaceLexical, InstallSnapshot, Abort, Raise
  <2> QED
    BY <1>0, <1>1, <2>1 DEF Answering
<1>4. CASE Search
  <2>1. PICK matching \in SUBSET lexical, boosted \in SUBSET semantic :
          \E byText \in Rankings(matching), byVector \in Rankings(semantic) :
            \E merged \in Merges(Top(Pool, byText), Top(Pool, byVector), boosted) :
              results' = [lexical |-> byText, semantic |-> byVector, boosted |-> boosted,
                          selected |-> Top(TopK, merged)]
    BY <1>4 DEF Search
  <2>2. PICK byText \in Rankings(matching), byVector \in Rankings(semantic) :
          \E merged \in Merges(Top(Pool, byText), Top(Pool, byVector), boosted) :
            results' = [lexical |-> byText, semantic |-> byVector, boosted |-> boosted,
                        selected |-> Top(TopK, merged)]
    BY <2>1
  <2>3. PICK merged \in Merges(Top(Pool, byText), Top(Pool, byVector), boosted) :
          results' = [lexical |-> byText, semantic |-> byVector, boosted |-> boosted,
                      selected |-> Top(TopK, merged)]
    BY <2>2
  <2>4. /\ pc = "idle" /\ UNCHANGED <<pc, semantic>>
        /\ matching \in SUBSET semantic /\ IsFiniteSet(semantic)
    BY <1>4 DEF Search, IInv, OneSnapshot, Finite
  <2>5. /\ ToSet(Top(TopK, merged)) \subseteq semantic
        /\ Wins([lexical |-> byText, semantic |-> byVector, boosted |-> boosted,
                 selected |-> Top(TopK, merged)])
    BY <2>4, MergeWins
  <2>6. Wins(results') /\ ToSet(results'.selected) \subseteq semantic
    BY <2>3, <2>5
  <2> QED
    BY <2>4, <2>6 DEF Answering, Wins
<1>5. CASE Change \/ Quiet \/ UNCHANGED vars
  <2>1. UNCHANGED <<pc, semantic, results>>
    BY <1>5 DEF Change, Quiet, vars
  <2> QED
    BY <1>0, <2>1 DEF Answering, Wins
<1> QED
  BY <1>2, <1>3, <1>4, <1>5 DEF Next

LEMMA Account == IInv => IngestionInv
BY DEF IInv, Accepting, IngestionInv

LEMMA NextIndex == IInv /\ [Next]_vars => IInv'
BY NextType, FiniteKept, OneSnapshotKept, AcceptingKept, Account, IngestingKept, QuotingKept,
   AnsweringKept DEF IInv

LEMMA IndexCorrect == Spec => []IInv
BY InitIndex, NextIndex, PTL DEF Spec

(* Whatever fails, the two indexes hold the chunks of the last build that    *)
(* succeeded, except between the two replacements of a build.                *)
THEOREM IndexesAgreeCorrect == Spec => []IndexesAgree
<1>1. IInv => IndexesAgree
  BY DEF IInv, OneSnapshot, IndexesAgree
<1> QED
  BY <1>1, IndexCorrect, PTL

(* While nobody changes the repository, what a search after a whole build    *)
(* returns are texts of the repository as it is.                             *)
THEOREM CandidatesCurrentCorrect == Spec => []CandidatesCurrent
<1>1. IInv => CandidatesCurrent
  <2> SUFFICES ASSUME IInv, Stable, raised = "none", NEW c \in ToSet(results.selected)
               PROVE  Current(c)
    BY DEF CandidatesCurrent, Current
  <2>1. CASE pc = "idle"
    BY <2>1 DEF IInv, Answering, Quoting
  <2>2. CASE pc # "idle"
    BY <2>2, NothingFound DEF IInv, Answering
  <2> QED
    BY <2>1, <2>2
<1> QED
  BY <1>1, IndexCorrect, PTL

(* For any number of chunks, any cut and any pool: a chunk both indexes      *)
(* prefer is selected before one both rank lower, and one among the first 61 *)
(* of both before one that a single index found.                             *)
THEOREM AgreementWinsCorrect == Spec => []AgreementWins
<1>1. IInv => AgreementWins
  BY DEF IInv, Answering, Wins, AgreementWins
<1> QED
  BY <1>1, IndexCorrect, PTL

(* For any number of files, any limits and any changes meanwhile: an         *)
(* ingestion that ends accounts for every listed name once, and, when nobody *)
(* changed the repository, reads no more than the limits, leaves out no text *)
(* that they would have allowed, and is not aborted.                         *)
THEOREM IngestionWholeCorrect == Spec => []IngestionWhole
<1>1. IInv => IngestionWhole
  BY Account, WholeIngestion DEF IInv, Accepting, IngestionWhole
<1> QED
  BY <1>1, IndexCorrect, PTL
===============================================================================
