--------------------------- MODULE Chunking_proofs ---------------------------
(* Proofs about Chunking: chunks are faithful to every text. *)
EXTENDS Chunking, TLAPS, FiniteSetTheorems, WellFoundedInduction

(* What never changes of a document. *)
Documented ==
  /\ start \in Layouts
  /\ blank \subseteq Lines /\ headings \subseteq Lines /\ uncounted \subseteq Lines \ {1}
  /\ language \in {"document", "python", "unparsed"}
  /\ language # "python" => symbols = {} /\ uncounted = {}
  /\ symbols \subseteq [first : Lines, last : Lines]
  /\ \A i \in Lines : Size(i) = 0 => i \in blank
  /\ WellNested

(* Everything between the document and its chunks: spans that wait, the rest *)
(* of the one being cut, and the chunks themselves.                          *)
Rest == IF pc = "fill" THEN {Span(offset, span.last, span.symbol)} ELSE {}
Pieces == todo \cup Rest \cup chunks

Typed ==
  /\ pc \in {"split", "span", "fill", "done"}
  /\ todo \subseteq Spans /\ span \in Spans /\ chunks \subseteq Spans
  /\ offset \in Lines /\ end \in 1..(NumLines(start) + 1)
  /\ chars \in Nat
  /\ pc = "split" => chunks = {} /\ todo = {}
  /\ pc = "done" => todo = {}

(* The chunk being filled. *)
Filling ==
  pc = "fill" =>
    /\ span.first <= span.last
    /\ offset <= LastLine
    /\ offset <= end /\ end <= LastLine + 1
    /\ chars = IF end = offset THEN 0 ELSE Length(offset, end - 1)
    /\ \/ chars <= MaxChars
       \/ offset = end - 1
       \/ offset = end - 2 /\ Size(offset) = 0 /\ Size(end - 1) >= MaxChars

Disjoint(s, t) == s.last < t.first \/ t.last < s.first

Apart ==
  (\A s, t \in AllSpans : s # t => Disjoint(s, t)) =>
    /\ \A p, q \in todo : p # q => Disjoint(p, q)
    /\ \A p, q \in chunks : p # q => Disjoint(p, q)
    /\ \A p \in todo, q \in Rest \cup chunks : Disjoint(p, q)
    /\ \A p \in Rest, q \in chunks : Disjoint(p, q)

Within == \A p \in Pieces :
            /\ p.first <= p.last
            /\ \E s \in AllSpans : s.symbol = p.symbol /\ s.first <= p.first /\ p.last <= s.last

Whole == pc # "split" =>
           \A s \in AllSpans : \A i \in (s.first..s.last) \ blank :
             \E p \in Pieces : p.symbol = s.symbol /\ Holds(p, i)

IInv == Documented /\ Typed /\ Filling /\ Bounded /\ Within /\ Apart /\ Whole

-----------------------------------------------------------------------------
(* Facts about texts and sets of lines *)

Below == {p \in Nat \X Nat : p[1] < p[2]}

LEMMA BelowIsLess == OpToRel(<, Nat) = Below
BY Zenon DEF OpToRel, Below

(* Every set of numbers that is not empty has a least element. *)
LEMMA Least ==
  ASSUME NEW S \in SUBSET Nat, S # {}
  PROVE  \E n \in S : \A m \in S : n <= m
<1>1. PICK n \in S : \A m \in S : ~ (<<m, n>> \in Below)
  BY BelowIsLess, NatLessThanWellFounded, WFMin
<1>2. ASSUME NEW m \in S PROVE n <= m
  <2>1. ~ (<<m, n>> \in Below)
    BY <1>1
  <2>2. m \in Nat /\ n \in Nat
    OBVIOUS
  <2>3. QED
    BY <2>1, <2>2 DEF Below
<1>3. QED
  BY <1>2

(* Lines are numbered from one, and start later one after the other. *)
LEMMA Text ==
  ASSUME start \in Layouts
  PROVE  /\ NumLines(start) \in Nat \ {0}
         /\ start \in [1..(NumLines(start) + 1) -> Nat]
         /\ \A i, j \in 1..(NumLines(start) + 1) : i < j => start[i] < start[j]
         /\ Lines = 1..NumLines(start)
BY LayoutsAssumption DEF Lines

LEMMA Lengths ==
  ASSUME start \in Layouts
  PROVE  /\ \A i \in Lines : Size(i) \in Nat
         /\ \A i, j \in Lines : i <= j => Length(i, j) \in Nat /\ (i < j => Length(i, j) > 0)
         /\ \A i \in Lines : Length(i, i) = Size(i)
         /\ \A i, j \in Lines : i < j => Length(i, j) = Length(i, j - 1) + 1 + Size(j)
<1> DEFINE n == NumLines(start)
<1>1. n \in Nat /\ Lines = 1..n
  BY Text
<1>2. \A i \in 1..(n + 1) : start[i] \in Nat
  BY Text
<1>3. \A i, j \in 1..(n + 1) : i < j => start[i] < start[j]
  BY Text
<1> HIDE DEF n
<1>4. \A i \in 1..n : i \in 1..(n + 1) /\ i + 1 \in 1..(n + 1)
  BY <1>1
<1>5. \A i \in Lines : Size(i) \in Nat
  BY <1>1, <1>2, <1>3, <1>4 DEF Size
<1>6. ASSUME NEW i \in Lines, NEW j \in Lines, i <= j
      PROVE  Length(i, j) \in Nat /\ (i < j => Length(i, j) > 0)
  <2>1. i \in 1..(n + 1) /\ j \in 1..(n + 1) /\ j + 1 \in 1..(n + 1) /\ i < j + 1
    BY <1>1, <1>4, <1>6
  <2>2. start[i] < start[j + 1] /\ (i < j => start[i] < start[j])
    BY <1>3, <2>1
  <2>3. start[j] < start[j + 1]
    BY <1>1, <1>3, <2>1
  <2>4. QED
    BY <1>2, <2>1, <2>2, <2>3 DEF Length
<1>7. ASSUME NEW i \in Lines PROVE Length(i, i) = Size(i)
  BY DEF Length, Size
<1>8. ASSUME NEW i \in Lines, NEW j \in Lines, i < j
      PROVE  Length(i, j) = Length(i, j - 1) + 1 + Size(j)
  <2>1. i \in Int /\ j \in Int /\ (j - 1) + 1 = j
    BY <1>1
  <2>2. start[i] \in Nat /\ start[j] \in Nat /\ start[j + 1] \in Nat
    BY <1>1, <1>2, <1>4
  <2>3. QED
    BY <2>1, <2>2 DEF Length, Size
<1>9. QED
  BY <1>5, <1>6, <1>7, <1>8

(* Every line of a set is in one of its runs. *)
LEMMA RunsCover ==
  ASSUME start \in Layouts, NEW S \in SUBSET Lines, NEW i \in S
  PROVE  \E r \in Runs(S) : r.first <= i /\ i <= r.last
<1> DEFINE n == NumLines(start)
           Up == {k \in Nat : i < k /\ k \notin S}
<1>0. S \subseteq 1..n /\ n \in Nat /\ i \in 1..n
  BY Text
<1>1. PICK b \in Up : \A k \in Up : b <= k
  <2>1. n + 1 \in Up
    BY <1>0
  <2>2. QED
    BY <2>1, Least
<1> DEFINE Back == {k \in Nat : i - k \notin S}
<1>2. PICK a \in Back : \A k \in Back : a <= k
  <2>1. i \in Back
    BY <1>0
  <2>2. QED
    BY <2>1, Least
<1> DEFINE r == [first |-> i - a + 1, last |-> b - 1]
<1>3. a # 0
  BY <1>0, <1>2
<1>4. \A k \in (i - a + 1)..(b - 1) : k \in S
  <2> SUFFICES ASSUME NEW k \in (i - a + 1)..(b - 1), k \notin S PROVE FALSE
    OBVIOUS
  <2>1. CASE k > i
    <3>1. k \in Up
      BY <1>0, <2>1
    <3>2. QED
      BY <1>0, <1>1, <3>1
  <2>2. CASE k <= i
    <3>1. i - k \in Nat /\ i - (i - k) = k
      BY <1>0, <2>2, <1>2
    <3>2. i - k \in Back
      BY <3>1
    <3>3. a <= i - k
      BY <1>2, <3>2
    <3>4. QED
      BY <1>0, <1>1, <1>2, <3>3
  <2>3. QED
    BY <1>0, <1>1, <1>2, <2>1, <2>2
<1>5. i - a \notin S /\ b \notin S
  BY <1>1, <1>2
<1>6. i - a + 1 \in S /\ b - 1 \in S /\ i - a + 1 <= i /\ i <= b - 1
  BY <1>0, <1>1, <1>2, <1>3, <1>4
<1>7. r \in Runs(S)
  BY <1>0, <1>1, <1>2, <1>4, <1>5, <1>6 DEF Runs
<1>8. QED
  BY <1>6, <1>7

LEMMA RunsApart ==
  ASSUME start \in Layouts, NEW S \in SUBSET Lines, NEW r \in Runs(S), NEW t \in Runs(S), r # t
  PROVE  Disjoint(r, t)
<1>1. \A i \in S : i \in Int
  BY Text
<1>2. /\ r.first \in S /\ r.last \in S /\ r.first - 1 \notin S /\ r.last + 1 \notin S
      /\ t.first \in S /\ t.last \in S /\ t.first - 1 \notin S /\ t.last + 1 \notin S
      /\ \A i \in r.first..r.last : i \in S
      /\ \A i \in t.first..t.last : i \in S
  BY DEF Runs
<1>3. r.first # t.first \/ r.last # t.last
  BY DEF Runs
<1>4. SUFFICES ASSUME r.first <= t.last, t.first <= r.last PROVE FALSE
  BY <1>1, <1>2 DEF Disjoint
<1>5. ~ r.first < t.first
  <2>1. r.first < t.first => t.first - 1 \in r.first..r.last
    BY <1>1, <1>2, <1>4
  <2>2. QED
    BY <1>2, <2>1
<1>6. ~ t.first < r.first
  <2>1. t.first < r.first => r.first - 1 \in t.first..t.last
    BY <1>1, <1>2, <1>4
  <2>2. QED
    BY <1>2, <2>1
<1>7. ~ r.last < t.last
  <2>1. r.last < t.last => r.last + 1 \in t.first..t.last
    BY <1>1, <1>2, <1>4
  <2>2. QED
    BY <1>2, <2>1
<1>8. ~ t.last < r.last
  <2>1. t.last < r.last => t.last + 1 \in r.first..r.last
    BY <1>1, <1>2, <1>4
  <2>2. QED
    BY <1>2, <2>1
<1>9. QED
  BY <1>1, <1>2, <1>3, <1>5, <1>6, <1>7, <1>8

-----------------------------------------------------------------------------
(* Facts about the spans of a document *)

LEMMA AstLines ==
  ASSUME Documented, NEW i \in Lines
  PROVE  /\ AstLine(i) \in 1..i
         /\ \A j \in Lines : i <= j => AstLine(i) <= AstLine(j)
         /\ uncounted = {} => AstLine(i) = i
<1>1. /\ Lines = 1..NumLines(start) /\ NumLines(start) \in Nat
      /\ uncounted \subseteq Lines \ {1}
  BY Text DEF Documented
<1>2. ASSUME NEW j \in Lines
      PROVE  /\ IsFiniteSet(1..j \ uncounted)
             /\ AstLine(j) \in Nat /\ AstLine(j) <= j
  <2>1. IsFiniteSet(1..j) /\ Cardinality(1..j) = j
    BY <1>1, FS_Interval
  <2>2. (1..j \ uncounted) \in SUBSET (1..j)
    OBVIOUS
  <2>3. QED
    BY <2>1, <2>2, FS_Subset, FS_CardinalityType DEF AstLine
<1>3. AstLine(i) # 0
  <2>1. 1 \in 1..i \ uncounted
    BY <1>1
  <2>2. QED
    BY <1>2, <2>1, FS_EmptySet DEF AstLine
<1>4. ASSUME NEW j \in Lines, i <= j PROVE AstLine(i) <= AstLine(j)
  <2>1. (1..i \ uncounted) \in SUBSET (1..j \ uncounted)
    BY <1>1, <1>4
  <2>2. QED
    BY <1>2, <2>1, FS_Subset DEF AstLine
<1>5. ASSUME uncounted = {} PROVE AstLine(i) = i
  <2>1. 1..i \ uncounted = 1..i /\ 1 \in Int /\ i \in Int /\ ~ 1 > i
    BY <1>1, <1>5
  <2>2. Cardinality(1..i) = (i - 1) + 1
    BY <2>1, FS_Interval
  <2>3. AstLine(i) = Cardinality(1..i)
    BY <2>1, Zenon DEF AstLine
  <2>4. QED
    BY <2>1, <2>2, <2>3
<1>6. AstLine(i) \in 1..i
  <2>1. AstLine(i) \in Nat /\ AstLine(i) <= i
    BY <1>2
  <2>2. i \in Int
    BY <1>1
  <2>3. QED
    BY <1>3, <2>1, <2>2
<1>7. QED
  BY <1>4, <1>5, <1>6

LEMMA SpansTyped ==
  ASSUME Documented
  PROVE  /\ AllSpans \subseteq Spans
         /\ \A s \in AllSpans : s.first <= s.last
<1>1. /\ Lines = 1..NumLines(start) /\ NumLines(start) \in Nat \ {0}
      /\ headings \subseteq Lines /\ 1 \in Lines /\ NumLines(start) \in Lines
  BY Text DEF Documented
<1>2. ASSUME NEW S \in SUBSET Lines, NEW r \in Runs(S)
      PROVE  r.first \in Lines /\ r.last \in Lines /\ r.first <= r.last
  BY <1>2 DEF Runs
<1>3. CASE language = "document"
  <2>1. \A s \in DocumentSpans : s \in Spans /\ s.first <= s.last
    <3>1. CASE headings = {}
      BY <1>1, <1>2, <3>1 DEF DocumentSpans, Spans, Span
    <3>2. CASE headings # {}
      BY <1>1, <3>2 DEF DocumentSpans, Spans
    <3>3. QED
      BY <3>1, <3>2
  <2>2. QED
    BY <1>3, <2>1 DEF AllSpans
<1>4. CASE language = "python"
  <2>1. ASSUME NEW s \in symbols
        PROVE  /\ AstLine(s.first) \in Lines /\ AstLine(s.last) \in Lines
               /\ AstLine(s.first) <= AstLine(s.last) /\ s.first \in Lines
    BY <1>1, AstLines DEF Documented, WellNested
  <2>2. ASSUME NEW s \in PythonSpans PROVE s \in Spans /\ s.first <= s.last
    <3> DEFINE named == {Span(AstLine(t.first), AstLine(t.last), t.first) : t \in symbols}
               inside == {j \in Lines : \E t \in named : t.first <= j /\ j <= t.last}
    <3>1. CASE s \in named
      BY <2>1, <3>1 DEF Spans, Span
    <3>2. CASE s \notin named
      <4>1. PICK r \in Runs(Lines \ (blank \cup inside)) : s = Span(r.first, r.last, Module)
        BY <2>2, <3>2 DEF PythonSpans
      <4>2. Lines \ (blank \cup inside) \in SUBSET Lines
        OBVIOUS
      <4>3. r.first \in Lines /\ r.last \in Lines /\ r.first <= r.last
        BY <1>2, <4>1, <4>2
      <4>4. QED
        BY <4>1, <4>3 DEF Spans, Span
    <3>3. QED
      BY <3>1, <3>2
  <2>3. QED
    BY <1>4, <2>2 DEF AllSpans
<1>5. CASE language = "unparsed"
  BY <1>1, <1>5 DEF AllSpans, Spans, Span
<1>6. QED
  BY <1>3, <1>4, <1>5 DEF Documented

(* The section of a line: from the last heading above it to the next one. *)
LEMMA SectionsCover ==
  ASSUME Documented, headings # {}, NEW i \in Lines
  PROVE  \E s \in DocumentSpans : s.first <= i /\ i <= s.last
<1> DEFINE n == NumLines(start)
           opens == headings \cup {1}
           Back == {k \in Nat : i - k \in opens}
           Ahead == {k \in Nat : i <= k /\ (k = n \/ k + 1 \in headings)}
<1>1. n \in Nat \ {0} /\ Lines = 1..n /\ i \in 1..n /\ opens \subseteq 1..n /\ headings \subseteq 1..n
  BY Text DEF Documented
<1>2. PICK a \in Back : \A k \in Back : a <= k
  <2>1. i - 1 \in Back
    BY <1>1
  <2>2. QED
    BY <2>1, Least
<1>3. PICK b \in Ahead : \A k \in Ahead : b <= k
  <2>1. n \in Ahead
    BY <1>1
  <2>2. QED
    BY <2>1, Least
<1>4. i - a \in opens /\ i - a <= i /\ i <= b /\ b \in 1..n
  BY <1>1, <1>2, <1>3
<1>5. ASSUME NEW k \in (i - a + 1)..b, k \in headings PROVE FALSE
  <2>1. k \in 1..n /\ a \in Nat /\ b \in Nat
    BY <1>1, <1>2, <1>3, <1>5
  <2>2. CASE k <= i
    <3>1. i - k \in Nat /\ i - (i - k) = k
      BY <1>1, <2>1, <2>2
    <3>2. i - k \in Back
      BY <1>5, <3>1
    <3>3. a <= i - k
      BY <1>2, <3>2
    <3>4. QED
      BY <1>1, <1>5, <2>1, <3>3
  <2>3. CASE k > i
    <3>1. k - 1 \in Nat /\ (k - 1) + 1 = k /\ i <= k - 1
      BY <1>1, <2>1, <2>3
    <3>2. k - 1 \in Ahead
      BY <1>5, <3>1
    <3>3. b <= k - 1
      BY <1>3, <3>2
    <3>4. QED
      BY <1>5, <2>1, <3>3
  <2>4. QED
    BY <1>1, <2>1, <2>2, <2>3
<1> DEFINE s == [first |-> i - a, last |-> b, symbol |-> NoSymbol]
<1>6. s \in DocumentSpans
  <2>1. b = n \/ b + 1 \in headings
    BY <1>3
  <2>2. i - a <= b
    BY <1>1, <1>2, <1>3, <1>4
  <2>3. ((i - a) + 1)..b \cap headings = {}
    BY <1>5
  <2>4. QED
    BY <1>1, <1>4, <2>1, <2>2, <2>3 DEF DocumentSpans
<1>7. QED
  BY <1>4, <1>6

LEMMA SpansCover ==
  ASSUME Documented, NEW i \in Lines \ blank
  PROVE  \E s \in AllSpans : s.first <= i /\ i <= s.last
<1>1. /\ Lines = 1..NumLines(start) /\ NumLines(start) \in Nat \ {0}
      /\ start \in Layouts
  BY Text DEF Documented
<1>2. CASE language = "document" /\ headings = {}
  <2>1. PICK r \in Runs(Lines \ blank) : r.first <= i /\ i <= r.last
    BY <1>1, RunsCover
  <2>2. Span(r.first, r.last, NoSymbol) \in AllSpans
    BY <1>2 DEF AllSpans, DocumentSpans
  <2>3. QED
    BY <2>1, <2>2 DEF Span
<1>3. CASE language = "document" /\ headings # {}
  BY <1>3, SectionsCover DEF AllSpans
<1>4. CASE language = "python"
  <2> DEFINE named == {Span(AstLine(s.first), AstLine(s.last), s.first) : s \in symbols}
             inside == {j \in Lines : \E s \in named : s.first <= j /\ j <= s.last}
  <2>1. AllSpans = named \cup {Span(r.first, r.last, Module) : r \in Runs(Lines \ (blank \cup inside))}
    BY <1>4 DEF AllSpans, PythonSpans
  <2>2. CASE i \in inside
    BY <2>1, <2>2
  <2>3. CASE i \notin inside
    <3>1. PICK r \in Runs(Lines \ (blank \cup inside)) : r.first <= i /\ i <= r.last
      BY <1>1, <2>3, RunsCover
    <3>2. Span(r.first, r.last, Module) \in AllSpans
      BY <2>1
    <3>3. QED
      BY <3>1, <3>2 DEF Span
  <2>4. QED
    BY <2>2, <2>3
<1>5. CASE language = "unparsed"
  <2>1. Span(1, NumLines(start), NoSymbol) \in AllSpans
    BY <1>5 DEF AllSpans
  <2>2. 1 <= i /\ i <= NumLines(start)
    BY <1>1
  <2>3. QED
    BY <2>1, <2>2 DEF Span
<1>6. QED
  BY <1>2, <1>3, <1>4, <1>5 DEF Documented

LEMMA SpansApart ==
  ASSUME Documented, language # "python", NEW s \in AllSpans, NEW t \in AllSpans, s # t
  PROVE  Disjoint(s, t)
<1>1. /\ Lines = 1..NumLines(start) /\ NumLines(start) \in Nat \ {0}
      /\ start \in Layouts /\ headings \subseteq Lines
  BY Text DEF Documented
<1>2. CASE language = "document" /\ headings = {}
  <2>1. PICK r \in Runs(Lines \ blank) : s = Span(r.first, r.last, NoSymbol)
    BY <1>2 DEF AllSpans, DocumentSpans
  <2>2. PICK u \in Runs(Lines \ blank) : t = Span(u.first, u.last, NoSymbol)
    BY <1>2 DEF AllSpans, DocumentSpans
  <2>3. Disjoint(r, u)
    BY <1>1, <2>1, <2>2, RunsApart
  <2>4. QED
    BY <2>1, <2>2, <2>3 DEF Disjoint, Span
<1>3. CASE language = "document" /\ headings # {}
  <2>1. ASSUME NEW p \in AllSpans, NEW q \in AllSpans, p.first < q.first PROVE p.last < q.first
    <3>1. /\ p.first \in 1..NumLines(start) /\ p.last \in 1..NumLines(start)
          /\ q.first \in headings \cup {1} /\ q.first \in 1..NumLines(start)
          /\ (p.first + 1)..p.last \cap headings = {}
      BY <1>1, <1>3 DEF AllSpans, DocumentSpans
    <3>2. q.first \in headings
      BY <2>1, <3>1
    <3>3. q.first \notin (p.first + 1)..p.last
      BY <3>1, <3>2
    <3>4. QED
      BY <2>1, <3>1, <3>3
  <2>2. ASSUME NEW p \in AllSpans, NEW q \in AllSpans, p.first = q.first, p.last < q.last PROVE FALSE
    <3>1. /\ p.first \in 1..NumLines(start) /\ p.last \in 1..NumLines(start)
          /\ q.last \in 1..NumLines(start) /\ p.first <= p.last
          /\ p.last = NumLines(start) \/ p.last + 1 \in headings
          /\ (q.first + 1)..q.last \cap headings = {}
      BY <1>1, <1>3 DEF AllSpans, DocumentSpans
    <3>2. p.last + 1 \in (q.first + 1)..q.last /\ p.last # NumLines(start)
      BY <2>2, <3>1
    <3>3. QED
      BY <3>1, <3>2
  <2>3. /\ s.first \in Int /\ s.last \in Int /\ t.first \in Int /\ t.last \in Int
    BY <1>1, <1>3 DEF AllSpans, DocumentSpans
  <2>4. s.first # t.first \/ s.last # t.last
    BY <1>3 DEF AllSpans, DocumentSpans
  <2>5. s.first # t.first
    BY <2>2, <2>3, <2>4
  <2>6. QED
    BY <2>1, <2>3, <2>5 DEF Disjoint
<1>4. CASE language = "unparsed"
  BY <1>4 DEF AllSpans
<1>5. QED
  BY <1>2, <1>3, <1>4 DEF Documented

-----------------------------------------------------------------------------
(* The inductive invariant *)

LEMMA InitIInv == Init => IInv
<1> SUFFICES ASSUME Init PROVE IInv
  OBVIOUS
<1>1. /\ Lines = 1..NumLines(start) /\ NumLines(start) \in Nat \ {0}
      /\ start \in Layouts /\ 1 \in Lines
  BY Text DEF Init
<1>2. symbols \subseteq [first : Lines, last : Lines]
  BY DEF Init
<1>3. Documented
  BY <1>1, <1>2 DEF Init, Documented
<1>4. Typed
  BY <1>1 DEF Init, Typed, Span, Spans
<1>5. Filling /\ Bounded /\ Whole
  BY DEF Init, Filling, Bounded, Whole
<1>6. todo = {} /\ chunks = {} /\ Rest = {}
  BY DEF Init, Rest
<1>7. Within /\ Apart
  BY <1>6 DEF Within, Apart, Pieces
<1>8. QED
  BY <1>3, <1>4, <1>5, <1>7 DEF IInv

(* No step changes the document. *)
LEMMA DocumentStays ==
  ASSUME UNCHANGED document
  PROVE  /\ Documented' = Documented
         /\ AllSpans' = AllSpans
         /\ Lines' = Lines /\ Spans' = Spans
         /\ NumLines(start)' = NumLines(start)
         /\ \A i : Size(i)' = Size(i)
         /\ \A i, j : Length(i, j)' = Length(i, j)
<1> USE DEF document
<1>1. Lines' = Lines /\ NumLines(start)' = NumLines(start)
  BY DEF Lines, NumLines
<1>2. Spans' = Spans
  BY <1>1 DEF Spans
<1>3. \A i : Size(i)' = Size(i)
  BY DEF Size
<1>4. \A i, j : Length(i, j)' = Length(i, j)
  BY DEF Length
<1>5. AllSpans' = AllSpans
  BY <1>1 DEF AllSpans, DocumentSpans, PythonSpans, AstLine
<1>6. Documented' = Documented
  BY <1>1, <1>3 DEF Documented, WellNested, EndsBefore, Contains, AstLine
<1>7. QED
  BY <1>1, <1>2, <1>3, <1>4, <1>5, <1>6

LEMMA SplitStep == IInv /\ Split => IInv'
<1> SUFFICES ASSUME IInv, Split PROVE IInv'
  OBVIOUS
<1> USE DocumentStays DEF Split
<1>1. Documented /\ Documented' /\ AllSpans' = AllSpans /\ Spans' = Spans /\ Lines' = Lines
  BY DEF IInv
<1>2. AllSpans \subseteq Spans /\ \A s \in AllSpans : s.first <= s.last
  BY <1>1, SpansTyped
<1>3. chunks = {}
  BY DEF IInv, Typed
<1>4. todo' = AllSpans' /\ chunks' = {} /\ Rest' = {}
  BY <1>1, <1>3 DEF Rest
<1>5. Typed'
  BY <1>1, <1>2, <1>3 DEF IInv, Typed
<1>6. Filling' /\ Bounded'
  BY <1>4 DEF Filling, Bounded
<1>7. Pieces' = AllSpans'
  BY <1>4 DEF Pieces
<1>8. Within'
  <2>1. \A s \in AllSpans : s.first <= s.last /\ s.first <= s.first /\ s.last <= s.last
    <3>1. Lines = 1..NumLines(start)
      BY <1>1, Text DEF Documented
    <3>2. QED
      BY <1>2, <3>1 DEF Spans
  <2>2. QED
    BY <1>1, <1>7, <2>1 DEF Within
<1>9. Apart'
  BY <1>4 DEF Apart
<1>10. Whole'
  BY <1>1, <1>2, <1>7 DEF Whole, Holds, Spans
<1>11. QED
  BY <1>1, <1>5, <1>6, <1>8, <1>9, <1>10 DEF IInv

LEMMA DoneStep == IInv /\ Done => IInv'
<1> SUFFICES ASSUME IInv, Done PROVE IInv'
  OBVIOUS
<1> USE DocumentStays DEF Done
<1>1. /\ Documented' /\ AllSpans' = AllSpans /\ Spans' = Spans /\ Lines' = Lines
      /\ NumLines(start)' = NumLines(start) /\ blank' = blank
      /\ \A i, j : Length(i, j)' = Length(i, j)
      /\ \A i : Size(i)' = Size(i)
  BY DEF IInv, document
<1>2. todo' = todo /\ chunks' = chunks /\ Rest' = {} /\ Rest = {} /\ Pieces' = Pieces
  BY DEF Rest, Pieces
<1>3. Typed'
  BY <1>1 DEF IInv, Typed
<1>4. Filling' /\ Bounded'
  BY <1>1, <1>2 DEF IInv, Filling, Bounded
<1>5. Within' /\ Apart' /\ Whole'
  BY <1>1, <1>2 DEF IInv, Within, Apart, Whole
<1>6. QED
  BY <1>1, <1>3, <1>4, <1>5 DEF IInv

LEMMA TakeStep == IInv /\ TakeSpan => IInv'
<1> SUFFICES ASSUME IInv, TakeSpan PROVE IInv'
  OBVIOUS
<1> USE DocumentStays
<1>1. /\ Documented' /\ AllSpans' = AllSpans /\ Spans' = Spans /\ Lines' = Lines
      /\ NumLines(start)' = NumLines(start) /\ blank' = blank
      /\ \A i, j : Length(i, j)' = Length(i, j)
      /\ \A i : Size(i)' = Size(i)
  BY DEF IInv, TakeSpan, document
<1>2. PICK s \in todo :
        /\ todo' = todo \ {s}
        /\ IF s.first..s.last \subseteq blank
           THEN UNCHANGED <<pc, span, offset, end, chars>>
           ELSE /\ span' = s
                /\ offset' = s.first /\ end' = s.first /\ chars' = 0
                /\ pc' = "fill"
  BY DEF TakeSpan
<1>3. /\ s \in Spans /\ s.first \in Lines /\ s.last \in Lines /\ s.first <= s.last
      /\ s = Span(s.first, s.last, s.symbol)
      /\ chunks' = chunks /\ pc = "span" /\ Rest = {}
      /\ Lines = 1..NumLines(start) /\ NumLines(start) \in Nat \ {0}
  <2>1. s \in Spans
    BY DEF IInv, Typed
  <2>2. s.first <= s.last
    BY DEF IInv, Within, Pieces
  <2>3. Lines = 1..NumLines(start) /\ NumLines(start) \in Nat \ {0}
    BY Text DEF IInv, Documented
  <2>4. QED
    BY <2>1, <2>2, <2>3 DEF Spans, Span, TakeSpan, Rest
<1>4. Bounded'
  BY <1>1, <1>3 DEF IInv, Bounded
<1>5. CASE s.first..s.last \subseteq blank
  <2>1. todo' = todo \ {s} /\ pc' = "span" /\ Rest' = {} /\ Pieces' \subseteq Pieces
    BY <1>2, <1>3, <1>5 DEF Rest, Pieces
  <2>2. Typed' /\ Filling'
    BY <1>1, <1>2, <1>3, <1>5, <2>1 DEF IInv, Typed, Filling
  <2>3. Within' /\ Apart'
    BY <1>1, <1>3, <2>1 DEF IInv, Within, Apart
  <2>4. Whole'
    <3>1. \A p \in Pieces : p = s \/ p \in Pieces'
      BY <1>3, <2>1 DEF Pieces
    <3>2. SUFFICES ASSUME NEW t \in AllSpans, NEW i \in (t.first..t.last) \ blank
                   PROVE  \E p \in Pieces' : p.symbol = t.symbol /\ Holds(p, i)
      BY <1>1 DEF Whole, Holds
    <3>3. PICK p \in Pieces : p.symbol = t.symbol /\ Holds(p, i)
      BY <1>3 DEF IInv, Whole
    <3>4. ~ Holds(s, i)
      <4>1. t \in Spans
        BY SpansTyped DEF IInv
      <4>2. i \in Int
        BY <1>3, <4>1 DEF Spans
      <4>3. QED
        BY <1>3, <1>5, <4>2 DEF Holds
    <3>5. QED
      BY <3>1, <3>3, <3>4
  <2>5. QED
    BY <1>1, <1>4, <2>2, <2>3, <2>4 DEF IInv
<1>6. CASE ~ (s.first..s.last \subseteq blank)
  <2>1. /\ todo' = todo \ {s} /\ pc' = "fill" /\ span' = s
        /\ offset' = s.first /\ end' = s.first /\ chars' = 0
    BY <1>2, <1>6
  <2>2. Rest' = {s} /\ Pieces' = Pieces
    BY <1>3, <2>1 DEF Rest, Pieces
  <2>3. Typed'
    BY <1>1, <1>3, <2>1 DEF IInv, Typed
  <2>4. Filling'
    <3>1. LastLine' = IF Size(s.last) = 0 /\ s.first < s.last THEN s.last - 1 ELSE s.last
      BY <1>1, <2>1 DEF LastLine
    <3>2. s.first <= LastLine' /\ LastLine' \in Int
      BY <1>3, <3>1
    <3>3. 0 <= MaxChars
      BY MaxCharsAssumption
    <3>4. QED
      BY <1>3, <2>1, <3>2, <3>3 DEF Filling
  <2>5. Within' /\ Whole'
    BY <1>1, <1>3, <2>1, <2>2 DEF IInv, Within, Whole
  <2>6. Apart'
    BY <1>1, <1>3, <2>1, <2>2 DEF IInv, Apart, Disjoint
  <2>7. QED
    BY <1>1, <1>4, <2>3, <2>4, <2>5, <2>6 DEF IInv
<1>7. QED
  BY <1>5, <1>6

LEMMA AddStep == IInv /\ AddLine => IInv'
<1> SUFFICES ASSUME IInv, AddLine PROVE IInv'
  OBVIOUS
<1> USE DocumentStays
<1>1. /\ Documented' /\ AllSpans' = AllSpans /\ Spans' = Spans /\ Lines' = Lines
      /\ NumLines(start)' = NumLines(start) /\ blank' = blank
      /\ \A i, j : Length(i, j)' = Length(i, j)
      /\ \A i : Size(i)' = Size(i)
  BY DEF IInv, AddLine, document
<1>2. /\ pc = "fill" /\ UNCHANGED <<pc, todo, span, offset, chunks>>
      /\ chars' = chars + Added /\ end' = end + 1
      /\ end <= LastLine
      /\ chars = 0 \/ chars + Added <= MaxChars
  BY DEF AddLine, Fits
<1>3. /\ Lines = 1..NumLines(start) /\ NumLines(start) \in Nat \ {0}
      /\ start \in Layouts /\ MaxChars \in Nat \ {0}
  BY Text, MaxCharsAssumption DEF IInv, Documented
<1>4. /\ span.first \in Lines /\ span.last \in Lines /\ offset \in Lines
      /\ end \in Nat /\ chars \in Nat
  BY <1>3 DEF IInv, Typed, Spans
<1>5. /\ LastLine \in Int /\ LastLine <= span.last /\ LastLine' = LastLine
  BY <1>1, <1>2, <1>3, <1>4 DEF LastLine
<1>6. /\ span.first <= span.last /\ offset <= LastLine /\ offset <= end
      /\ chars = IF end = offset THEN 0 ELSE Length(offset, end - 1)
  BY <1>2 DEF IInv, Filling
<1>7. /\ end \in Lines /\ Size(end) \in Nat /\ (end + 1) - 1 = end
      /\ end > offset => end - 1 \in Lines /\ offset <= end - 1
  BY <1>2, <1>3, <1>4, <1>5, <1>6, Lengths
<1>8. chars' = Length(offset, end)
  <2>1. CASE end = offset
    <3>1. Length(end, end) = Size(end) /\ ~ (end > offset) /\ chars = 0
      BY <1>3, <1>6, <1>7, <2>1, Lengths
    <3>2. QED
      BY <1>2, <1>7, <2>1, <3>1 DEF Added
  <2>2. CASE end > offset
    BY <1>2, <1>3, <1>4, <1>6, <1>7, <2>2, Lengths DEF Added
  <2>3. offset \in Int /\ end \in Int /\ offset <= end
    BY <1>3, <1>4, <1>6
  <2>4. end = offset \/ end > offset
    BY <2>3
  <2>5. QED
    BY <2>1, <2>2, <2>4
<1>9. \/ chars' <= MaxChars
      \/ offset = end
      \/ offset = end - 1 /\ Size(offset) = 0 /\ Size(end) >= MaxChars
  <2> SUFFICES ASSUME chars' > MaxChars, offset # end
               PROVE  offset = end - 1 /\ Size(offset) = 0 /\ Size(end) >= MaxChars
    BY <1>2, <1>3, <1>4, <1>7 DEF Added
  <2>1. chars = 0 /\ end > offset /\ Length(offset, end - 1) = 0
    BY <1>2, <1>3, <1>4, <1>6, <1>7 DEF Added
  <2>2. offset = end - 1
    BY <1>3, <1>4, <1>7, <2>1, Lengths
  <2>3. Size(offset) = 0
    BY <1>3, <1>4, <2>1, <2>2, Lengths
  <2>4. chars' = Size(end) + 1
    BY <1>2, <1>7, <2>1 DEF Added
  <2>5. QED
    BY <1>3, <1>7, <2>2, <2>3, <2>4
<1>10. Typed'
  BY <1>1, <1>2, <1>3, <1>7, <1>8, <1>4, <1>6, Lengths DEF IInv, Typed
<1>11. Filling'
  <2>1. end' = end + 1 /\ offset' = offset /\ span' = span /\ end' - 1 = end /\ end' - 2 = end - 1
    BY <1>2, <1>4
  <2>2. end' # offset'
    BY <1>3, <1>4, <1>6, <2>1
  <2>3. offset' <= end' /\ end' <= LastLine' + 1 /\ offset' <= LastLine'
    BY <1>2, <1>3, <1>4, <1>5, <1>6, <2>1
  <2>4. chars' = Length(offset, end - 1)'
    <3>1. start' = start
      BY DEF AddLine, document
    <3>2. QED
      BY <1>8, <2>1, <3>1 DEF Length
  <2>5. \/ chars' <= MaxChars
        \/ offset' = end' - 1
        \/ offset' = end' - 2 /\ Size(offset)' = 0 /\ Size(end - 1)' >= MaxChars
    <3>1. start' = start
      BY DEF AddLine, document
    <3>2. QED
      BY <1>9, <2>1, <3>1 DEF Size
  <2>6. QED
    BY <1>2, <1>6, <2>2, <2>3, <2>4, <2>5 DEF Filling
<1>12. Rest' = Rest /\ Pieces' = Pieces
  BY <1>2 DEF Rest, Pieces
<1>13. Bounded' /\ Within' /\ Apart' /\ Whole'
  BY <1>1, <1>2, <1>12 DEF IInv, Bounded, Within, Apart, Whole
<1>14. QED
  BY <1>1, <1>10, <1>11, <1>13 DEF IInv

LEMMA CloseStep == IInv /\ CloseChunk => IInv'
<1> SUFFICES ASSUME IInv, CloseChunk PROVE IInv'
  OBVIOUS
<1> USE DocumentStays
<1> DEFINE made == Span(offset, end - 1, span.symbol)
           whole == Span(offset, span.last, span.symbol)
           left == Span(end, span.last, span.symbol)
<1>1. /\ Documented' /\ AllSpans' = AllSpans /\ Spans' = Spans /\ Lines' = Lines
      /\ NumLines(start)' = NumLines(start) /\ blank' = blank
      /\ \A i, j : Length(i, j)' = Length(i, j)
      /\ \A i : Size(i)' = Size(i)
  BY DEF IInv, CloseChunk, document
<1>2. /\ pc = "fill" /\ UNCHANGED <<todo, span>>
      /\ chunks' = chunks \cup {made}
      /\ IF end > LastLine THEN pc' = "span" /\ UNCHANGED offset
                           ELSE offset' = end /\ UNCHANGED pc
      /\ end' = offset' /\ chars' = 0
  BY DEF CloseChunk
<1>3. /\ Lines = 1..NumLines(start) /\ NumLines(start) \in Nat \ {0}
      /\ start \in Layouts /\ MaxChars \in Nat \ {0}
  BY Text, MaxCharsAssumption DEF IInv, Documented
<1>4. /\ span.first \in Lines /\ span.last \in Lines /\ offset \in Lines
      /\ span.symbol \in {NoSymbol, Module} \cup Lines
      /\ end \in Nat /\ chars \in Nat
  BY <1>3 DEF IInv, Typed, Spans
<1>5. /\ LastLine \in Int /\ LastLine <= span.last /\ LastLine' = LastLine
      /\ \A i \in (LastLine + 1)..span.last : i \in blank
  <2>1. \A i \in Lines : Size(i) = 0 => i \in blank
    BY DEF IInv, Documented
  <2>2. QED
    BY <1>1, <1>2, <1>3, <1>4, <2>1 DEF LastLine
<1>6. /\ span.first <= span.last /\ offset <= LastLine /\ offset <= end /\ end <= LastLine + 1
      /\ chars = IF end = offset THEN 0 ELSE Length(offset, end - 1)
      /\ \/ chars <= MaxChars
         \/ offset = end - 1
         \/ offset = end - 2 /\ Size(offset) = 0 /\ Size(end - 1) >= MaxChars
  BY <1>2 DEF IInv, Filling
<1>7. end # offset
  BY <1>5, <1>6 DEF CloseChunk, Fits
<1>8. /\ end > offset /\ end - 1 \in Lines /\ offset <= end - 1 /\ end - 1 <= span.last
      /\ end <= LastLine => end \in Lines /\ end <= span.last
  BY <1>3, <1>4, <1>5, <1>6, <1>7
<1>9. Rest = {whole} /\ Rest' = IF end > LastLine THEN {} ELSE {left}
  BY <1>2 DEF Rest
<1>10. /\ made.first = offset /\ made.last = end - 1 /\ made.symbol = span.symbol
       /\ whole.first = offset /\ whole.last = span.last /\ whole.symbol = span.symbol
       /\ left.first = end /\ left.last = span.last /\ left.symbol = span.symbol
  BY DEF Span
<1>11. Typed'
  <2>1. made \in Spans
    BY <1>4, <1>8 DEF Span, Spans
  <2>2. offset' \in Lines
    BY <1>2, <1>4, <1>5, <1>8
  <2>3. QED
    BY <1>1, <1>2, <1>3, <2>1, <2>2 DEF IInv, Typed
<1>12. Filling'
  <2>1. CASE end > LastLine
    BY <1>2, <2>1 DEF Filling
  <2>2. CASE ~ (end > LastLine)
    <3>1. offset' = end /\ end' = end /\ chars' = 0 /\ span' = span /\ LastLine' = LastLine
      BY <1>2, <1>5, <2>2
    <3>2. end <= LastLine /\ end <= end /\ end <= LastLine + 1 /\ 0 <= MaxChars
      BY <1>3, <1>4, <1>5, <2>2
    <3>3. QED
      BY <1>6, <3>1, <3>2 DEF Filling
  <2>3. QED
    BY <2>1, <2>2
<1>13. Bounded'
  <2>1. \/ Length(made.first, made.last) <= MaxChars
        \/ made.first = made.last
        \/ made.first + 1 = made.last /\ Size(made.first) = 0 /\ Size(made.last) >= MaxChars
    BY <1>4, <1>3, <1>6, <1>7, <1>10
  <2>2. QED
    BY <1>1, <1>2, <2>1 DEF IInv, Bounded
<1> HIDE DEF made, whole, left
<1>14. Pieces' = todo \cup Rest' \cup chunks \cup {made} /\ Pieces = todo \cup {whole} \cup chunks
  BY <1>2, <1>9 DEF Pieces
<1>15. Within'
  <2>1. PICK s \in AllSpans : s.symbol = whole.symbol /\ s.first <= whole.first /\ whole.last <= s.last
    BY <1>14 DEF IInv, Within
  <2>2. s.first \in Int /\ s.last \in Int
    BY <1>3, <2>1, SpansTyped DEF IInv, Spans
  <2>3. made.first <= made.last /\ s.symbol = made.symbol /\ s.first <= made.first /\ made.last <= s.last
    BY <1>3, <1>4, <1>8, <1>10, <2>1, <2>2
  <2>4. end <= LastLine =>
          left.first <= left.last /\ s.symbol = left.symbol /\ s.first <= left.first /\ left.last <= s.last
    BY <1>3, <1>4, <1>8, <1>10, <2>1, <2>2
  <2>5. \A p \in Pieces' : p \in Pieces \/ p = made \/ (p = left /\ end <= LastLine)
    BY <1>4, <1>5, <1>9, <1>14
  <2>6. QED
    BY <1>1, <2>1, <2>3, <2>4, <2>5 DEF IInv, Within
<1>16. Apart'
  <2> SUFFICES ASSUME \A s, t \in AllSpans : s # t => Disjoint(s, t)
               PROVE  /\ \A p, q \in todo' : p # q => Disjoint(p, q)
                      /\ \A p, q \in chunks' : p # q => Disjoint(p, q)
                      /\ \A p \in todo', q \in Rest' \cup chunks' : Disjoint(p, q)
                      /\ \A p \in Rest', q \in chunks' : Disjoint(p, q)
    BY <1>1 DEF Apart, Disjoint
  <2>1. /\ \A p, q \in todo : p # q => Disjoint(p, q)
        /\ \A p, q \in chunks : p # q => Disjoint(p, q)
        /\ \A p \in todo, q \in Rest \cup chunks : Disjoint(p, q)
        /\ \A p \in Rest, q \in chunks : Disjoint(p, q)
    BY DEF IInv, Apart
  <2>2. \A p \in todo \cup chunks : p.first \in Int /\ p.last \in Int
    BY <1>3 DEF IInv, Typed, Spans
  <2>3. \A p \in todo \cup chunks : Disjoint(p, whole) \/ Disjoint(whole, p)
    BY <1>9, <2>1
  <2>4. ASSUME NEW p \in todo \cup chunks
        PROVE  Disjoint(p, made) /\ Disjoint(made, p) /\ Disjoint(p, left) /\ Disjoint(left, p)
    BY <1>3, <1>4, <1>8, <1>10, <2>2, <2>3 DEF Disjoint
  <2>5. Disjoint(left, made)
    BY <1>4, <1>10 DEF Disjoint
  <2>6. QED
    BY <1>2, <1>9, <2>1, <2>4, <2>5
<1>17. Whole'
  <2> SUFFICES ASSUME NEW t \in AllSpans, NEW i \in (t.first..t.last) \ blank
               PROVE  \E p \in Pieces' : p.symbol = t.symbol /\ Holds(p, i)
    BY <1>1 DEF Whole, Holds
  <2>1. PICK p \in Pieces : p.symbol = t.symbol /\ Holds(p, i)
    BY <1>2 DEF IInv, Whole
  <2>2. i \in Int
    BY <1>3, SpansTyped DEF IInv, Spans
  <2>3. CASE p # whole
    BY <1>14, <2>1, <2>3
  <2>4. CASE p = whole /\ i < end
    BY <1>4, <1>10, <1>14, <2>1, <2>2, <2>4 DEF Holds
  <2>5. CASE p = whole /\ end <= i
    <3>1. i <= LastLine
      BY <1>3, <1>4, <1>5, <1>10, <2>1, <2>2, <2>5 DEF Holds
    <3>2. left \in Pieces'
      BY <1>4, <1>5, <1>9, <1>14, <2>2, <2>5, <3>1
    <3>3. QED
      BY <1>10, <2>1, <2>5, <3>2 DEF Holds
  <2>6. QED
    BY <1>4, <2>2, <2>3, <2>4, <2>5
<1>18. QED
  BY <1>1, <1>11, <1>12, <1>13, <1>15, <1>16, <1>17 DEF IInv

LEMMA StepIInv == IInv /\ [Next]_vars => IInv'
<1> SUFFICES ASSUME IInv, [Next]_vars PROVE IInv'
  OBVIOUS
<1>1. CASE UNCHANGED vars
  <2>1. /\ UNCHANGED document
        /\ pc' = pc /\ todo' = todo /\ span' = span /\ offset' = offset
        /\ end' = end /\ chars' = chars /\ chunks' = chunks
    BY <1>1 DEF vars
  <2>2. /\ start' = start /\ blank' = blank /\ Lines' = Lines /\ Spans' = Spans
        /\ AllSpans' = AllSpans /\ Documented' = Documented
        /\ NumLines(start)' = NumLines(start)
    BY <2>1, DocumentStays DEF document
  <2>3. Rest' = Rest /\ Pieces' = Pieces /\ LastLine' = LastLine
    BY <2>1, <2>2 DEF Rest, Pieces, LastLine, Size
  <2>4. Typed'
    BY <2>1, <2>2 DEF IInv, Typed
  <2>5. Filling' /\ Bounded'
    BY <2>1, <2>2, <2>3 DEF IInv, Filling, Bounded, Length, Size
  <2>6. Within' /\ Apart' /\ Whole'
    BY <2>1, <2>2, <2>3 DEF IInv, Within, Apart, Whole
  <2>7. QED
    BY <2>2, <2>4, <2>5, <2>6 DEF IInv
<1>2. CASE Split
  BY <1>2, SplitStep
<1>3. CASE TakeSpan
  BY <1>3, TakeStep
<1>4. CASE Done
  BY <1>4, DoneStep
<1>5. CASE AddLine
  BY <1>5, AddStep
<1>6. CASE CloseChunk
  BY <1>6, CloseStep
<1>7. QED
  BY <1>1, <1>2, <1>3, <1>4, <1>5, <1>6 DEF Next, Step, Read

LEMMA Inductive == Spec => []IInv
<1>1. IInv /\ [Next]_vars => IInv'
  BY StepIInv
<1>2. QED
  BY InitIInv, <1>1, PTL DEF Spec

-----------------------------------------------------------------------------
(* Theorems *)

(* The variables of chunk keep their types, whatever the text.  The code: the *)
(* slices and line numbers of rag/chunking.py:23-88 stay inside the document. *)
THEOREM TypeCorrect == Spec => []TypeOK
<1>1. IInv => TypeOK
  BY DEF IInv, Documented, Typed, TypeOK
<1>2. QED
  BY Inductive, <1>1, PTL

(* Finished chunks leave no line with text out, and no line is in two of them *)
(* unless python symbols nest.                                                *)
LEMMA CoveredAtEnd ==
  ASSUME IInv, pc = "done"
  PROVE  Covered
<1>1. Pieces = chunks
  BY DEF IInv, Typed, Pieces, Rest
<1>2. Lines = 1..NumLines(start) /\ NumLines(start) \in Nat \ {0} /\ Documented
  BY Text DEF IInv, Documented
<1>3. ASSUME NEW i \in Lines \ blank PROVE \E c \in chunks : Holds(c, i)
  <2>1. PICK s \in AllSpans : s.first <= i /\ i <= s.last
    BY <1>2, SpansCover
  <2>2. s.first \in Int /\ s.last \in Int
    BY <1>2, SpansTyped DEF Spans
  <2>3. i \in (s.first..s.last) \ blank
    BY <1>2, <2>1, <2>2
  <2>4. QED
    BY <1>1, <2>3 DEF IInv, Whole
<1>4. ASSUME language # "python", NEW i \in Lines, NEW c \in chunks, NEW d \in chunks,
             Holds(c, i), Holds(d, i)
      PROVE  c = d
  <2>1. \A s, t \in AllSpans : s # t => Disjoint(s, t)
    BY <1>2, <1>4, SpansApart
  <2>2. c # d => Disjoint(c, d)
    BY <2>1 DEF IInv, Apart
  <2>3. c.first \in Int /\ c.last \in Int /\ d.first \in Int /\ d.last \in Int /\ i \in Int
    BY <1>2 DEF IInv, Typed, Spans
  <2>4. QED
    BY <1>4, <2>2, <2>3 DEF Disjoint, Holds
<1>5. QED
  BY <1>3, <1>4 DEF Covered

(* Where ast and splitlines agree on the lines, a python span is a symbol or *)
(* lies outside of all of them.                                              *)
LEMMA SpansNamed ==
  ASSUME Documented, uncounted = {}
  PROVE  /\ \A a \in AllSpans : a.symbol \in Lines =>
              \E s \in symbols : a = Span(s.first, s.last, s.first)
         /\ \A s \in symbols : Span(s.first, s.last, s.first) \in AllSpans
         /\ \A a \in AllSpans : a.symbol = Module =>
              \A s \in symbols : a.last < s.first \/ s.last < a.first
<1> DEFINE named == {Span(AstLine(s.first), AstLine(s.last), s.first) : s \in symbols}
           inside == {i \in Lines : \E s \in named : s.first <= i /\ i <= s.last}
           loose == Runs(Lines \ (blank \cup inside))
<1>1. /\ Lines = 1..NumLines(start) /\ NumLines(start) \in Nat \ {0}
      /\ \A i \in Lines : i \in Int /\ i # NoSymbol /\ i # Module
      /\ NoSymbol # Module
  BY Text DEF Documented, NoSymbol, Module
<1>2. ASSUME NEW s \in symbols
      PROVE  /\ s.first \in Lines /\ s.last \in Lines /\ s.first <= s.last
             /\ s.first \notin blank /\ s.last \notin blank
             /\ AstLine(s.first) = s.first /\ AstLine(s.last) = s.last
  <2>1. s.first \in Lines /\ s.last \in Lines
    BY DEF Documented
  <2>2. s.first <= s.last /\ s.first \notin blank /\ s.last \notin blank
    BY DEF Documented, WellNested
  <2>3. QED
    BY <2>1, <2>2, AstLines
<1>3. CASE language # "python"
  <2>1. symbols = {}
    BY <1>3 DEF Documented
  <2>2. \A a \in AllSpans : a.symbol = NoSymbol
    BY <1>3 DEF Documented, AllSpans, DocumentSpans, Span
  <2>3. QED
    BY <1>1, <2>1, <2>2
<1>4. CASE language = "python"
  <2>1. AllSpans = named \cup {Span(r.first, r.last, Module) : r \in loose}
    BY <1>4 DEF AllSpans, PythonSpans
  <2>2. /\ \A a \in named : \E s \in symbols : a = Span(s.first, s.last, s.first)
        /\ \A s \in symbols : Span(s.first, s.last, s.first) \in named
    BY <1>2
  <2>0. \A i \in Lines : \A t \in named : t.first <= i /\ i <= t.last => i \in inside
    OBVIOUS
  <2> HIDE DEF named, inside
  <2>3. ASSUME NEW a \in AllSpans, a.symbol \in Lines
        PROVE  \E s \in symbols : a = Span(s.first, s.last, s.first)
    <3>1. ASSUME NEW r \in loose, a = Span(r.first, r.last, Module) PROVE FALSE
      BY <1>1, <2>3, <3>1 DEF Span
    <3>2. a \in named
      BY <2>1, <3>1
    <3>3. QED
      BY <2>2, <3>2
  <2>4. \A s \in symbols : Span(s.first, s.last, s.first) \in AllSpans
    BY <2>1, <2>2
  <2>5. ASSUME NEW a \in AllSpans, a.symbol = Module, NEW s \in symbols
        PROVE  a.last < s.first \/ s.last < a.first
    <3>1. PICK r \in loose : a = Span(r.first, r.last, Module)
      <4>1. ASSUME a \in named PROVE FALSE
        <5>1. PICK t \in symbols : a = Span(t.first, t.last, t.first)
          BY <2>2, <4>1
        <5>2. QED
          BY <1>1, <1>2, <2>5, <5>1 DEF Span
      <4>2. QED
        BY <2>1, <4>1
    <3>2. /\ r.first \in Lines /\ r.last \in Lines /\ r.first <= r.last
          /\ \A i \in r.first..r.last : i \notin inside
      BY <3>1 DEF Runs
    <3>3. a.first = r.first /\ a.last = r.last
      BY <3>1 DEF Span
    <3>4. \A i \in Lines : s.first <= i /\ i <= s.last => i \in inside
      <4>1. /\ Span(s.first, s.last, s.first).first = s.first
            /\ Span(s.first, s.last, s.first).last = s.last
        BY DEF Span
      <4>2. QED
        BY <2>0, <2>2, <4>1
    <3>5. CASE r.first < s.first
      <4>1. s.first \in inside
        BY <1>1, <1>2, <3>4
      <4>2. QED
        BY <1>1, <1>2, <3>2, <3>3, <3>5, <4>1
    <3>6. CASE s.first <= r.first
      <4>1. ~ r.first <= s.last
        BY <1>1, <3>2, <3>4, <3>6
      <4>2. QED
        BY <1>1, <1>2, <3>2, <3>3, <4>1
    <3>7. QED
      BY <1>1, <1>2, <3>2, <3>5, <3>6
  <2>6. QED
    BY <2>3, <2>4, <2>5
<1>5. QED
  BY <1>3, <1>4

(* Finished chunks name what they quote. *)
LEMMA AttributedAtEnd ==
  ASSUME IInv, pc = "done", uncounted = {}
  PROVE  Attributed
<1>1. Pieces = chunks /\ Documented
  BY DEF IInv, Typed, Pieces, Rest
<1>2. /\ Lines = 1..NumLines(start) /\ NumLines(start) \in Nat
      /\ \A s \in symbols : s.first \in Lines /\ s.last \in Lines
      /\ \A c \in chunks : c.first \in Lines /\ c.last \in Lines
      /\ \A a \in AllSpans : a.first \in Lines /\ a.last \in Lines
  BY Text, SpansTyped DEF IInv, Documented, Typed, Spans
<1>3. ASSUME NEW c \in chunks
      PROVE  \E a \in AllSpans : a.symbol = c.symbol /\ a.first <= c.first /\ c.last <= a.last
  BY <1>1 DEF IInv, Within
<1>4. ASSUME NEW c \in chunks, c.symbol \in Lines
      PROVE  \E s \in symbols : s.first = c.symbol /\ s.first <= c.first /\ c.last <= s.last
  <2>1. PICK a \in AllSpans : a.symbol = c.symbol /\ a.first <= c.first /\ c.last <= a.last
    BY <1>3
  <2>2. PICK s \in symbols : a = Span(s.first, s.last, s.first)
    BY <1>1, <1>4, <2>1, SpansNamed
  <2>3. QED
    BY <2>1, <2>2 DEF Span
<1>5. ASSUME NEW s \in symbols, NEW i \in (s.first..s.last) \ blank
      PROVE  \E c \in chunks : c.symbol = s.first /\ Holds(c, i)
  <2> DEFINE a == Span(s.first, s.last, s.first)
  <2>1. a \in AllSpans
    BY <1>1, SpansNamed
  <2>2. a.first = s.first /\ a.last = s.last /\ a.symbol = s.first
    BY DEF Span
  <2> HIDE DEF a
  <2>3. i \in (a.first..a.last) \ blank
    BY <2>2
  <2>4. \E p \in Pieces : p.symbol = a.symbol /\ Holds(p, i)
    BY <2>1, <2>3 DEF IInv, Whole
  <2>5. QED
    BY <1>1, <2>2, <2>4
<1>6. ASSUME NEW c \in chunks, c.symbol = Module, NEW s \in symbols
      PROVE  c.last < s.first \/ s.last < c.first
  <2>1. PICK a \in AllSpans : a.symbol = c.symbol /\ a.first <= c.first /\ c.last <= a.last
    BY <1>3
  <2>2. a.last < s.first \/ s.last < a.first
    BY <1>1, <1>6, <2>1, SpansNamed
  <2>3. QED
    BY <1>2, <2>1, <2>2
<1>7. QED
  BY <1>4, <1>5, <1>6 DEF Attributed

(* For every text and every bound: no chunk is longer than the bound allows,  *)
(* every line with text is in a finished chunk, and chunks name what they     *)
(* quote.  The code: DocumentChunker.chunk (rag/chunking.py:23-154).          *)
THEOREM ChunksFaithfulCorrect == Spec => []ChunksFaithful
<1>1. IInv => ChunksFaithful
  BY CoveredAtEnd, AttributedAtEnd DEF ChunksFaithful, IInv
<1>2. QED
  BY Inductive, <1>1, PTL

-----------------------------------------------------------------------------
(***************************************************************************)
(* The safety half of ChunkingEnds: every step brings the end nearer.  The *)
(* spans that wait count for more than all lines of the one being cut,     *)
(* where a line added counts for more than a chunk closed.                 *)
(***************************************************************************)
Weight == 2 * NumLines(start) + 2

Unfilled == 2 * ((LastLine + 1) - end) + (IF end > offset THEN 1 ELSE 0)

Rank == CASE pc = "split" -> Cardinality(AllSpans) * Weight + 2
          [] pc = "span"  -> Cardinality(todo) * Weight + 1
          [] pc = "fill"  -> Cardinality(todo) * Weight + Unfilled + 1
          [] pc = "done"  -> 0

(* Only finitely many spans can wait. *)
LEMMA SpansAreFinite ==
  ASSUME Documented
  PROVE  IsFiniteSet(Spans)
<1> DEFINE n == NumLines(start)
           names == (-1)..n
           triples == ((1..n) \X (1..n)) \X names
           f == [t \in triples |-> Span(t[1][1], t[1][2], t[2])]
           images == {Span(t[1][1], t[1][2], t[2]) : t \in triples}
<1>1. n \in Nat \ {0} /\ Lines = 1..n
  BY Text DEF Documented
<1> HIDE DEF n
<1>2. IsFiniteSet(1..n) /\ IsFiniteSet(names)
  BY <1>1, FS_Interval
<1>3. IsFiniteSet((1..n) \X (1..n))
  BY <1>2, FS_Product
<1>4. IsFiniteSet(triples)
  BY <1>2, <1>3, FS_Product
<1>5. f \in Surjection(triples, images)
  BY DEF Surjection
<1>6. IsFiniteSet(images)
  BY <1>4, <1>5, FS_Surjection
<1>7. Spans \subseteq images
  <2> SUFFICES ASSUME NEW s \in Spans PROVE s \in images
    OBVIOUS
  <2>1. s.first \in 1..n /\ s.last \in 1..n /\ s.symbol \in names
    BY <1>1 DEF Spans, NoSymbol, Module
  <2>2. s = Span(s.first, s.last, s.symbol)
    BY DEF Spans, Span
  <2>3. <<<<s.first, s.last>>, s.symbol>> \in triples
    BY <2>1
  <2> QED
    BY <2>2, <2>3
<1> QED
  BY <1>6, <1>7, FS_Subset

LEMMA WaitingSpans ==
  ASSUME IInv
  PROVE  /\ IsFiniteSet(todo) /\ Cardinality(todo) \in Nat /\ Cardinality(AllSpans) \in Nat
         /\ Weight \in Nat
         /\ Cardinality(todo) * Weight \in Nat /\ Cardinality(AllSpans) * Weight \in Nat
<1>1. todo \subseteq Spans /\ AllSpans \subseteq Spans /\ IsFiniteSet(Spans)
  BY SpansAreFinite, SpansTyped DEF IInv, Typed
<1>2. IsFiniteSet(todo) /\ Cardinality(todo) \in Nat /\ Cardinality(AllSpans) \in Nat
  BY <1>1, FS_Subset, FS_CardinalityType
<1>3. Weight \in Nat
  BY Text DEF Weight, IInv, Documented
<1>4. \A a, b \in Nat : a * b \in Nat
  OBVIOUS
<1> QED
  BY <1>2, <1>3, <1>4

(* While a chunk is filled, at most two steps for each line are left. *)
LEMMA UnfilledIs ==
  ASSUME IInv, pc = "fill"
  PROVE  /\ LastLine \in Int /\ offset \in Int /\ end \in Int /\ offset <= end
         /\ LastLine <= NumLines(start) /\ end <= LastLine + 1
         /\ Unfilled \in Nat
         /\ end > offset \/ end <= LastLine
<1>1. Lines = 1..NumLines(start) /\ NumLines(start) \in Nat
  BY Text DEF IInv, Documented
<1>2. span.last \in Lines /\ offset \in Lines /\ end \in 1..(NumLines(start) + 1)
  BY DEF IInv, Typed, Spans
<1>3. LastLine \in Int /\ LastLine <= NumLines(start)
  BY <1>1, <1>2 DEF LastLine
<1>4. offset <= LastLine /\ offset <= end /\ end <= LastLine + 1
  BY DEF IInv, Filling
<1>5. offset \in Int /\ end \in Int /\ NumLines(start) \in Int
  BY <1>1, <1>2
<1>6. Unfilled \in Nat
  BY <1>3, <1>4, <1>5 DEF Unfilled
<1> QED
  BY <1>3, <1>4, <1>5, <1>6

LEMMA RankIs ==
  /\ pc = "split" => Rank = Cardinality(AllSpans) * Weight + 2
  /\ pc = "span" => Rank = Cardinality(todo) * Weight + 1
  /\ pc = "fill" => Rank = Cardinality(todo) * Weight + Unfilled + 1
  /\ pc = "done" => Rank = 0
BY DEF Rank

(* The same after a step, which leaves the document alone. *)
LEMMA RankBecomes ==
  ASSUME UNCHANGED document
  PROVE  /\ pc' = "span" => Rank' = Cardinality(todo') * Weight + 1
         /\ pc' = "fill" => Rank' = Cardinality(todo') * Weight + Unfilled' + 1
         /\ pc' = "done" => Rank' = 0
<1>1. Weight' = Weight
  BY DocumentStays DEF Weight
<1> QED
  BY <1>1 DEF Rank

LEMMA TakeSpanDescends ==
  ASSUME IInv, IInv', TakeSpan
  PROVE  Rank' < Rank
<1> DEFINE w == Weight
           c == Cardinality(todo)
<1>1. PICK s \in todo :
        /\ todo' = todo \ {s}
        /\ IF s.first..s.last \subseteq blank
           THEN UNCHANGED <<pc, span, offset, end, chars>>
           ELSE /\ span' = s
                /\ offset' = s.first /\ end' = s.first /\ chars' = 0
                /\ pc' = "fill"
  BY DEF TakeSpan
<1>2. pc = "span" /\ UNCHANGED document
  BY DEF TakeSpan
<1>3. c \in Nat /\ w \in Nat /\ Cardinality(todo') = c - 1
  BY <1>1, WaitingSpans, FS_RemoveElement
<1>4. Rank = c * w + 1
  BY <1>2, RankIs
<1> HIDE DEF c, w
<1> DEFINE all == c * w
           others == (c - 1) * w
<1>5. others = all - w /\ all \in Nat
  BY <1>3
<1>6. CASE pc' = "span"
  <2>1. Rank' = others + 1
    BY <1>2, <1>3, <1>6, RankBecomes DEF w
  <2>2. w > 0
    BY Text DEF w, Weight, IInv, Documented
  <2> QED
    BY <1>3, <1>4, <1>5, <2>1, <2>2
<1>7. CASE pc' = "fill" /\ offset' = end'
  <2>1. Rank' = others + Unfilled' + 1
    BY <1>2, <1>3, <1>7, RankBecomes DEF w
  <2>2. Unfilled' < w /\ Unfilled' \in Nat
    <3> DEFINE n == NumLines(start)
               last == IF Size(s.last) = 0 /\ s.first < s.last THEN s.last - 1 ELSE s.last
    <3>1. s.first \in 1..n /\ s.last \in 1..n /\ s.first <= s.last /\ n \in Nat
      BY Text DEF IInv, Documented, Typed, Spans, Within, Pieces
    <3>2. span' = s /\ end' = s.first /\ offset' = s.first
      BY <1>1, <1>2, <1>7
    <3>3. LastLine' = last
      BY <1>2, <3>2, DocumentStays DEF LastLine
    <3>4. Unfilled' = 2 * ((last + 1) - s.first)
      BY <3>1, <3>2, <3>3 DEF Unfilled
    <3>5. w = 2 * n + 2
      BY DEF w, Weight
    <3> HIDE DEF n
    <3>6. last \in Int /\ s.first <= last /\ last <= n
      BY <3>1
    <3> HIDE DEF last
    <3>7. 2 * ((last + 1) - s.first) \in Nat /\ 2 * ((last + 1) - s.first) < 2 * n + 2
      BY <3>1, <3>6
    <3> QED
      BY <3>4, <3>5, <3>7
  <2>3. Rank = all + 1
    BY <1>4
  <2> HIDE DEF all, others
  <2>4. \A u \in Nat : u < w => others + u + 1 < all + 1
    BY <1>3, <1>5
  <2> QED
    BY <2>1, <2>2, <2>3, <2>4
<1> QED
  BY <1>1, <1>2, <1>6, <1>7

LEMMA FillDescends ==
  ASSUME IInv, IInv', AddLine \/ CloseChunk
  PROVE  Rank' < Rank
<1> DEFINE rest == Cardinality(todo) * Weight
<1>1. pc = "fill" /\ UNCHANGED document /\ todo' = todo /\ LastLine' = LastLine
  <2>1. UNCHANGED <<document, todo, span>> /\ pc = "fill"
    BY DEF AddLine, CloseChunk
  <2> QED
    BY <2>1, DocumentStays DEF LastLine
<1>2. rest \in Nat
  BY WaitingSpans
<1>3. Rank = rest + Unfilled + 1
  BY <1>1, RankIs
<1>4. pc' = "fill" => Rank' = rest + Unfilled' + 1
  BY <1>1, RankBecomes
<1>5. pc' = "span" => Rank' = rest + 1
  BY <1>1, RankBecomes
<1> HIDE DEF rest
<1>0. \A a, b \in Int : a < b => rest + a + 1 < rest + b + 1
  BY <1>2
<1>6. /\ LastLine \in Int /\ offset \in Int /\ end \in Int /\ offset <= end
      /\ end <= LastLine + 1 /\ Unfilled \in Nat
      /\ end > offset \/ end <= LastLine
  BY <1>1, UnfilledIs
<1>7. CASE AddLine
  <2>1. pc' = "fill" /\ end' = end + 1 /\ offset' = offset
    BY <1>1, <1>7 DEF AddLine
  <2>2. Unfilled' < Unfilled /\ Unfilled' \in Int
    BY <1>1, <1>6, <2>1 DEF Unfilled
  <2> QED
    BY <1>0, <1>3, <1>4, <1>6, <2>1, <2>2
<1>8. CASE CloseChunk
  <2>1. end > offset
    <3>1. chars = IF end = offset THEN 0 ELSE Length(offset, end - 1)
      BY <1>1 DEF IInv, Filling
    <3> QED
      BY <1>6, <1>8, <3>1 DEF CloseChunk, Fits
  <2>2. CASE end > LastLine
    <3>1. pc' = "span" /\ Unfilled >= 1
      BY <1>6, <1>8, <2>1, <2>2 DEF CloseChunk, Unfilled
    <3> QED
      BY <1>2, <1>3, <1>5, <1>6, <3>1
  <2>3. CASE ~ (end > LastLine)
    <3>1. pc' = "fill" /\ end' = end /\ offset' = end
      BY <1>1, <1>8, <2>3 DEF CloseChunk
    <3>2. Unfilled' < Unfilled /\ Unfilled' \in Int
      BY <1>1, <1>6, <2>1, <3>1 DEF Unfilled
    <3> QED
      BY <1>0, <1>3, <1>4, <1>6, <3>1, <3>2
  <2> QED
    BY <2>2, <2>3
<1> QED
  BY <1>7, <1>8

LEMMA StepDescends ==
  ASSUME IInv, IInv', Step
  PROVE  Rank' < Rank
<1>1. CASE Split
  <2>1. pc = "split" /\ pc' = "span" /\ UNCHANGED document /\ todo' = AllSpans
    BY <1>1 DEF Split
  <2> QED
    BY <2>1, RankIs, RankBecomes, WaitingSpans
<1>2. CASE Done
  <2>1. pc = "span" /\ pc' = "done" /\ UNCHANGED document
    BY <1>2 DEF Done
  <2> QED
    BY <2>1, RankIs, RankBecomes, WaitingSpans
<1> QED
  BY <1>1, <1>2, TakeSpanDescends, FillDescends DEF Step

(* Every step of chunk lowers a number, for every text and every bound: no   *)
(* layout of lines, however long or empty, makes the loops of chunk or of    *)
(* _bounded_chunks run without taking a span or a line (chunking.py:23-75).  *)
THEOREM ChunkingDescends ==
  Spec => [](Rank \in Nat) /\ [][Step => Rank' < Rank]_vars
<1>1. IInv => Rank \in Nat
  <2> SUFFICES ASSUME IInv PROVE Rank \in Nat
    OBVIOUS
  <2>1. pc \in {"split", "span", "fill", "done"}
    BY DEF IInv, Typed
  <2> QED
    BY <2>1, RankIs, WaitingSpans, UnfilledIs
<1>2. IInv /\ IInv' /\ [Next]_vars => [Step => Rank' < Rank]_vars
  BY StepDescends
<1> QED
  BY <1>1, <1>2, Inductive, StepIInv, PTL DEF Spec
============================================================================
