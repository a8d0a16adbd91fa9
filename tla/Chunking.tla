------------------------------ MODULE Chunking ------------------------------
(***************************************************************************)
(* DocumentChunker.chunk (rag/chunking.py): the spans of one document, by   *)
(* heading, paragraph or python symbol, each cut into chunks of bounded     *)
(* length.                                                                 *)
(*                                                                         *)
(* Of the text the model keeps where each line starts, which lines are      *)
(* blank and which are headings or belong to a symbol.  Lines are those of  *)
(* str.splitlines; ast counts newlines alone, so it does not count a line   *)
(* that a form feed or the like began.                                      *)
(***************************************************************************)
EXTENDS Integers, FiniteSets

CONSTANTS MaxChars,   \* DocumentChunker.max_chars
          Layouts     \* the texts: offsets at which their lines start, and the end

ASSUME MaxCharsAssumption == MaxChars \in Nat \ {0}

NumLines(layout) == Cardinality(DOMAIN layout) - 1

ASSUME LayoutsAssumption ==
  \A layout \in Layouts :
    /\ NumLines(layout) \in Nat \ {0}
    /\ layout \in [1..(NumLines(layout) + 1) -> Nat]
    /\ \A i, j \in DOMAIN layout : i < j => layout[i] < layout[j]

VARIABLES
  start,     \* start[i]: offset of line i; one more than the end for the line after the last
  blank,     \* lines with nothing but white space
  language,  \* "document", "python", or "unparsed" for python that ast refuses
  headings,  \* lines of a document that open a section
  symbols,   \* the python classes, functions and methods, as ranges of lines
  uncounted, \* lines of a python file that ast does not count
  pc,        \* "split", "span", "fill", "done"
  todo,      \* spans not taken yet
  span,      \* the span being cut
  offset,    \* the first line of the chunk being filled
  end,       \* the line after its last
  chars,     \* the length of its text
  chunks     \* DocumentChunks made so far, by their lines and symbol

document == <<start, blank, language, headings, symbols, uncounted>>
vars == <<document, pc, todo, span, offset, end, chars, chunks>>

Lines == 1..NumLines(start)
Size(i) == start[i + 1] - start[i] - 1
Length(first, last) == start[last + 1] - start[first] - 1

(* Symbols are named by their first line. *)
NoSymbol == 0
Module == -1
Span(first, last, symbol) == [first |-> first, last |-> last, symbol |-> symbol]
Spans == [first : Lines, last : Lines, symbol : {NoSymbol, Module} \cup Lines]

TypeOK ==
  /\ start \in Layouts
  /\ blank \subseteq Lines /\ headings \subseteq Lines /\ uncounted \subseteq Lines
  /\ language \in {"document", "python", "unparsed"}
  /\ symbols \subseteq [first : Lines, last : Lines]
  /\ pc \in {"split", "span", "fill", "done"}
  /\ todo \subseteq Spans /\ span \in Spans /\ chunks \subseteq Spans
  /\ offset \in Lines /\ end \in 1..(NumLines(start) + 1)
  /\ chars \in Nat

(* The line number ast gives to line i. *)
AstLine(i) == Cardinality(1..i \ uncounted)

EndsBefore(s, t) == AstLine(s.last) < AstLine(t.first)
Contains(s, t) == AstLine(s.first) < AstLine(t.first) /\ t.last <= s.last

(* What ast.parse can say: a symbol begins and ends with text, two symbols   *)
(* begin on different lines, and one contains the other or ends before it.   *)
WellNested ==
  /\ \A s \in symbols : s.first <= s.last /\ {s.first, s.last} \cap blank = {}
  /\ \A s, t \in symbols : \/ s = t
                           \/ EndsBefore(s, t) \/ EndsBefore(t, s)
                           \/ Contains(s, t) \/ Contains(t, s)

(* A text with at least one line (an empty one has no chunks). *)
Init ==
  /\ start \in Layouts
  /\ blank \in SUBSET Lines
  /\ \A i \in Lines : Size(i) = 0 => i \in blank
  /\ language \in {"document", "python", "unparsed"}
  /\ headings \in SUBSET (Lines \ blank)
  /\ symbols \in {{}} \cup {{s, t} : s, t \in [first : Lines, last : Lines]}
  /\ uncounted \in SUBSET (Lines \ {1})
  /\ language # "document" => headings = {}
  /\ language # "python" => symbols = {} /\ uncounted = {}
  /\ WellNested
  /\ pc = "split" /\ todo = {} /\ span = Span(1, 1, NoSymbol)
  /\ offset = 1 /\ end = 1 /\ chars = 0 /\ chunks = {}

-----------------------------------------------------------------------------
(* Mutant of Runs: a range that the end of the text closes is forgotten. *)
RunsClosed(S) ==
  {r \in [first : S, last : S] :
     /\ r.first..r.last \subseteq S /\ r.first <= r.last
     /\ r.first - 1 \notin S /\ r.last + 1 \in Lines \ S}

(* The maximal ranges of lines in S, as _paragraph_spans and the last loop of *)
(* _python_spans collect them.                                                *)
Runs(S) ==
  {r \in [first : S, last : S] :
     /\ r.first..r.last \subseteq S /\ r.first <= r.last
     /\ r.first - 1 \notin S /\ r.last + 1 \notin S}

(* _document_spans: sections, what stands before the first heading included; *)
(* paragraphs when there is no heading.                                      *)
DocumentSpans ==
  IF headings = {}
  THEN {Span(r.first, r.last, NoSymbol) : r \in Runs(Lines \ blank)}
  ELSE {s \in [first : headings \cup {1}, last : Lines, symbol : {NoSymbol}] :
          /\ s.first <= s.last
          /\ (s.first + 1)..s.last \cap headings = {}
          /\ s.last = NumLines(start) \/ s.last + 1 \in headings}

(* _python_spans: every symbol, methods inside their class as well, in the   *)
(* numbering of ast, and the ranges of text outside all of them.             *)
PythonSpans ==
  LET named == {Span(AstLine(s.first), AstLine(s.last), s.first) : s \in symbols}
      inside == {i \in Lines : \E s \in named : s.first <= i /\ i <= s.last}
  IN  named \cup {Span(r.first, r.last, Module) : r \in Runs(Lines \ (blank \cup inside))}

AllSpans == CASE language = "document" -> DocumentSpans
              [] language = "python"   -> PythonSpans
              [] language = "unparsed" -> {Span(1, NumLines(start), NoSymbol)}

Split ==
  /\ pc = "split"
  /\ todo' = AllSpans
  /\ pc' = "span"
  /\ UNCHANGED <<document, span, offset, end, chars, chunks>>

Precedes(s, t) == s.first < t.first \/ (s.first = t.first /\ s.last <= t.last)

(* chunk: the next span in order; one without text is passed over. *)
TakeSpan ==
  /\ pc = "span"
  /\ \E s \in todo :
       /\ \A t \in todo : Precedes(s, t)
       /\ todo' = todo \ {s}
       /\ IF s.first..s.last \subseteq blank
          THEN UNCHANGED <<pc, span, offset, end, chars>>
          ELSE /\ span' = s
               /\ offset' = s.first /\ end' = s.first /\ chars' = 0
               /\ pc' = "fill"
  /\ UNCHANGED <<document, chunks>>

Done ==
  /\ pc = "span" /\ todo = {}
  /\ pc' = "done"
  /\ UNCHANGED <<document, todo, span, offset, end, chars, chunks>>

-----------------------------------------------------------------------------
(* _bounded_chunks *)

(* The last line of text.splitlines: an empty line at the end is not one. *)
LastLine ==
  IF Size(span.last) = 0 /\ span.first < span.last THEN span.last - 1 ELSE span.last

Added == Size(end) + (IF end > offset THEN 1 ELSE 0)

(* A chunk that has no text yet takes any line. *)
Fits ==
  /\ end <= LastLine
  /\ chars = 0 \/ (chars < MaxChars /\ chars + Added <= MaxChars)

AddLine ==
  /\ pc = "fill"
  /\ Fits
  /\ chars' = chars + Added
  /\ end' = end + 1
  /\ UNCHANGED <<document, pc, todo, span, offset, chunks>>

(* Mutant of CloseChunk: the next chunk repeats the last line of this one. *)
CloseOverlapping ==
  /\ pc = "fill"
  /\ ~ Fits
  /\ chunks' = chunks \cup {Span(offset, end - 1, span.symbol)}
  /\ IF end > LastLine
     THEN pc' = "span" /\ UNCHANGED offset
     ELSE offset' = end - 1 /\ UNCHANGED pc
  /\ end' = offset' /\ chars' = 0
  /\ UNCHANGED <<document, todo, span>>

CloseChunk ==
  /\ pc = "fill"
  /\ ~ Fits
  /\ chunks' = chunks \cup {Span(offset, end - 1, span.symbol)}
  /\ IF end > LastLine
     THEN pc' = "span" /\ UNCHANGED offset
     ELSE offset' = end /\ UNCHANGED pc
  /\ end' = offset' /\ chars' = 0
  /\ UNCHANGED <<document, todo, span>>

Step == Split \/ TakeSpan \/ Done \/ AddLine \/ CloseChunk

(* The chunks are only read. *)
Read == pc = "done" /\ UNCHANGED vars

Next == Step \/ Read

Spec == Init /\ [][Next]_vars

(* A call that runs to its end. *)
FairSpec == Spec /\ WF_vars(Step)

-----------------------------------------------------------------------------
(* Properties *)

Holds(chunk, i) == chunk.first <= i /\ i <= chunk.last

(* No chunk is longer than max_chars, unless it is one line that is longer by *)
(* itself, or as long as the bound after an empty line (chunking.py:56-62).   *)
Bounded ==
  \A c \in chunks :
    \/ Length(c.first, c.last) <= MaxChars
    \/ c.first = c.last
    \/ c.first + 1 = c.last /\ Size(c.first) = 0 /\ Size(c.last) >= MaxChars

(* Nothing is lost: every line with text is in a chunk, and in one chunk     *)
(* only where spans do not nest.                                             *)
Covered ==
  /\ \A i \in Lines \ blank : \E c \in chunks : Holds(c, i)
  /\ language # "python" =>
       \A i \in Lines : \A c, d \in chunks : Holds(c, i) /\ Holds(d, i) => c = d

(* A chunk that carries a symbol's name quotes that symbol and all of it is  *)
(* quoted under that name; what is called module is outside all symbols.     *)
Attributed ==
  /\ \A c \in chunks : c.symbol \in Lines =>
       \E s \in symbols : s.first = c.symbol /\ s.first <= c.first /\ c.last <= s.last
  /\ \A s \in symbols : \A i \in (s.first..s.last) \ blank :
       \E c \in chunks : c.symbol = s.first /\ Holds(c, i)
  /\ \A c \in chunks : c.symbol = Module =>
       \A s \in symbols : c.last < s.first \/ s.last < c.first

(* What a citation by path, lines and symbol rests on (ARCHITECTURE section   *)
(* 8): finished chunks cover the text within the bound and name what they     *)
(* quote; the names only where ast and splitlines number lines alike.         *)
ChunksFaithful ==
  /\ Bounded
  /\ pc = "done" => Covered
  /\ pc = "done" /\ uncounted = {} => Attributed

(* Chunking ends whatever the text: a line that does not fit is taken by the  *)
(* next chunk all the same (chunking.py:57, :63-64).                          *)
ChunkingEnds == <>(pc = "done")
============================================================================
