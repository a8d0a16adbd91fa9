----------------------------- MODULE MCChunking -----------------------------
(* Instances of Chunking for TLC. *)
EXTENDS Chunking, FiniteSetsExt

CONSTANTS Sizes,     \* lengths of a line
          MaxLines   \* bound: lines of a text

(* The texts of at most MaxLines lines of such lengths. *)
SomeLayouts ==
  LET starts(size) == [i \in 1..(Cardinality(DOMAIN size) + 1) |->
                         MapThenSumSet(LAMBDA j : size[j] + 1, 1..(i - 1))]
  IN  {starts(size) : size \in UNION {[1..n -> Sizes] : n \in 1..MaxLines}}
============================================================================
