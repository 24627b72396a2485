------------------------------- MODULE Chunking -------------------------------
(* How the body of a document is cut into windows that overlap.             *)
EXTENDS Integers, FiniteSets

CONSTANT MaxChunks     (* MAX_CHUNKS_PER_DOCUMENT                           *)

ASSUME ChunkingAssumption == MaxChunks \in Nat

Lesser(m, n) == IF m < n THEN m ELSE n

(* Faulty: each window starts where the last one ends, and then some.       *)
WideStep(size, overlap) == size + overlap

Step(size, overlap) == size - overlap

(* _fixed_size: a window [start, stop) at every step before the end.        *)
Windows(length, size, overlap) ==
  {<<start, Lesser(start + size, length)>> :
     start \in {k \in 0 .. length - 1 : k % Step(size, overlap) = 0}}

(* chunk_text.  A step of zero or less leads nowhere: the loop never ends.  *)
Cut(length, params) ==
  IF params.strategy # "fixed_size" THEN [outcome |-> "error", windows |-> {}]
  ELSE IF length > 0 /\ Step(params.size, params.overlap) <= 0 THEN [outcome |-> "endless", windows |-> {}]
  ELSE IF length > 0 /\ Cardinality(Windows(length, params.size, params.overlap)) > MaxChunks
  THEN [outcome |-> "error", windows |-> {}]
  ELSE [outcome |-> "chunks",
        windows |-> IF length = 0 THEN {} ELSE Windows(length, params.size, params.overlap)]
===============================================================================
