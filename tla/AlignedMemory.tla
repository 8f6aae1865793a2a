---------------------------- MODULE AlignedMemory ----------------------------
(***************************************************************************)
(* Aligned blocks over malloc: aligned_alloc and aligned_free of           *)
(* features/align_c_inl.h (the POSIX branch), which memory/aligned_malloc  *)
(* wraps.  A block starts at the first aligned address that leaves room    *)
(* for a header below it; the header holds the address malloc returned.    *)
(*                                                                         *)
(* Memory is a function from addresses to words; HeaderSize addresses make *)
(* up a header, and its first one holds the value of all of them.          *)
(***************************************************************************)
EXTENDS Integers, FiniteSets

CONSTANTS
  LastAddress, \* addresses are 1 .. LastAddress
  HeaderSize,  \* sizeof(uintptr_t)
  Alignments,  \* the alignments asked for
  MaxBytes,    \* bound: the largest block asked for
  MaxBlocks    \* bound: blocks in use at once

\* What the constants have to satisfy; the instances assume it.
AlignedAssumption ==
  /\ LastAddress \in Nat
  /\ HeaderSize \in Nat \ {0}
  /\ Alignments \subseteq Nat
  /\ MaxBytes \in Nat /\ MaxBlocks \in Nat

VARIABLES
  heap,    \* the blocks malloc has given: start and length
  memory,  \* what the addresses hold
  blocks   \* the pointers the callers hold, with what they asked for

vars == <<heap, memory, blocks>>

Address == 1 .. LastAddress
NULL == 0
Data == -1     \* what a caller writes

\* The addresses of len bytes from start.
Span(start, len) == start .. start + len - 1

(***************************************************************************)
(* align_c.h                                                               *)
(***************************************************************************)
PowersOfTwo == {2 ^ i : i \in 0 .. 30}

\* a # 0 && (a & (a - 1)) = 0
ALIGN_VALID(a) == a # 0 /\ a \in PowersOfTwo

\* (x + a - 1) & ~(a - 1), for a power of two
ALIGN_UP(x, a) == x + a - 1 - ((x + a - 1) % a)

\* GetRightAlign
GetRightAlign(pointer, alignment) ==
  IF pointer = NULL \/ ~ALIGN_VALID(alignment) THEN NULL
  ELSE ALIGN_UP(pointer, alignment)

(***************************************************************************)
(* malloc and free                                                         *)
(***************************************************************************)
Taken == UNION {Span(b.start, b.length) : b \in heap}

\* The blocks malloc may give for a length: any free stretch.
Mallocs(len) == {b \in [start : Address, length : {len}] :
                   /\ Span(b.start, len) \subseteq Address
                   /\ Span(b.start, len) \cap Taken = {}}

(***************************************************************************)
(* aligned_alloc and aligned_free                                          *)
(***************************************************************************)
\* Mutant: no room for the addresses the alignment skips.
MallocLengthTight(size, alignment) == size + HeaderSize

\* What malloc is asked for.
MallocLength(size, alignment) == size + HeaderSize + alignment - 1

Pointer(start, alignment) == ALIGN_UP(start + HeaderSize, alignment)

\* A size of zero, a bad alignment and an empty heap give NULL.
AllocFails(size, alignment) ==
  /\ size = 0 \/ ~ALIGN_VALID(alignment)
       \/ Mallocs(MallocLength(size, alignment)) = {}
  /\ UNCHANGED vars

Alloc(size, alignment) ==
  /\ size # 0
  /\ ALIGN_VALID(alignment)
  /\ \E b \in Mallocs(MallocLength(size, alignment)) :
       LET pointer == Pointer(b.start, alignment) IN
       /\ heap' = heap \cup {b}
       /\ memory' = [memory EXCEPT ![pointer - HeaderSize] = b.start]
       /\ blocks' = blocks \cup {[pointer |-> pointer, size |-> size,
                                  alignment |-> alignment]}

\* free of the address the header holds, after which the allocator has the
\* bytes; NULL frees nothing.
Free(block) ==
  LET freed == {b \in heap : b.start = memory[block.pointer - HeaderSize]} IN
  /\ heap' = heap \ freed
  /\ blocks' = blocks \ {block}
  /\ memory' = [a \in Address |->
                  IF \E b \in freed : a \in Span(b.start, b.length) THEN Data
                  ELSE memory[a]]

\* A caller fills its block.
Fill(block) ==
  /\ memory' = [a \in Address |->
                  IF a \in Span(block.pointer, block.size) THEN Data
                  ELSE memory[a]]
  /\ UNCHANGED <<heap, blocks>>

-----------------------------------------------------------------------------
Init ==
  /\ heap = {}
  /\ memory = [a \in Address |-> Data]
  /\ blocks = {}

Next ==
  \/ \E size \in 0 .. MaxBytes, alignment \in Alignments :
       \/ AllocFails(size, alignment)
       \/ Cardinality(blocks) < MaxBlocks /\ Alloc(size, alignment)
  \/ \E block \in blocks : Free(block) \/ Fill(block)

Spec == Init /\ [][Next]_vars

-----------------------------------------------------------------------------
(***************************************************************************)
(* Property                                                                *)
(***************************************************************************)
\* Every pointer handed out is aligned as asked, equals what GetRightAlign
\* makes of it, and has its bytes in the stretch of memory its header names,
\* apart from the bytes and the headers of all other pointers; and malloc's
\* blocks are those of the pointers held, so that a free returned the right
\* one, whatever the callers wrote in between (align_c_inl.h:58-116).
BlocksAreSound ==
  /\ Cardinality(heap) = Cardinality(blocks)
  /\ \A p \in blocks :
       /\ p.pointer % p.alignment = 0
       /\ GetRightAlign(p.pointer, p.alignment) = p.pointer
       /\ \E b \in heap :
            /\ b.start = memory[p.pointer - HeaderSize]
            /\ Span(p.pointer - HeaderSize, HeaderSize + p.size)
                 \subseteq Span(b.start, b.length)
=============================================================================
