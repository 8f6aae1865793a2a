-------------------------------- MODULE Buffer --------------------------------
(***************************************************************************)
(* BufferT (src/buffer.h): a block of elements that grows and shrinks, and *)
(* that is zeroed before it is released when ZeroOnFree is set.  Two       *)
(* objects are appended, moved and swapped.  Each private method is an     *)
(* operator on the record of an object's members.                          *)
(***************************************************************************)
EXTENDS Integers, SequencesExt

CONSTANTS
  Objects,     \* the buffers
  Elements,    \* the values that are stored, all but zero
  ZeroOnFree,  \* the template parameter
  DcheckOn,    \* RTC_DCHECK_IS_ON
  MaxData,     \* bound: elements given to one call
  MaxSize      \* bound: the sizes asked for

\* What the constants have to satisfy; the instances assume it.
BufferAssumption ==
  /\ Elements \subseteq Nat \ {0}
  /\ ZeroOnFree \in BOOLEAN /\ DcheckOn \in BOOLEAN
  /\ MaxData \in Nat /\ MaxSize \in Nat

VARIABLES
  bufs,     \* the members of each object
  content,  \* history: what each object was filled with
  left      \* history: what was in the blocks that were released

vars == <<bufs, content, left>>

\* new T[n] does not initialize: a cell without a value.
Uninitialized == -1

\* The block of data_, or no elements for a null pointer.
Null == <<>>
Fresh(n) == [i \in 1..n |-> Uninitialized]
Data == UNION {[1..n -> Elements] : n \in 0..MaxData}

Larger(m, n) == IF m > n THEN m ELSE n

IsConsistent(b) ==
  (b.data_ # Null \/ b.capacity_ = 0) /\ b.capacity_ >= b.size_

Constructed(size, capacity) ==
  [size_ |-> size, capacity_ |-> Larger(size, capacity),
   data_ |-> Fresh(Larger(size, capacity))]

OnMovedFrom(b) ==
  [size_ |-> IF DcheckOn THEN 1 ELSE 0, capacity_ |-> 0, data_ |-> Null]

\* Mutant: the elements up to the size are zeroed, not the whole block.
MaybeZeroUpToSize(b) ==
  IF ZeroOnFree /\ b.capacity_ > 0
    THEN [b EXCEPT !.data_ = [i \in DOMAIN @ |->
                                IF i < b.size_ THEN 0 ELSE @[i]]]
    ELSE b

MaybeZeroCompleteBuffer(b) ==
  IF ZeroOnFree /\ b.capacity_ > 0
    THEN [b EXCEPT !.data_ = [i \in DOMAIN @ |-> 0]]
    ELSE b

ZeroTrailingData(b, count) ==
  [b EXCEPT !.data_ = [i \in DOMAIN @ |->
     IF i \in (b.size_ + 1)..(b.size_ + count) THEN 0 ELSE @[i]]]

\* What SetSize and the SetData functions do when the size shrinks.
ZeroShrunk(b, old_size) ==
  IF ZeroOnFree /\ b.size_ < old_size
    THEN ZeroTrailingData(b, old_size - b.size_)
    ELSE b

\* Mutant: the elements are not copied to the new block.
EnsureCapacityNoCopy(b, capacity, extra_headroom) ==
  IF capacity <= b.capacity_ THEN b
  ELSE Constructed(b.size_, IF extra_headroom
         THEN Larger(capacity, b.capacity_ + b.capacity_ \div 2)
         ELSE capacity)

EnsureCapacityWithHeadroom(b, capacity, extra_headroom) ==
  IF capacity <= b.capacity_ THEN b
  ELSE LET n == IF extra_headroom
                  THEN Larger(capacity, b.capacity_ + b.capacity_ \div 2)
                  ELSE capacity
       IN [b EXCEPT !.capacity_ = n,
                    !.data_ = [i \in 1..n |-> IF i <= b.size_ THEN @[i]
                                              ELSE Uninitialized]]

\* The elements that the release of b's block leaves in memory.
Released(b) == Range(MaybeZeroCompleteBuffer(b).data_)

\* A step from b to c releases the block of b if c has another one.
LeftBy(b, c) == IF c.capacity_ = b.capacity_ THEN {} ELSE Released(b)

Appended(b, data) ==
  LET new_size == b.size_ + Len(data)
      e == EnsureCapacityWithHeadroom(b, new_size, TRUE)
  IN [e EXCEPT !.size_ = new_size,
               !.data_ = [i \in DOMAIN @ |->
                  IF i \in (b.size_ + 1)..new_size THEN data[i - b.size_]
                  ELSE @[i]]]

Resized(b, size) ==
  ZeroShrunk([EnsureCapacityWithHeadroom(b, size, TRUE) EXCEPT !.size_ = size],
             b.size_)

\* AppendData with a setter, which is given a view of max elements and
\* writes the first of them.
AppendedBy(b, max, data) ==
  LET s == Resized(b, b.size_ + max)
  IN [s EXCEPT !.size_ = b.size_ + Len(data),
               !.data_ = [i \in DOMAIN @ |->
                  IF i \in (b.size_ + 1)..(b.size_ + Len(data))
                    THEN data[i - b.size_] ELSE @[i]]]

-----------------------------------------------------------------------------
(* Calls                                                                   *)

Init ==
  /\ bufs = [o \in Objects |-> Constructed(0, 0)]
  /\ content = [o \in Objects |-> <<>>]
  /\ left = {}

\* The public methods but Clear, the move and the destructor check that the
\* object is consistent.
Become(o, b, c) ==
  /\ IsConsistent(bufs[o])
  /\ b.size_ <= MaxSize
  /\ bufs' = [bufs EXCEPT ![o] = b]
  /\ content' = [content EXCEPT ![o] = c]
  /\ left' = left \cup LeftBy(bufs[o], b)

AppendData(o, data) ==
  Become(o, Appended(bufs[o], data), content[o] \o data)

\* A buffer may be appended to another one, not to itself.
AppendBuffer(o, p) ==
  /\ o # p
  /\ IsConsistent(bufs[p])
  /\ AppendData(o, SubSeq(bufs[p].data_, 1, bufs[p].size_))

AppendDataBySetter(o, max, data) ==
  /\ Len(data) <= max
  /\ Become(o, AppendedBy(bufs[o], max, data), content[o] \o data)

SetData(o, data) ==
  Become(o, ZeroShrunk(Appended([bufs[o] EXCEPT !.size_ = 0], data),
                       bufs[o].size_), data)

SetDataBySetter(o, max, data) ==
  /\ Len(data) <= max
  /\ Become(o, ZeroShrunk(AppendedBy([bufs[o] EXCEPT !.size_ = 0], max, data),
                          bufs[o].size_), data)

SetSize(o, size) ==
  Become(o, Resized(bufs[o], size),
         [i \in 1..size |-> IF i <= Len(content[o]) THEN content[o][i]
                            ELSE Uninitialized])

EnsureCapacity(o, capacity) ==
  Become(o, EnsureCapacityWithHeadroom(bufs[o], capacity, FALSE), content[o])

Clear(o) ==
  /\ bufs' = [bufs EXCEPT ![o] = [MaybeZeroCompleteBuffer(@) EXCEPT
                                    !.size_ = 0]]
  /\ content' = [content EXCEPT ![o] = <<>>]
  /\ UNCHANGED left

SwapBuffers(o, p) ==
  /\ bufs' = [bufs EXCEPT ![o] = bufs[p], ![p] = bufs[o]]
  /\ content' = [content EXCEPT ![o] = content[p], ![p] = content[o]]
  /\ UNCHANGED left

\* o = std::move(p): p ends with the block of o, which is released.
MoveAssign(o, p) ==
  /\ o # p
  /\ IsConsistent(bufs[p])
  /\ bufs' = [bufs EXCEPT ![o] = bufs[p], ![p] = OnMovedFrom(bufs[p])]
  /\ content' = [content EXCEPT ![o] = content[p], ![p] = <<>>]
  /\ left' = left \cup Released(bufs[o])

\* o is destroyed and constructed again, with a size or from another one.
Reconstruct(o, size, capacity) ==
  /\ bufs' = [bufs EXCEPT ![o] = Constructed(size, capacity)]
  /\ content' = [content EXCEPT ![o] = Fresh(size)]
  /\ left' = left \cup Released(bufs[o])

ReconstructFrom(o, data, capacity) ==
  /\ bufs' = [bufs EXCEPT ![o] = Appended(Constructed(0, Larger(Len(data),
                                                           capacity)), data)]
  /\ content' = [content EXCEPT ![o] = data]
  /\ left' = left \cup Released(bufs[o])

Next ==
  \E o \in Objects :
    \/ \E data \in Data :
         \/ AppendData(o, data)
         \/ SetData(o, data)
         \/ \E n \in 0..MaxSize : \/ AppendDataBySetter(o, n, data)
                                  \/ SetDataBySetter(o, n, data)
                                  \/ ReconstructFrom(o, data, n)
    \/ \E n \in 0..MaxSize : \/ SetSize(o, n)
                             \/ EnsureCapacity(o, n)
                             \/ Reconstruct(o, n, MaxSize)
    \/ Clear(o)
    \/ \E p \in Objects : \/ AppendBuffer(o, p)
                          \/ SwapBuffers(o, p)
                          \/ MoveAssign(o, p)

Spec == Init /\ [][Next]_vars

TypeOK ==
  /\ \A o \in Objects :
       /\ bufs[o].size_ \in Nat
       /\ Len(bufs[o].data_) = bufs[o].capacity_
       /\ Range(bufs[o].data_) \subseteq Elements \cup {0, Uninitialized}
  /\ left \subseteq Elements \cup {0, Uninitialized}

-----------------------------------------------------------------------------

\* A consistent buffer holds what it was filled with, whatever was grown,
\* shrunk, moved and swapped; the elements that SetSize added may be
\* anything (AppendData, SetData, SetSize, EnsureCapacity, swap, the moves).
\* One that is not consistent has been moved from and may only be cleared,
\* swapped, assigned or destroyed.
HoldsItsContent ==
  \A o \in Objects :
    LET b == bufs[o]
    IN IF IsConsistent(b)
         THEN /\ b.size_ = Len(content[o])
              /\ \A i \in 1..b.size_ : content[o][i] # Uninitialized =>
                                         b.data_[i] = content[o][i]
         ELSE content[o] = <<>>

\* With ZeroOnFree no element stays behind: not in the memory of a block
\* that is released, and not in the part of a block beyond the size
\* (MaybeZeroCompleteBuffer and ZeroTrailingData at every release and every
\* shrink).
NothingStaysBehind ==
  ZeroOnFree =>
    /\ left \cap Elements = {}
    /\ \A o \in Objects : \A i \in DOMAIN bufs[o].data_ :
         i > bufs[o].size_ => bufs[o].data_[i] \notin Elements

=============================================================================
