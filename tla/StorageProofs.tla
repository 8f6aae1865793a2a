----------------------------- MODULE StorageProofs -----------------------------
(***************************************************************************)
(* The components of Storage are correct for any objects, values, files    *)
(* and addresses: each one is proved from its own specification, which     *)
(* every behaviour of Storage meets.                                       *)
(***************************************************************************)
EXTENDS Storage, FiniteSetTheorems, SequenceTheorems, TLAPS

\* A behaviour of Storage is one of each component.
LEMMA ComponentsRun ==
  StorageSpec =>
    /\ Buffers!Spec /\ Optionals!Spec
    /\ Wrappers!Spec /\ Aligned!Spec
    /\ [][UNCHANGED subject]_subject
<1>1. StorageInit =>
        Buffers!Init /\ Optionals!Init /\ Wrappers!Init /\ Aligned!Init
  BY DEF StorageInit
<1> USE DEF StorageNext, storage_vars
<1>2. [StorageNext]_storage_vars => [Buffers!Next]_(Buffers!vars)
  BY DEF buffers_vars, Buffers!vars
<1>3. [StorageNext]_storage_vars => [Optionals!Next]_(Optionals!vars)
  BY DEF optionals_vars, Optionals!vars
<1>4. [StorageNext]_storage_vars => [Wrappers!Next]_(Wrappers!vars)
  BY DEF files_vars, Wrappers!vars
<1>5. [StorageNext]_storage_vars => [Aligned!Next]_(Aligned!vars)
  BY DEF memory_vars, Aligned!vars
<1>6. [StorageNext]_storage_vars => [UNCHANGED subject]_subject
  OBVIOUS
<1> QED
  BY <1>1, <1>2, <1>3, <1>4, <1>5, <1>6, PTL
  DEF StorageSpec, Buffers!Spec, Optionals!Spec, Wrappers!Spec, Aligned!Spec

-----------------------------------------------------------------------------
(* FileWrapper: an open file has one owner.                                *)

\* No two wrappers own the same file, and none owns a file of a caller.
OwnersDiffer ==
  /\ \A w, v \in FileObjects :
       file_[w] \in Files /\ file_[w] = file_[v] => w = v
  /\ \A w \in FileObjects : file_[w] \notin callers

\* What is owned is open, and what is open is owned.
OwnedIsOpen ==
  /\ \A w \in FileObjects : file_[w] \in opened \cup {nullptr, Destroyed}
  /\ \A f \in opened \ callers : \E w \in FileObjects : file_[w] = f

FilesInv == Wrappers!TypeOK /\ ~bad_close /\ OwnersDiffer /\ OwnedIsOpen

\* The invariant holds at first and every step keeps it.
LEMMA FilesInvInductive == Wrappers!Spec => []FilesInv
<1> USE StorageAssumption
    DEF FilesInv, Wrappers!TypeOK, OwnersDiffer, OwnedIsOpen,
        Wrappers!FileAssumption
<1>1. Wrappers!Init => FilesInv
  BY DEF Wrappers!Init
<1>2. FilesInv /\ [Wrappers!Next]_(Wrappers!vars) => FilesInv'
  <2> SUFFICES ASSUME FilesInv, [Wrappers!Next]_(Wrappers!vars)
               PROVE  FilesInv'
    OBVIOUS
  <2> USE DEF Wrappers!Alive, Wrappers!fclose
  <2>1. CASE UNCHANGED Wrappers!vars
    BY <2>1 DEF Wrappers!vars
  <2>2. ASSUME NEW w \in FileObjects, Wrappers!Open(w) PROVE FilesInv'
    BY <2>2 DEF Wrappers!Open
  <2>3. ASSUME NEW w \in FileObjects, Wrappers!TakeOver(w) PROVE FilesInv'
    BY <2>3 DEF Wrappers!TakeOver
  <2>4. ASSUME NEW w \in FileObjects, Wrappers!Close(w) PROVE FilesInv'
    BY <2>4 DEF Wrappers!Close
  <2>5. ASSUME NEW w \in FileObjects, Wrappers!Destroy(w) PROVE FilesInv'
    BY <2>5 DEF Wrappers!Destroy
  <2>6. ASSUME NEW w \in FileObjects, Wrappers!Release(w) PROVE FilesInv'
    BY <2>6 DEF Wrappers!Release
  <2>7. ASSUME NEW w \in FileObjects, NEW other \in FileObjects,
               Wrappers!MoveConstruct(w, other)
        PROVE  FilesInv'
    BY <2>7 DEF Wrappers!MoveConstruct
  <2>8. ASSUME NEW w \in FileObjects, NEW other \in FileObjects,
               Wrappers!MoveAssign(w, other)
        PROVE  FilesInv'
    BY <2>8 DEF Wrappers!MoveAssign
  <2> QED
    BY <2>1, <2>2, <2>3, <2>4, <2>5, <2>6, <2>7, <2>8 DEF Wrappers!Next
<1> QED
  BY <1>1, <1>2, PTL DEF Wrappers!Spec

\* Every open file has one owner, and is closed once.
LEMMA FilesOwned == FilesInv => Wrappers!FilesHaveOneOwner
<1> SUFFICES ASSUME FilesInv PROVE Wrappers!FilesHaveOneOwner
  OBVIOUS
<1> USE StorageAssumption
    DEF FilesInv, Wrappers!TypeOK, OwnersDiffer, OwnedIsOpen,
        Wrappers!FileAssumption
<1>1. ASSUME NEW f \in opened
      PROVE  Wrappers!Cardinality({w \in FileObjects : file_[w] = f}) =
               (IF f \in callers THEN 0 ELSE 1)
  <2> DEFINE Owners == {w \in FileObjects : file_[w] = f}
  <2>0. Wrappers!Cardinality(Owners) = Cardinality(Owners)
    BY DEF Wrappers!Cardinality, Cardinality
  <2>1. f \in callers => Cardinality(Owners) = 0
    <3>0. SUFFICES ASSUME f \in callers PROVE Cardinality(Owners) = 0
      OBVIOUS
    <3>1. Owners = {}
      BY <3>0
    <3> QED
      BY <3>1, FS_EmptySet, Zenon
  <2>2. f \notin callers => Cardinality(Owners) = 1
    <3>0. SUFFICES ASSUME f \notin callers PROVE Cardinality(Owners) = 1
      OBVIOUS
    <3>1. PICK w \in FileObjects : file_[w] = f
      BY <1>1, <3>0
    <3>2. Owners = {w}
      BY <1>1, <3>1
    <3> QED
      BY <3>2, FS_Singleton, Zenon
  <2> HIDE DEF Owners
  <2>3. Cardinality(Owners) = (IF f \in callers THEN 0 ELSE 1)
    BY <2>1, <2>2
  <2> USE DEF Owners
  <2> QED
    BY <2>0, <2>3
<1>2. ~bad_close
  OBVIOUS
<1>3. \A w \in FileObjects : file_[w] \in opened \cup {nullptr, Destroyed}
  OBVIOUS
<1> HIDE DEF FilesInv
<1> QED
  BY <1>1, <1>2, <1>3, Zenon DEF Wrappers!FilesHaveOneOwner

-----------------------------------------------------------------------------
(* OptionalValue: a value is constructed and destroyed once.               *)

Storages == [has_value_ : BOOLEAN,
             value_ : OptionalValues \cup {Optionals!Raw, Optionals!Moved},
             poisoned : BOOLEAN, fault : BOOLEAN]
Given == OptionalValues \cup {Optionals!None, Optionals!Moved}

\* Storage m is as it has to be when the object was given h last.
Sound(m, h) ==
  /\ m \in Storages /\ h \in Given
  /\ ~m.fault
  /\ m.has_value_ <=> m.value_ # Optionals!Raw
  /\ m.has_value_ <=> ~m.poisoned
  /\ m.value_ = h

OptionalsInv ==
  /\ opts \in [OptionalObjects -> Storages]
  /\ holds \in [OptionalObjects -> Given]
  /\ \A o \in OptionalObjects : Sound(opts[o], holds[o])

\* A new object is sound, with a value or without.
LEMMA NewIsSound ==
  /\ Sound(Optionals!Empty, Optionals!None)
  /\ \A v \in Given \ {Optionals!None} : Sound(Optionals!WithValue(v), v)
  BY StorageAssumption
  DEF Sound, Storages, Given, Optionals!OptionalAssumption,
      Optionals!Raw, Optionals!Moved, Optionals!None,
      Optionals!NewStorage, Optionals!PoisonValue, Optionals!Construct,
      Optionals!SetHas, Optionals!Empty, Optionals!WithValue

\* An object that is given a value has that value.
LEMMA GivenIsSound ==
  ASSUME NEW m, NEW h, Sound(m, h), NEW v \in OptionalValues
  PROVE  /\ Sound(Optionals!Emplaced(m, v), v)
         /\ m.has_value_ => Sound(Optionals!AssignT(m, v), v)
<1> USE StorageAssumption
    DEF Sound, Storages, Given, Optionals!OptionalAssumption,
        Optionals!Raw, Optionals!Moved, Optionals!None,
        Optionals!NewStorage, Optionals!PoisonValue,
        Optionals!UnpoisonValue, Optionals!Construct, Optionals!DestroyT,
        Optionals!AssignT, Optionals!SetHas
<1>1. Sound(Optionals!Emplaced(m, v), v)
  BY DEF Optionals!Emplaced
<1>2. m.has_value_ => Sound(Optionals!AssignT(m, v), v)
  OBVIOUS
<1> QED
  BY ONLY <1>1, <1>2

\* What the methods make of sound storage: the value given, or none.
LEMMA MethodsAreSound ==
  ASSUME NEW m, NEW h, Sound(m, h), NEW m2, NEW h2, Sound(m2, h2)
  PROVE  /\ Sound(Optionals!CopyOf(m), h)
         /\ ~Optionals!Destructor(m).fault
         /\ Sound(Optionals!Reset(m), Optionals!None)
         /\ Sound(Optionals!Assigned(m, m2), h2)
         /\ Sound(Optionals!Swapped(m, m2), h2)
         /\ Sound(Optionals!MovedFrom(m),
                  IF h = Optionals!None THEN Optionals!None
                  ELSE Optionals!Moved)
<1> USE StorageAssumption
    DEF Sound, Storages, Given, Optionals!OptionalAssumption,
        Optionals!Raw, Optionals!Moved, Optionals!None,
        Optionals!NewStorage, Optionals!PoisonValue,
        Optionals!UnpoisonValue, Optionals!Construct, Optionals!DestroyT,
        Optionals!AssignT, Optionals!SetHas
<1>0. ASSUME m.has_value_
      PROVE  /\ Sound(Optionals!AssignT(m, Optionals!Moved), Optionals!Moved)
             /\ Optionals!AssignT(m, Optionals!Moved).has_value_
  <2> DEFINE x == Optionals!AssignT(m, Optionals!Moved)
  <2>1. x \in Storages
    OBVIOUS
  <2>2. /\ ~x.fault /\ x.has_value_ = m.has_value_
        /\ x.poisoned = m.poisoned /\ x.value_ = Optionals!Moved
    BY <1>0
  <2> QED
    BY <1>0, <2>1, <2>2
<1>1. Sound(Optionals!CopyOf(m), h)
  BY NewIsSound DEF Optionals!CopyOf
<1>2. ~Optionals!Destructor(m).fault
  BY DEF Optionals!Destructor
<1>3. Sound(Optionals!Reset(m), Optionals!None)
  BY DEF Optionals!Reset
<1>4. Sound(Optionals!Assigned(m, m2), h2)
  BY DEF Optionals!Assigned, Optionals!Reset
<1>5. Sound(Optionals!Swapped(m, m2), h2)
  <2> USE DEF Optionals!Swapped
  <2>1. CASE m.has_value_ /\ m2.has_value_
    <3>1. Optionals!Swapped(m, m2) = Optionals!AssignT(m, m2.value_)
      BY <2>1
    <3> QED
      BY ONLY <2>1, <3>1, Sound(m, h), Sound(m2, h2)
  <2>2. CASE m.has_value_ /\ ~m2.has_value_
    <3> DEFINE moved == Optionals!AssignT(m, Optionals!Moved)
    <3>1. Optionals!Swapped(m, m2) =
            Optionals!PoisonValue(
              Optionals!SetHas(Optionals!DestroyT(moved), FALSE))
      BY <2>2
    <3>2. Sound(moved, Optionals!Moved) /\ moved.has_value_
      BY <1>0, <2>2
    <3>3. h2 = Optionals!None
      BY <2>2
    <3> HIDE DEF moved
    <3> QED
      BY ONLY <3>1, <3>2, <3>3
  <2>3. CASE ~m.has_value_ /\ m2.has_value_
    <3>1. Optionals!Swapped(m, m2) =
            Optionals!SetHas(Optionals!Construct(
              Optionals!UnpoisonValue(m), m2.value_), TRUE)
      BY <2>3
    <3> QED
      BY ONLY <2>3, <3>1, Sound(m, h), Sound(m2, h2)
  <2>4. CASE ~m.has_value_ /\ ~m2.has_value_
    <3>1. Optionals!Swapped(m, m2) = m
      BY <2>4
    <3> QED
      BY ONLY <2>4, <3>1, Sound(m, h), Sound(m2, h2)
  <2> QED
    BY ONLY <2>1, <2>2, <2>3, <2>4, Sound(m, h), Sound(m2, h2)
<1>6. Sound(Optionals!MovedFrom(m),
            IF h = Optionals!None THEN Optionals!None ELSE Optionals!Moved)
  <2>1. CASE m.has_value_
    <3>1. Optionals!MovedFrom(m) = Optionals!AssignT(m, Optionals!Moved)
      BY <2>1 DEF Optionals!MovedFrom
    <3>2. h # Optionals!None
      BY <2>1
    <3> QED
      BY <1>0, <2>1, <3>1, <3>2
  <2>2. CASE ~m.has_value_
    BY <2>2 DEF Optionals!MovedFrom
  <2> QED
    BY <2>1, <2>2, Zenon
<1> QED
  BY ONLY <1>1, <1>2, <1>3, <1>4, <1>5, <1>6

\* The invariant holds at first and every step keeps it.
LEMMA OptionalsInvInductive == Optionals!Spec => []OptionalsInv
<1>1. Optionals!Init => OptionalsInv
  <2>1. Optionals!Empty \in Storages /\ Optionals!None \in Given
    BY NewIsSound DEF Sound
  <2> QED
    BY <2>1, NewIsSound DEF Optionals!Init, OptionalsInv
<1>2. OptionalsInv /\ [Optionals!Next]_(Optionals!vars) => OptionalsInv'
  <2> SUFFICES ASSUME OptionalsInv, [Optionals!Next]_(Optionals!vars)
               PROVE  OptionalsInv'
    OBVIOUS
  <2>0. /\ \A o \in OptionalObjects : Sound(opts[o], holds[o])
        /\ opts \in [OptionalObjects -> Storages]
        /\ holds \in [OptionalObjects -> Given]
    BY DEF OptionalsInv
  \* A step on one object.
  <2>1. ASSUME NEW o \in OptionalObjects, NEW m, NEW h, Sound(m, h),
               Optionals!Become(o, m, h)
        PROVE  OptionalsInv'
    <3>1. m \in Storages /\ h \in Given
      BY <2>1 DEF Sound
    <3> QED
      BY <2>0, <2>1, <3>1 DEF Optionals!Become, OptionalsInv
  \* A step on one object that takes the value out of another.
  <2>2. ASSUME NEW o \in OptionalObjects, NEW p \in OptionalObjects, NEW m,
               Sound(m, holds[p]), Optionals!TakeFrom(o, p, m)
        PROVE  OptionalsInv'
    <3> DEFINE n == Optionals!MovedFrom(IF o = p THEN m ELSE opts[p])
               g == IF holds[p] = Optionals!None THEN Optionals!None
                    ELSE Optionals!Moved
    <3>1. Sound(n, g)
      <4>1. CASE o = p
        BY <2>2, <4>1, MethodsAreSound
      <4>2. CASE o # p
        BY <2>0, <4>2, MethodsAreSound
      <4> QED
        BY <4>1, <4>2
    <3>2. /\ opts' = [[opts EXCEPT ![o] = m] EXCEPT ![p] = n]
          /\ holds' = [[holds EXCEPT ![o] = holds[p]] EXCEPT ![p] = g]
      BY <2>0, <2>2 DEF Optionals!TakeFrom
    <3>3. m \in Storages /\ n \in Storages /\ g \in Given
      BY <2>2, <3>1 DEF Sound
    <3> HIDE DEF n, g
    <3> QED
      BY <2>0, <2>2, <3>1, <3>2, <3>3 DEF OptionalsInv
  \* The destructor that runs before a constructor has no fault to add.
  <2>3. ASSUME NEW o \in OptionalObjects, NEW m, NEW h, Sound(m, h)
        PROVE  Sound(Optionals!Again(o, m), h)
    <3>1. ~Optionals!Destructor(opts[o]).fault
      BY <2>0, MethodsAreSound
    <3> QED
      BY <2>3, <3>1 DEF Optionals!Again, Sound, Storages
  <2>4. CASE UNCHANGED Optionals!vars
    BY <2>4 DEF OptionalsInv, Optionals!vars
  <2>5. ASSUME NEW o \in OptionalObjects,
               \/ Optionals!ConstructEmpty(o) \/ Optionals!AssignNullopt(o)
               \/ Optionals!MoveValue(o)
        PROVE  OptionalsInv'
    <3>1. Sound(opts[o], holds[o])
      BY <2>0
    <3>2. CASE Optionals!ConstructEmpty(o)
      <4>1. Sound(Optionals!Again(o, Optionals!Empty), Optionals!None)
        BY <2>3, NewIsSound
      <4> QED
        BY <2>1, <3>2, <4>1 DEF Optionals!ConstructEmpty
    <3>3. CASE Optionals!AssignNullopt(o)
      BY <2>1, <3>1, <3>3, MethodsAreSound DEF Optionals!AssignNullopt
    <3>4. CASE Optionals!MoveValue(o)
      <4>1. holds[o] # Optionals!None
        BY <3>1, <3>4 DEF Optionals!MoveValue, Sound, Optionals!Raw,
                          Optionals!None
      <4>2. Sound(Optionals!MovedFrom(opts[o]), Optionals!Moved)
        BY <3>1, <4>1, MethodsAreSound
      <4> QED
        BY <2>1, <3>4, <4>2 DEF Optionals!MoveValue
    <3> QED
      BY <2>5, <3>2, <3>3, <3>4
  <2>6. ASSUME NEW o \in OptionalObjects, NEW v \in OptionalValues,
               \/ Optionals!ConstructFrom(o, v) \/ Optionals!Emplace(o, v)
               \/ Optionals!AssignThrough(o, v)
        PROVE  OptionalsInv'
    <3>1. Sound(opts[o], holds[o])
      BY <2>0
    <3>2. CASE Optionals!ConstructFrom(o, v)
      <4>0. v \in Given \ {Optionals!None}
        BY StorageAssumption
        DEF Given, Optionals!OptionalAssumption, Optionals!None
      <4>1. Sound(Optionals!Again(o, Optionals!WithValue(v)), v)
        BY <2>3, <4>0, NewIsSound
      <4> QED
        BY <2>1, <3>2, <4>1 DEF Optionals!ConstructFrom
    <3>3. CASE Optionals!Emplace(o, v)
      BY <2>1, <3>1, <3>3, GivenIsSound DEF Optionals!Emplace
    <3>4. CASE Optionals!AssignThrough(o, v)
      BY <2>1, <3>1, <3>4, GivenIsSound DEF Optionals!AssignThrough
    <3> QED
      BY <2>6, <3>2, <3>3, <3>4
  <2>7. ASSUME NEW o \in OptionalObjects, NEW p \in OptionalObjects,
               \/ Optionals!CopyConstruct(o, p)
               \/ Optionals!MoveConstruct(o, p)
               \/ Optionals!CopyAssign(o, p) \/ Optionals!MoveAssign(o, p)
               \/ Optionals!SwapOptionals(o, p)
        PROVE  OptionalsInv'
    <3>1. Sound(opts[o], holds[o]) /\ Sound(opts[p], holds[p])
      BY <2>0
    <3>2. Sound(Optionals!Again(o, Optionals!CopyOf(opts[p])), holds[p])
      BY <2>3, <3>1, MethodsAreSound
    <3>3. Sound(Optionals!Assigned(opts[o], opts[p]), holds[p])
      BY <3>1, MethodsAreSound
    <3>4. CASE Optionals!CopyConstruct(o, p)
      BY <2>1, <3>2, <3>4 DEF Optionals!CopyConstruct
    <3>5. CASE Optionals!MoveConstruct(o, p)
      BY <2>2, <3>2, <3>5 DEF Optionals!MoveConstruct
    <3>6. CASE Optionals!CopyAssign(o, p)
      BY <2>1, <3>3, <3>6 DEF Optionals!CopyAssign
    <3>7. CASE Optionals!MoveAssign(o, p)
      BY <2>2, <3>3, <3>7 DEF Optionals!MoveAssign
    <3>8. CASE Optionals!SwapOptionals(o, p)
      <4> DEFINE m == Optionals!Swapped(opts[o], opts[p])
                 n == Optionals!Swapped(opts[p], opts[o])
      <4>1. Sound(m, holds[p]) /\ Sound(n, holds[o])
        BY <3>1, MethodsAreSound
      <4>2. /\ opts' = [[opts EXCEPT ![o] = m] EXCEPT ![p] = n]
            /\ holds' = [[holds EXCEPT ![o] = holds[p]] EXCEPT
                           ![p] = holds[o]]
        BY <3>8 DEF Optionals!SwapOptionals
      <4>3. m \in Storages /\ n \in Storages
        BY <4>1 DEF Sound
      <4> HIDE DEF m, n
      <4> QED
        BY <2>0, <4>1, <4>2, <4>3 DEF OptionalsInv
    <3> QED
      BY <2>7, <3>4, <3>5, <3>6, <3>7, <3>8
  <2> QED
    BY <2>4, <2>5, <2>6, <2>7 DEF Optionals!Next
<1> QED
  BY <1>1, <1>2, PTL DEF Optionals!Spec

\* Sound storage is what LivesOnce asks for.
LEMMA OptionalsLive ==
  OptionalsInv => Optionals!TypeOK /\ Optionals!LivesOnce
<1> SUFFICES ASSUME OptionalsInv
             PROVE  Optionals!TypeOK /\ Optionals!LivesOnce
  OBVIOUS
<1>1. Optionals!TypeOK
  BY DEF OptionalsInv, Optionals!TypeOK, Storages, Given
<1>2. \A o \in OptionalObjects : Sound(opts[o], holds[o])
  BY DEF OptionalsInv
<1>3. ASSUME NEW o \in OptionalObjects
      PROVE  /\ ~opts[o].fault
             /\ opts[o].has_value_ <=> opts[o].value_ # Optionals!Raw
             /\ opts[o].has_value_ <=> ~opts[o].poisoned
             /\ opts[o].value_ = holds[o]
             /\ Optionals!ValueOr(opts[o], Optionals!None) = holds[o]
             /\ \A v \in OptionalValues :
                  /\ Optionals!EqualsValue(opts[o], v) <=> holds[o] = v
                  /\ Optionals!DiffersFromValue(opts[o], v) <=> holds[o] # v
  BY <1>2, StorageAssumption
  DEF Sound, Optionals!ValueOr, Optionals!EqualsValue,
      Optionals!DiffersFromValue, Optionals!OptionalAssumption,
      Optionals!Raw, Optionals!None
<1>4. ASSUME NEW o \in OptionalObjects, NEW p \in OptionalObjects
      PROVE  /\ Optionals!Equal(opts[o], opts[p]) <=> holds[o] = holds[p]
             /\ Optionals!NotEqual(opts[o], opts[p]) <=> holds[o] # holds[p]
  BY <1>2 DEF Sound, Storages, Optionals!Equal, Optionals!NotEqual,
              Optionals!Raw
<1> QED
  BY <1>1, <1>3, <1>4 DEF Optionals!LivesOnce

-----------------------------------------------------------------------------
(* AlignedMemory: every block has its bytes and its header for itself.     *)

Header(p) == memory[p.pointer - HeaderSize]

\* The header and the bytes of p lie in malloc's block b.
Inside(p, b) ==
  /\ b.start <= p.pointer - HeaderSize
  /\ p.pointer + p.size <= b.start + b.length

Apart(b, c) ==
  b.start + b.length <= c.start \/ c.start + c.length <= b.start

MemoryTypeOK ==
  /\ heap \subseteq [start : Nat \ {0}, length : Nat \ {0}]
  /\ blocks \subseteq
       [pointer : Nat, size : Nat \ {0}, alignment : Nat \ {0}]
  /\ memory \in [Aligned!Address -> Int]
  /\ \A b \in heap : b.start + b.length <= LastAddress + 1

\* malloc's blocks do not overlap, and each pointer has one of them.
HeapSplit ==
  /\ \A b, c \in heap : b = c \/ Apart(b, c)
  /\ \A p \in blocks : \E b \in heap : b.start = Header(p) /\ Inside(p, b)
  /\ \A p, q \in blocks : Header(p) = Header(q) => p = q

PointersAligned ==
  \A p \in blocks :
    /\ Aligned!ALIGN_VALID(p.alignment)
    /\ p.pointer % p.alignment = 0

AsManyBlocks ==
  /\ IsFiniteSet(heap) /\ IsFiniteSet(blocks)
  /\ Cardinality(heap) = Cardinality(blocks)

MemoryInv == MemoryTypeOK /\ HeapSplit /\ PointersAligned /\ AsManyBlocks

\* ALIGN_UP goes to the next multiple, by less than the alignment.
LEMMA AlignUpGoesUp ==
  ASSUME NEW x \in Nat, NEW a \in Nat \ {0}
  PROVE  /\ Aligned!ALIGN_UP(x, a) \in Nat
         /\ x <= Aligned!ALIGN_UP(x, a)
         /\ Aligned!ALIGN_UP(x, a) <= x + a - 1
         /\ Aligned!ALIGN_UP(x, a) % a = 0
<1>1. (x + a - 1) % a \in 0 .. (a - 1)
  OBVIOUS
<1>2. PICK r \in 0 .. (a - 1) : r = (x + a - 1) % a
  BY <1>1
<1>3. Aligned!ALIGN_UP(x, a) = x + a - 1 - r
  BY <1>2 DEF Aligned!ALIGN_UP
<1>4. Aligned!ALIGN_UP(x, a) % a = 0
  BY DEF Aligned!ALIGN_UP
<1> QED
  BY <1>3, <1>4

\* ALIGN_UP leaves a multiple as it is.
LEMMA AlignUpKeeps ==
  ASSUME NEW x \in Nat, NEW a \in Nat \ {0}, x % a = 0
  PROVE  Aligned!ALIGN_UP(x, a) = x
<1>1. PICK q \in Int : x = a * q
  <2>1. x \div a \in Int
    OBVIOUS
  <2>2. x = a * (x \div a)
    OBVIOUS
  <2> QED
    BY <2>1, <2>2
<1>2. (x + (a - 1)) % a = a - 1
  BY <1>1
<1>3. x + a - 1 = x + (a - 1)
  OBVIOUS
<1> QED
  BY <1>2, <1>3 DEF Aligned!ALIGN_UP

\* malloc gives a block that is apart from those it has given.
LEMMA MallocIsApart ==
  ASSUME MemoryTypeOK, NEW len \in Nat \ {0}, NEW b \in Aligned!Mallocs(len)
  PROVE  /\ b \in [start : Nat \ {0}, length : Nat \ {0}]
         /\ b.length = len
         /\ b.start + len <= LastAddress + 1
         /\ \A c \in heap : Apart(b, c)
<1> USE StorageAssumption
    DEF Aligned!AlignedAssumption, Aligned!Mallocs, Aligned!Span,
        Aligned!Address
<1>1. b.start \in Nat \ {0} /\ b.length = len
  OBVIOUS
<1>2. b \in [start : Nat \ {0}, length : Nat \ {0}]
  OBVIOUS
<1>3. b.start + len <= LastAddress + 1
  <2>1. b.start + len - 1 \in Aligned!Span(b.start, len)
    BY <1>1
  <2>2. Aligned!Span(b.start, len) \subseteq Aligned!Address
    OBVIOUS
  <2>3. b.start + len - 1 \in Aligned!Address
    BY <2>1, <2>2
  <2> QED
    BY <1>1, <2>3
<1>4. ASSUME NEW c \in heap PROVE Apart(b, c)
  <2>1. c.start \in Nat \ {0} /\ c.length \in Nat \ {0}
    BY DEF MemoryTypeOK
  <2>2. SUFFICES ASSUME ~Apart(b, c) PROVE FALSE
    OBVIOUS
  <2>3. /\ b.start < c.start + c.length
        /\ c.start < b.start + len
    BY <1>1, <2>1, <2>2 DEF Apart
  <2> DEFINE x == IF b.start < c.start THEN c.start ELSE b.start
  <2>4. x \in Aligned!Span(b.start, len)
    BY <1>1, <2>1, <2>3
  <2>5. x \in Aligned!Span(c.start, c.length)
    BY <1>1, <2>1, <2>3
  <2>6. x \in Aligned!Taken
    BY <2>5 DEF Aligned!Taken
  <2>7. Aligned!Span(b.start, len) \cap Aligned!Taken = {}
    OBVIOUS
  <2> HIDE DEF x
  <2> QED
    BY <2>4, <2>6, <2>7
<1> QED
  BY <1>1, <1>2, <1>3, <1>4

\* What is known of a pointer and of malloc's block for it.
LEMMA BlockFacts ==
  ASSUME MemoryTypeOK, HeapSplit, NEW p \in blocks, NEW b \in heap,
         Inside(p, b)
  PROVE  /\ p.pointer \in Nat /\ p.size \in Nat \ {0}
         /\ b.start \in Nat \ {0} /\ b.length \in Nat \ {0}
         /\ b.start <= p.pointer - HeaderSize
         /\ p.pointer + p.size <= b.start + b.length
         /\ p.pointer - HeaderSize \in Aligned!Address
         /\ p.pointer - HeaderSize < p.pointer
         /\ p.pointer - HeaderSize < b.start + b.length
  BY StorageAssumption
  DEF MemoryTypeOK, Inside, Aligned!AlignedAssumption, Aligned!Address

\* Alloc gives a pointer that has nothing to do with the others.
LEMMA AllocStep ==
  ASSUME MemoryInv, NEW size \in 0 .. MaxBytes, NEW alignment \in Alignments,
         Aligned!Alloc(size, alignment)
  PROVE  MemoryInv'
<1> USE StorageAssumption
    DEF Aligned!AlignedAssumption, Aligned!Address, MemoryInv
<1> DEFINE len == Aligned!MallocLength(size, alignment)
<1>1. /\ size \in Nat \ {0} /\ alignment \in Nat \ {0}
      /\ Aligned!ALIGN_VALID(alignment)
  BY DEF Aligned!Alloc, Aligned!ALIGN_VALID
<1>2. len \in Nat \ {0} /\ len = size + HeaderSize + alignment - 1
  BY <1>1 DEF Aligned!MallocLength
<1> DEFINE np(b) == Aligned!Pointer(b.start, alignment)
           new(b) == [pointer |-> np(b), size |-> size,
                      alignment |-> alignment]
<1>3. PICK b \in Aligned!Mallocs(len) :
        /\ heap' = heap \cup {b}
        /\ memory' = [memory EXCEPT ![np(b) - HeaderSize] = b.start]
        /\ blocks' = blocks \cup {new(b)}
  BY DEF Aligned!Alloc
<1> DEFINE n == np(b)
           q == new(b)
<1>4. /\ b \in [start : Nat \ {0}, length : Nat \ {0}]
      /\ b.start \in Nat \ {0} /\ b.length = len
      /\ b.start + len <= LastAddress + 1
      /\ \A c \in heap : Apart(b, c)
  BY <1>2, MallocIsApart
<1>5. /\ n \in Nat /\ n % alignment = 0
      /\ b.start + HeaderSize <= n
      /\ n <= b.start + HeaderSize + alignment - 1
  <2>1. b.start + HeaderSize \in Nat
    BY <1>4
  <2> QED
    BY <1>1, <2>1, AlignUpGoesUp DEF Aligned!Pointer
<1>6. /\ q.pointer = n /\ q.size = size /\ q.alignment = alignment
      /\ q \in [pointer : Nat, size : Nat \ {0}, alignment : Nat \ {0}]
  BY <1>1, <1>5
<1> HIDE DEF len, np, new, n, q
<1>7. n - HeaderSize \in Aligned!Address
      /\ b.start <= n - HeaderSize /\ n + size <= b.start + b.length
  BY <1>1, <1>2, <1>4, <1>5
<1>8. /\ heap' = heap \cup {b} /\ blocks' = blocks \cup {q}
      /\ memory' = [memory EXCEPT ![n - HeaderSize] = b.start]
  BY <1>3 DEF n, q
<1>9. /\ memory \in [Aligned!Address -> Int]
      /\ memory' \in [Aligned!Address -> Int]
      /\ memory'[n - HeaderSize] = b.start
  BY <1>4, <1>7, <1>8 DEF MemoryTypeOK
<1>10. MemoryTypeOK'
  BY <1>4, <1>6, <1>8, <1>9 DEF MemoryTypeOK
\* The headers and blocks of the others.
<1>11. ASSUME NEW p \in blocks
       PROVE  /\ Header(p)' = Header(p) /\ Header(p) # b.start
              /\ p.pointer # n
  <2>1. PICK c \in heap : c.start = Header(p) /\ Inside(p, c)
    BY DEF HeapSplit
  <2>2. Apart(b, c)
    BY <1>4
  <2>3. /\ p.pointer \in Nat /\ p.size \in Nat \ {0}
        /\ c.start \in Nat \ {0} /\ c.length \in Nat \ {0}
        /\ c.start <= p.pointer - HeaderSize
        /\ p.pointer + p.size <= c.start + c.length
        /\ p.pointer - HeaderSize \in Aligned!Address
    BY <2>1, BlockFacts
  <2>4. p.pointer # n /\ p.pointer - HeaderSize # n - HeaderSize
    BY <1>1, <1>4, <1>5, <1>7, <2>2, <2>3 DEF Apart
  <2>5. b.start # c.start
    BY <1>2, <1>4, <2>2, <2>3 DEF Apart
  <2>6. memory'[p.pointer - HeaderSize] = memory[p.pointer - HeaderSize]
    BY <1>8, <1>9, <2>3, <2>4
  <2> QED
    BY <2>1, <2>4, <2>5, <2>6 DEF Header
<1>12. Header(q)' = b.start /\ Inside(q, b)
  BY <1>6, <1>7, <1>9 DEF Header, Inside
<1>13. HeapSplit'
  <2>1. \A c, d \in heap' : c = d \/ Apart(c, d)
    BY <1>4, <1>8 DEF HeapSplit, Apart
  <2>2. ASSUME NEW p \in blocks'
        PROVE  \E c \in heap' : c.start = Header(p)' /\ Inside(p, c)
    <3>1. CASE p = q
      BY <1>8, <1>12, <3>1
    <3>2. CASE p \in blocks
      BY <1>8, <1>11, <3>2 DEF HeapSplit
    <3> QED
      BY <1>8, <3>1, <3>2
  <2>3. ASSUME NEW p1 \in blocks', NEW p2 \in blocks',
               Header(p1)' = Header(p2)'
        PROVE  p1 = p2
    BY <1>8, <1>11, <1>12, <2>3 DEF HeapSplit
  <2> QED
    BY <2>1, <2>2, <2>3 DEF HeapSplit, Inside, Apart
<1>14. PointersAligned'
  BY <1>1, <1>5, <1>6, <1>8 DEF PointersAligned
<1>15. AsManyBlocks'
  <2>1. b \notin heap
    BY <1>2, <1>4 DEF Apart
  <2>2. q \notin blocks
    BY <1>6, <1>11
  <2>3. /\ IsFiniteSet(heap \cup {b})
        /\ Cardinality(heap \cup {b}) = Cardinality(heap) + 1
    BY <2>1, FS_AddElement DEF AsManyBlocks
  <2>4. /\ IsFiniteSet(blocks \cup {q})
        /\ Cardinality(blocks \cup {q}) = Cardinality(blocks) + 1
    BY <2>2, FS_AddElement DEF AsManyBlocks
  <2> QED
    BY <1>8, <2>3, <2>4 DEF AsManyBlocks
<1> QED
  BY <1>10, <1>13, <1>14, <1>15

\* Free gives the block back that the header names, and no other.
LEMMA FreeStep ==
  ASSUME MemoryInv, NEW block \in blocks, Aligned!Free(block)
  PROVE  MemoryInv'
<1> USE StorageAssumption
    DEF Aligned!AlignedAssumption, Aligned!Address, MemoryInv
<1>1. PICK b \in heap : b.start = Header(block) /\ Inside(block, b)
  BY DEF HeapSplit
<1>2. b.start \in Nat \ {0} /\ b.length \in Nat \ {0}
  BY DEF MemoryTypeOK
<1> DEFINE freed ==
             {c \in heap : c.start = memory[block.pointer - HeaderSize]}
<1>3. freed = {b}
  <2>1. ASSUME NEW c \in heap, c.start = b.start PROVE c = b
    <3>1. c.length \in Nat \ {0}
      BY DEF MemoryTypeOK
    <3>2. ~Apart(b, c)
      BY <1>2, <2>1, <3>1 DEF Apart
    <3> QED
      BY <3>2 DEF HeapSplit
  <2> QED
    BY <1>1, <2>1 DEF Header
<1>4. /\ heap' = heap \ freed /\ blocks' = blocks \ {block}
      /\ memory' = [a \in Aligned!Address |->
           IF \E c \in freed : a \in Aligned!Span(c.start, c.length)
             THEN Aligned!Data ELSE memory[a]]
  BY DEF Aligned!Free
<1> HIDE DEF freed
<1>5. /\ heap' = heap \ {b} /\ blocks' = blocks \ {block}
      /\ memory' = [a \in Aligned!Address |->
           IF a \in Aligned!Span(b.start, b.length)
             THEN Aligned!Data ELSE memory[a]]
  BY <1>3, <1>4
<1>6. MemoryTypeOK'
  <2>1. memory' \in [Aligned!Address -> Int]
    BY <1>5 DEF MemoryTypeOK, Aligned!Data
  <2> QED
    BY <1>5, <2>1 DEF MemoryTypeOK
<1>7. ASSUME NEW p \in blocks'
      PROVE  /\ Header(p)' = Header(p)
             /\ \E c \in heap' : c.start = Header(p) /\ Inside(p, c)
  <2>1. p \in blocks /\ p # block
    BY <1>5
  <2>2. PICK c \in heap : c.start = Header(p) /\ Inside(p, c)
    BY <2>1 DEF HeapSplit
  <2>3. c # b
    BY <1>1, <2>1, <2>2 DEF HeapSplit
  <2>4. Apart(b, c)
    BY <2>3 DEF HeapSplit, Apart
  <2>5. /\ c.start \in Nat \ {0} /\ c.length \in Nat \ {0}
        /\ p.pointer \in Nat
        /\ c.start <= p.pointer - HeaderSize
        /\ p.pointer - HeaderSize < c.start + c.length
        /\ p.pointer - HeaderSize \in Aligned!Address
    BY <2>1, <2>2, BlockFacts
  <2>6. p.pointer - HeaderSize \notin Aligned!Span(b.start, b.length)
    BY <1>2, <2>4, <2>5 DEF Apart, Aligned!Span
  <2>7. memory'[p.pointer - HeaderSize] = memory[p.pointer - HeaderSize]
    BY <1>5, <2>5, <2>6
  <2> QED
    BY <1>5, <2>2, <2>3, <2>7 DEF Header
<1>8. HeapSplit'
  <2>1. \A c, d \in heap' : c = d \/ Apart(c, d)
    BY <1>5 DEF HeapSplit
  <2>2. \A p, q \in blocks' : Header(p)' = Header(q)' => p = q
    BY <1>5, <1>7 DEF HeapSplit
  <2>3. \A p \in blocks' :
          \E c \in heap' : c.start = Header(p)' /\ Inside(p, c)
    BY <1>7
  <2> QED
    BY <2>1, <2>2, <2>3 DEF HeapSplit, Inside, Apart
<1>9. PointersAligned'
  BY <1>5 DEF PointersAligned
<1>10. AsManyBlocks'
  <2>1. /\ IsFiniteSet(heap \ {b})
        /\ Cardinality(heap \ {b}) = Cardinality(heap) - 1
    BY <1>1, FS_RemoveElement DEF AsManyBlocks
  <2>2. /\ IsFiniteSet(blocks \ {block})
        /\ Cardinality(blocks \ {block}) = Cardinality(blocks) - 1
    BY FS_RemoveElement DEF AsManyBlocks
  <2> QED
    BY <1>5, <2>1, <2>2 DEF AsManyBlocks
<1> QED
  BY <1>6, <1>8, <1>9, <1>10

\* A caller that fills its block writes over no header.
LEMMA FillStep ==
  ASSUME MemoryInv, NEW block \in blocks, Aligned!Fill(block)
  PROVE  MemoryInv'
<1> USE StorageAssumption
    DEF Aligned!AlignedAssumption, Aligned!Address, MemoryInv
<1>1. /\ heap' = heap /\ blocks' = blocks
      /\ memory' = [a \in Aligned!Address |->
           IF a \in Aligned!Span(block.pointer, block.size)
             THEN Aligned!Data ELSE memory[a]]
  BY DEF Aligned!Fill
<1>2. MemoryTypeOK'
  <2>1. memory' \in [Aligned!Address -> Int]
    BY <1>1 DEF MemoryTypeOK, Aligned!Data
  <2> QED
    BY <1>1, <2>1 DEF MemoryTypeOK
<1>3. ASSUME NEW p \in blocks PROVE Header(p)' = Header(p)
  <2>1. PICK b \in heap : b.start = Header(block) /\ Inside(block, b)
    BY DEF HeapSplit
  <2>2. /\ block.pointer \in Nat /\ block.size \in Nat \ {0}
        /\ b.start \in Nat \ {0} /\ b.length \in Nat \ {0}
        /\ b.start <= block.pointer - HeaderSize
        /\ block.pointer + block.size <= b.start + b.length
        /\ block.pointer - HeaderSize < block.pointer
    BY <2>1, BlockFacts
  <2>3. PICK c \in heap : c.start = Header(p) /\ Inside(p, c)
    BY DEF HeapSplit
  <2>4. /\ p.pointer \in Nat
        /\ c.start \in Nat \ {0} /\ c.length \in Nat \ {0}
        /\ c.start <= p.pointer - HeaderSize
        /\ p.pointer - HeaderSize < c.start + c.length
        /\ p.pointer - HeaderSize \in Aligned!Address
    BY <2>3, BlockFacts
  <2>5. p.pointer - HeaderSize
          \notin Aligned!Span(block.pointer, block.size)
    <3>1. CASE p = block
      BY <2>2, <3>1 DEF Aligned!Span
    <3>2. CASE p # block
      <4>1. c # b
        BY <2>1, <2>3, <3>2 DEF HeapSplit
      <4>2. Apart(b, c)
        BY <4>1 DEF HeapSplit, Apart
      <4> QED
        BY <2>2, <2>4, <4>2 DEF Apart, Aligned!Span
    <3> QED
      BY <3>1, <3>2
  <2>6. memory'[p.pointer - HeaderSize] = memory[p.pointer - HeaderSize]
    BY <1>1, <2>4, <2>5
  <2> QED
    BY <2>6 DEF Header
<1>4. HeapSplit'
  <2>1. \A p \in blocks' :
          \E c \in heap' : c.start = Header(p)' /\ Inside(p, c)
    BY <1>1, <1>3 DEF HeapSplit
  <2>2. \A p, q \in blocks' : Header(p)' = Header(q)' => p = q
    BY <1>1, <1>3 DEF HeapSplit
  <2>3. \A b, c \in heap' : b = c \/ Apart(b, c)
    BY <1>1 DEF HeapSplit
  <2> QED
    BY <2>1, <2>2, <2>3 DEF HeapSplit, Inside, Apart
<1>5. PointersAligned' /\ AsManyBlocks'
  BY <1>1 DEF PointersAligned, AsManyBlocks
<1> QED
  BY <1>2, <1>4, <1>5

\* The invariant holds at first and every step keeps it.
LEMMA MemoryInvInductive == Aligned!Spec => []MemoryInv
<1>1. Aligned!Init => MemoryInv
  BY FS_EmptySet
  DEF Aligned!Init, MemoryInv, MemoryTypeOK, HeapSplit, PointersAligned,
      AsManyBlocks, Aligned!Data
<1>2. MemoryInv /\ [Aligned!Next]_(Aligned!vars) => MemoryInv'
  <2> SUFFICES ASSUME MemoryInv, [Aligned!Next]_(Aligned!vars)
               PROVE  MemoryInv'
    OBVIOUS
  <2>1. CASE UNCHANGED Aligned!vars
    BY <2>1
    DEF Aligned!vars, MemoryInv, MemoryTypeOK, HeapSplit, PointersAligned,
        AsManyBlocks, Header, Inside, Apart
  <2>2. ASSUME NEW size \in 0 .. MaxBytes, NEW alignment \in Alignments,
               Aligned!AllocFails(size, alignment)
        PROVE  MemoryInv'
    BY <2>1, <2>2 DEF Aligned!AllocFails
  <2> QED
    BY <2>1, <2>2, AllocStep, FreeStep, FillStep DEF Aligned!Next
<1> QED
  BY <1>1, <1>2, PTL DEF Aligned!Spec

\* Blocks that are apart are what BlocksAreSound asks for.
LEMMA BlocksSound == MemoryInv => Aligned!BlocksAreSound
<1> SUFFICES ASSUME MemoryInv PROVE Aligned!BlocksAreSound
  OBVIOUS
<1>1. Aligned!Cardinality(heap) = Aligned!Cardinality(blocks)
  <2>1. /\ Aligned!Cardinality(heap) = Cardinality(heap)
        /\ Aligned!Cardinality(blocks) = Cardinality(blocks)
    BY DEF Aligned!Cardinality, Cardinality
  <2> QED
    BY <2>1 DEF MemoryInv, AsManyBlocks
<1>2. ASSUME NEW p \in blocks
      PROVE  /\ p.pointer % p.alignment = 0
             /\ Aligned!GetRightAlign(p.pointer, p.alignment) = p.pointer
             /\ \E b \in heap :
                  /\ b.start = memory[p.pointer - HeaderSize]
                  /\ Aligned!Span(p.pointer - HeaderSize, HeaderSize + p.size)
                       \subseteq Aligned!Span(b.start, b.length)
  <2>1. PICK b \in heap : b.start = Header(p) /\ Inside(p, b)
    BY DEF MemoryInv, HeapSplit
  <2>2. /\ p.pointer \in Nat /\ p.size \in Nat \ {0}
        /\ b.start \in Nat \ {0} /\ b.length \in Nat \ {0}
        /\ b.start <= p.pointer - HeaderSize
        /\ p.pointer + p.size <= b.start + b.length
        /\ p.pointer - HeaderSize < p.pointer
    BY <2>1, BlockFacts DEF MemoryInv
  <2>3. HeaderSize \in Nat
    BY StorageAssumption DEF Aligned!AlignedAssumption
  <2>4. Aligned!Span(p.pointer - HeaderSize, HeaderSize + p.size)
          \subseteq Aligned!Span(b.start, b.length)
    BY <2>2, <2>3 DEF Aligned!Span
  <2>5. p.alignment \in Nat \ {0}
    BY DEF MemoryInv, MemoryTypeOK
  <2>6. /\ p.pointer % p.alignment = 0
        /\ Aligned!ALIGN_VALID(p.alignment)
    BY DEF MemoryInv, PointersAligned
  <2>7. Aligned!ALIGN_UP(p.pointer, p.alignment) = p.pointer
    BY <2>2, <2>5, <2>6, AlignUpKeeps
  <2>8. p.pointer # Aligned!NULL
    BY <2>2, <2>3 DEF Aligned!NULL
  <2>9. Aligned!GetRightAlign(p.pointer, p.alignment) = p.pointer
    BY <2>6, <2>7, <2>8 DEF Aligned!GetRightAlign
  <2> QED
    BY <2>1, <2>4, <2>6, <2>9 DEF Header
<1> QED
  BY <1>1, <1>2 DEF Aligned!BlocksAreSound

\* Values, files and aligned blocks have one owner, which releases them once,
\* whatever the objects, values, files, addresses and alignments.
THEOREM OwnersReleaseOnce == StorageSpec => []OwnedOnce
<1>1. OptionalsInv /\ FilesInv /\ MemoryInv => OwnedOnce
  BY OptionalsLive, FilesOwned, BlocksSound DEF OwnedOnce, FilesInv
<1> QED
  BY <1>1, ComponentsRun, OptionalsInvInductive, FilesInvInductive,
     MemoryInvInductive, PTL

-----------------------------------------------------------------------------
(* Buffer: it holds what it was filled with and leaves nothing behind.     *)

Cells == Elements \cup {0, Buffers!Uninitialized}
Members == [size_ : Nat, capacity_ : Nat, data_ : Seq(Cells)]

\* Buffer b has room for its size, and its content is c; elements that c does
\* not know may be anything.
Holds(b, c) ==
  /\ b \in Members /\ c \in Seq(Cells)
  /\ Len(b.data_) = b.capacity_ /\ b.size_ <= b.capacity_
  /\ Len(c) = b.size_
  /\ \A i \in 1 .. b.size_ :
       c[i] # Buffers!Uninitialized => b.data_[i] = c[i]

\* Buffer b has been moved from, in a build with the checks.
WasMoved(b, c) ==
  /\ b \in Members /\ b.data_ = <<>> /\ b.capacity_ = 0 /\ b.size_ > 0
  /\ c = <<>>

\* No element is beyond the first k cells, if the buffer zeroes.
Clean(b, k) ==
  ZeroOnFree =>
    \A i \in 1 .. Len(b.data_) : i > k => b.data_[i] \notin Elements

\* Nor in what was released.
NothingLeft(l) ==
  l \subseteq Cells /\ (ZeroOnFree => l \cap Elements = {})

BuffersInv ==
  /\ bufs \in [BufferObjects -> Members]
  /\ content \in [BufferObjects -> Seq(Cells)]
  /\ \A o \in BufferObjects :
       /\ Holds(bufs[o], content[o]) \/ WasMoved(bufs[o], content[o])
       /\ Clean(bufs[o], bufs[o].size_)
  /\ NothingLeft(left)

\* A function on 1 .. n is a sequence of length n.
LEMMA FunctionIsSeq ==
  ASSUME NEW S, NEW n \in Nat, NEW f \in [1 .. n -> S]
  PROVE  f \in Seq(S) /\ Len(f) = n /\ DOMAIN f = 1 .. n
  OBVIOUS

\* The data of a call and zero are cells.
LEMMA CellFacts ==
  /\ Seq(Elements) \subseteq Seq(Cells)
  /\ 0 \in Cells /\ Buffers!Uninitialized \in Cells
  /\ 0 \notin Elements /\ Buffers!Uninitialized \notin Elements
  /\ <<>> \in Seq(Cells) /\ Len(<<>>) = 0
  /\ \A d \in Buffers!Data : d \in Seq(Cells)
<1> USE StorageAssumption
    DEF Cells, Buffers!BufferAssumption, Buffers!Uninitialized
<1>1. ASSUME NEW d \in Buffers!Data PROVE d \in Seq(Cells)
  <2>1. PICK n \in 0 .. MaxData : d \in [1 .. n -> Elements]
    BY DEF Buffers!Data
  <2>2. n \in Nat
    OBVIOUS
  <2>3. d \in [1 .. n -> Cells]
    BY <2>1
  <2> HIDE DEF Cells
  <2> QED
    BY <2>2, <2>3, FunctionIsSeq
<1>2. Seq(Elements) \subseteq Seq(Cells)
  <2>1. ASSUME NEW d \in Seq(Elements) PROVE d \in Seq(Cells)
    <3>1. Len(d) \in Nat /\ d \in [1 .. Len(d) -> Elements]
      BY LenProperties
    <3>2. d \in [1 .. Len(d) -> Cells]
      BY <3>1
    <3> HIDE DEF Cells
    <3> QED
      BY <3>1, <3>2, FunctionIsSeq
  <2> QED
    BY <2>1
<1>3. <<>> \in Seq(Cells) /\ Len(<<>>) = 0
  BY EmptySeq
<1> QED
  BY <1>1, <1>2, <1>3

\* What IsConsistent tells apart.
LEMMA ConsistentTells ==
  ASSUME NEW b, NEW c
  PROVE  /\ Holds(b, c) => Buffers!IsConsistent(b)
         /\ WasMoved(b, c) => ~Buffers!IsConsistent(b)
<1>1. ASSUME Holds(b, c) PROVE Buffers!IsConsistent(b)
  <2>1. b.capacity_ # 0 => b.data_ # <<>>
    BY <1>1, CellFacts DEF Holds
  <2> QED
    BY <1>1, <2>1 DEF Holds, Members, Buffers!IsConsistent, Buffers!Null
<1>2. ASSUME WasMoved(b, c) PROVE ~Buffers!IsConsistent(b)
  BY <1>2 DEF WasMoved, Members, Buffers!IsConsistent
<1> QED
  BY <1>1, <1>2

\* What the operators on numbers and new blocks yield.
LEMMA FreshFacts ==
  /\ \A m, n \in Nat : /\ Buffers!Larger(m, n) \in Nat
                       /\ Buffers!Larger(m, n) >= m
                       /\ Buffers!Larger(m, n) >= n
  /\ \A n \in Nat : /\ Buffers!Fresh(n) \in Seq(Cells)
                    /\ Len(Buffers!Fresh(n)) = n
                    /\ \A i \in 1 .. n :
                         Buffers!Fresh(n)[i] = Buffers!Uninitialized
<1>1. ASSUME NEW n \in Nat
      PROVE  /\ Buffers!Fresh(n) \in Seq(Cells)
             /\ Len(Buffers!Fresh(n)) = n
             /\ \A i \in 1 .. n :
                  Buffers!Fresh(n)[i] = Buffers!Uninitialized
  <2>1. Buffers!Fresh(n) \in [1 .. n -> Cells]
    BY CellFacts DEF Buffers!Fresh
  <2> QED
    BY <2>1, FunctionIsSeq DEF Buffers!Fresh
<1> QED
  BY <1>1 DEF Buffers!Larger

\* A block of a new object or of more elements.
LEMMA ConstructedHolds ==
  ASSUME NEW size \in Nat, NEW capacity \in Nat
  PROVE  LET b == Buffers!Constructed(size, capacity)
         IN  /\ Holds(b, Buffers!Fresh(size)) /\ b.size_ = size
             /\ \A k \in Int : Clean(b, k)
<1> DEFINE b == Buffers!Constructed(size, capacity)
           n == Buffers!Larger(size, capacity)
<1>1. n \in Nat /\ n >= size
  BY FreshFacts
<1>2. b.size_ = size /\ b.capacity_ = n /\ b.data_ = Buffers!Fresh(n)
  BY DEF Buffers!Constructed
<1>3. b \in Members
  <2>1. Buffers!Fresh(n) \in Seq(Cells)
    BY <1>1, FreshFacts
  <2> QED
    BY <1>1, <2>1 DEF Buffers!Constructed, Members
<1> HIDE DEF b, n
<1>4. Holds(b, Buffers!Fresh(size))
  BY <1>1, <1>2, <1>3, FreshFacts DEF Holds
<1>5. \A k \in Int : Clean(b, k)
  <2>1. \A i \in 1 .. n : b.data_[i] \notin Elements
    <3>1. \A i \in 1 .. n : b.data_[i] = Buffers!Uninitialized
      BY <1>1, <1>2, FreshFacts
    <3> QED
      BY <3>1, CellFacts
  <2>2. Len(b.data_) = n
    BY <1>1, <1>2, FreshFacts
  <2> QED
    BY <2>1, <2>2 DEF Clean
<1> QED
  BY <1>2, <1>4, <1>5 DEF b

\* EnsureCapacityWithHeadroom keeps what the buffer holds.
LEMMA EnsuredHolds ==
  ASSUME NEW b, NEW c, Holds(b, c), NEW k \in Nat, Clean(b, k),
         NEW capacity \in Nat, NEW extra \in BOOLEAN
  PROVE  LET e == Buffers!EnsureCapacityWithHeadroom(b, capacity, extra)
         IN  /\ Holds(e, c) /\ Clean(e, k)
             /\ e.size_ = b.size_ /\ e.capacity_ >= capacity
<1> DEFINE e == Buffers!EnsureCapacityWithHeadroom(b, capacity, extra)
           n == IF extra
                  THEN Buffers!Larger(capacity,
                                      b.capacity_ + b.capacity_ \div 2)
                  ELSE capacity
           d == [i \in 1 .. n |-> IF i <= b.size_ THEN b.data_[i]
                                  ELSE Buffers!Uninitialized]
<1>0. /\ b \in Members /\ b.size_ \in Nat /\ b.capacity_ \in Nat
      /\ b.data_ \in Seq(Cells) /\ Len(b.data_) = b.capacity_
      /\ b.size_ <= b.capacity_
  BY DEF Holds, Members
<1>1. CASE capacity <= b.capacity_
  BY <1>0, <1>1 DEF Buffers!EnsureCapacityWithHeadroom
<1>2. CASE capacity > b.capacity_
  <2>1. n \in Nat /\ n >= capacity
    <3>1. b.capacity_ + b.capacity_ \div 2 \in Nat
      BY <1>0
    <3> QED
      BY <3>1 DEF Buffers!Larger
  <2>2. e = [b EXCEPT !.capacity_ = n, !.data_ = d]
    BY <1>0, <1>2 DEF Buffers!EnsureCapacityWithHeadroom
  <2>3. d \in [1 .. n -> Cells]
    <3>1. \A i \in 1 .. n : i <= b.size_ => b.data_[i] \in Cells
      BY <1>0, <2>1, ElementOfSeq
    <3> HIDE DEF n
    <3> QED
      BY <3>1, CellFacts
  <2>4. d \in Seq(Cells) /\ Len(d) = n
    <3> HIDE DEF n, d
    <3> QED
      BY <2>1, <2>3, FunctionIsSeq
  <2>5. \A i \in 1 .. n : d[i] = IF i <= b.size_ THEN b.data_[i]
                                 ELSE Buffers!Uninitialized
    OBVIOUS
  <2> HIDE DEF d, n, e
  <2>6. /\ e \in Members /\ e.size_ = b.size_ /\ e.capacity_ = n
        /\ e.data_ = d
    BY <1>0, <2>1, <2>2, <2>4 DEF Members
  <2>7. Holds(e, c)
    BY <1>0, <1>2, <2>1, <2>4, <2>5, <2>6 DEF Holds
  <2>8. Clean(e, k)
    BY <1>0, <1>2, <2>1, <2>4, <2>5, <2>6, CellFacts DEF Clean
  <2> QED
    BY <2>1, <2>6, <2>7, <2>8 DEF e
<1> QED
  BY <1>0, <1>1, <1>2

\* A buffer b with another size and other cells in its block.
Rewritten(b, n, w) == [b EXCEPT !.size_ = n, !.data_ = w]

LEMMA RewrittenFacts ==
  ASSUME NEW b \in Members, NEW n \in Nat,
         NEW w \in [1 .. b.capacity_ -> Cells]
  PROVE  /\ Rewritten(b, n, w) \in Members
         /\ Len(Rewritten(b, n, w).data_) = b.capacity_
         /\ Rewritten(b, n, w).size_ = n
         /\ Rewritten(b, n, w).capacity_ = b.capacity_
         /\ Rewritten(b, n, w).data_ = w
<1>1. b.capacity_ \in Nat
  BY DEF Members
<1>2. w \in Seq(Cells) /\ Len(w) = b.capacity_
  BY <1>1, FunctionIsSeq
<1> QED
  BY <1>1, <1>2 DEF Members, Rewritten

\* A buffer e with data written after its first from cells.
Filled(e, from, data) ==
  Rewritten(e, from + Len(data),
            [i \in 1 .. e.capacity_ |->
               IF i \in (from + 1)..(from + Len(data)) THEN data[i - from]
               ELSE e.data_[i]])

\* It then holds the data, after what was in its first cells.
LEMMA FilledHolds ==
  ASSUME NEW e \in Members, Len(e.data_) = e.capacity_,
         NEW c \in Seq(Cells), NEW data \in Seq(Cells),
         Len(c) + Len(data) <= e.capacity_,
         \A i \in 1 .. Len(c) :
           c[i] # Buffers!Uninitialized => e.data_[i] = c[i],
         NEW k \in Nat, Clean(e, k)
  PROVE  /\ Holds(Filled(e, Len(c), data), c \o data)
         /\ Clean(Filled(e, Len(c), data),
                  Buffers!Larger(k, Len(c) + Len(data)))
         /\ Filled(e, Len(c), data).size_ = Len(c) + Len(data)
<1> DEFINE from == Len(c)
           n == from + Len(data)
           w == [i \in 1 .. e.capacity_ |->
                   IF i \in (from + 1)..n THEN data[i - from]
                   ELSE e.data_[i]]
           a == Filled(e, from, data)
           h == c \o data
<1>1. Len(data) \in Nat /\ from \in Nat /\ n \in Nat
  BY LenProperties
<1>2. e.capacity_ \in Nat /\ e.data_ \in Seq(Cells)
  BY DEF Members
<1>3. a = Rewritten(e, n, w)
  BY DEF Filled
<1>4. w \in [1 .. e.capacity_ -> Cells]
  <2> HIDE DEF from, n
  <2>1. \A i \in 1 .. e.capacity_ : e.data_[i] \in Cells
    BY <1>2, ElementOfSeq
  <2>2. \A i \in (from + 1)..n : data[i - from] \in Cells
    <3>1. \A j \in 1 .. Len(data) : data[j] \in Cells
      BY ElementOfSeq
    <3>2. \A i \in (from + 1)..n : i - from \in 1 .. Len(data)
      BY <1>1 DEF n
    <3> QED
      BY <3>1, <3>2
  <2> QED
    BY <2>1, <2>2
<1>5. \A i \in 1 .. e.capacity_ :
        w[i] = IF i \in (from + 1)..n THEN data[i - from] ELSE e.data_[i]
  OBVIOUS
<1>6. /\ h \in Seq(Cells) /\ Len(h) = n
      /\ \A i \in 1 .. n : h[i] = IF i <= from THEN c[i] ELSE data[i - from]
  BY ConcatProperties
<1>7. n <= e.capacity_
  OBVIOUS
<1>8. \A i \in 1 .. from :
        c[i] # Buffers!Uninitialized => e.data_[i] = c[i]
  OBVIOUS
<1> HIDE DEF n, from, w, a, h
<1>9. /\ a \in Members /\ Len(a.data_) = a.capacity_
      /\ a.size_ = n /\ a.capacity_ = e.capacity_ /\ a.data_ = w
  BY <1>1, <1>3, <1>4, RewrittenFacts
<1>10. Holds(a, h)
  <2>1. ASSUME NEW i \in 1 .. n, h[i] # Buffers!Uninitialized
        PROVE  w[i] = h[i]
    <3>1. i \in 1 .. e.capacity_
      BY <1>1, <1>2, <1>7
    <3>2. CASE i <= from
      <4>1. w[i] = e.data_[i] /\ h[i] = c[i] /\ i \in 1 .. from
        BY <1>1, <1>5, <1>6, <3>1, <3>2
      <4> QED
        BY <1>8, <2>1, <4>1
    <3>3. CASE i > from
      <4>1. w[i] = data[i - from]
        BY <1>1, <1>5, <3>1, <3>3
      <4>2. h[i] = data[i - from]
        BY <1>1, <1>6, <3>3
      <4> QED
        BY <4>1, <4>2
    <3>4. i <= from \/ i > from
      BY <1>1
    <3> QED
      BY <3>2, <3>3, <3>4, Zenon
  <2> QED
    BY <1>6, <1>7, <1>9, <2>1 DEF Holds
<1>11. Clean(a, Buffers!Larger(k, n))
  <2>1. /\ Buffers!Larger(k, n) \in Nat /\ Buffers!Larger(k, n) >= k
        /\ Buffers!Larger(k, n) >= n
    BY <1>1, FreshFacts
  <2>2. \A i \in 1 .. e.capacity_ : i > n => w[i] = e.data_[i]
    BY <1>1, <1>5
  <2> HIDE DEF Buffers!Larger
  <2> QED
    BY <1>1, <1>2, <1>9, <2>1, <2>2 DEF Clean
<1> QED
  BY <1>9, <1>10, <1>11 DEF a, n, from, h

\* Appending data to what a buffer holds.
LEMMA AppendedHolds ==
  ASSUME NEW b, NEW c, Holds(b, c), NEW k \in Nat, Clean(b, k),
         NEW data \in Seq(Cells)
  PROVE  LET a == Buffers!Appended(b, data)
         IN  /\ Holds(a, c \o data)
             /\ Clean(a, Buffers!Larger(k, b.size_ + Len(data)))
             /\ a.size_ = b.size_ + Len(data)
<1> DEFINE n == b.size_ + Len(data)
           e == Buffers!EnsureCapacityWithHeadroom(b, n, TRUE)
           a == Buffers!Appended(b, data)
<1>1. /\ Len(data) \in Nat /\ b.size_ \in Nat /\ n \in Nat
      /\ Len(c) = b.size_ /\ c \in Seq(Cells)
  BY LenProperties DEF Holds, Members
<1>2. Holds(e, c) /\ Clean(e, k) /\ e.size_ = b.size_ /\ e.capacity_ >= n
  <2> HIDE DEF n
  <2> QED
    BY <1>1, EnsuredHolds
<1>3. /\ e \in Members /\ e.capacity_ \in Nat
      /\ Len(e.data_) = e.capacity_ /\ DOMAIN e.data_ = 1 .. e.capacity_
  <2> HIDE DEF e
  <2>1. e \in Members /\ Len(e.data_) = e.capacity_
    BY <1>2 DEF Holds
  <2> QED
    BY <2>1, LenProperties DEF Members
<1>4. a = Filled(e, Len(c), data)
  BY <1>1, <1>3 DEF Buffers!Appended, Filled, Rewritten
<1>5. \A i \in 1 .. Len(c) :
        c[i] # Buffers!Uninitialized => e.data_[i] = c[i]
  <2> HIDE DEF e
  <2> QED
    BY <1>1, <1>2 DEF Holds
<1>6. Len(c) + Len(data) <= e.capacity_
  <2> HIDE DEF e
  <2> QED
    BY <1>1, <1>2, <1>3
<1> HIDE DEF e, a
<1>7. /\ Holds(a, c \o data)
      /\ Clean(a, Buffers!Larger(k, Len(c) + Len(data)))
      /\ a.size_ = Len(c) + Len(data)
  BY <1>1, <1>2, <1>3, <1>4, <1>5, <1>6, FilledHolds
<1> QED
  BY <1>1, <1>7 DEF a

\* What is cut off by a smaller size is zeroed.
LEMMA ShrunkHolds ==
  ASSUME NEW b, NEW c, Holds(b, c), NEW old \in Nat, NEW k \in Nat,
         Clean(b, k), k <= old \/ k <= b.size_
  PROVE  LET z == Buffers!ZeroShrunk(b, old)
         IN  Holds(z, c) /\ Clean(z, z.size_) /\ z.size_ = b.size_
<1> DEFINE z == Buffers!ZeroShrunk(b, old)
           count == old - b.size_
           w == [i \in 1 .. b.capacity_ |->
                   IF i \in (b.size_ + 1)..(b.size_ + count) THEN 0
                   ELSE b.data_[i]]
<1>1. /\ b \in Members /\ b.size_ \in Nat /\ b.capacity_ \in Nat
      /\ b.data_ \in Seq(Cells) /\ Len(b.data_) = b.capacity_
      /\ DOMAIN b.data_ = 1 .. b.capacity_
  BY LenProperties DEF Holds, Members
<1>2. CASE ZeroOnFree /\ b.size_ < old
  <2>1. z = [b EXCEPT !.data_ = w]
    BY <1>1, <1>2 DEF Buffers!ZeroShrunk, Buffers!ZeroTrailingData
  <2>2. w \in [1 .. b.capacity_ -> Cells]
    <3>1. \A i \in 1 .. b.capacity_ : b.data_[i] \in Cells
      BY <1>1, ElementOfSeq
    <3> QED
      BY <3>1, CellFacts
  <2>3. z = Rewritten(b, b.size_, w)
    BY <1>1, <2>1 DEF Members, Rewritten
  <2>4. \A i \in 1 .. b.capacity_ :
          w[i] = IF i \in (b.size_ + 1)..old THEN 0 ELSE b.data_[i]
    BY <1>1
  <2> HIDE DEF z, w
  <2>5. /\ z \in Members /\ Len(z.data_) = z.capacity_
        /\ z.size_ = b.size_ /\ z.capacity_ = b.capacity_ /\ z.data_ = w
    BY <1>1, <2>2, <2>3, RewrittenFacts
  <2>6. Holds(z, c)
    BY <1>1, <2>4, <2>5 DEF Holds
  <2>7. Clean(z, b.size_)
    BY <1>1, <1>2, <2>4, <2>5, CellFacts DEF Clean
  <2> QED
    BY <2>5, <2>6, <2>7 DEF z
<1>3. CASE ~(ZeroOnFree /\ b.size_ < old)
  <2>1. z = b
    BY <1>3 DEF Buffers!ZeroShrunk
  <2>2. Clean(b, b.size_)
    BY <1>1, <1>3 DEF Clean
  <2> QED
    BY <2>1, <2>2
<1> QED
  BY <1>2, <1>3

\* The content after SetSize: cut off, or with elements that may be anything.
Cut(c, size) ==
  [i \in 1 .. size |-> IF i <= Len(c) THEN c[i] ELSE Buffers!Uninitialized]

\* A buffer whose size is set, before anything is zeroed.
Sized(b, size) ==
  [Buffers!EnsureCapacityWithHeadroom(b, size, TRUE) EXCEPT !.size_ = size]

LEMMA SizedHolds ==
  ASSUME NEW b, NEW c, Holds(b, c), NEW k \in Nat, Clean(b, k),
         NEW size \in Nat
  PROVE  /\ Holds(Sized(b, size), Cut(c, size)) /\ Clean(Sized(b, size), k)
         /\ Sized(b, size).size_ = size
<1> DEFINE e == Buffers!EnsureCapacityWithHeadroom(b, size, TRUE)
           s == Sized(b, size)
           h == Cut(c, size)
<1>1. /\ b.size_ \in Nat /\ c \in Seq(Cells) /\ Len(c) = b.size_
  BY DEF Holds, Members
<1>2. Holds(e, c) /\ Clean(e, k) /\ e.size_ = b.size_
      /\ e.capacity_ >= size
  BY EnsuredHolds
<1>3. s = [e EXCEPT !.size_ = size]
  BY DEF Sized
<1> HIDE DEF e, s
<1>4. /\ s \in Members /\ s.size_ = size /\ s.capacity_ = e.capacity_
      /\ s.data_ = e.data_
  BY <1>2, <1>3 DEF Holds, Members
<1>5. h \in Seq(Cells) /\ Len(h) = size
  <2>1. \A i \in 1 .. size : i <= Len(c) => c[i] \in Cells
    BY <1>1, ElementOfSeq
  <2>2. h \in [1 .. size -> Cells]
    BY <2>1, CellFacts DEF Cut
  <2> HIDE DEF h
  <2> QED
    BY <2>2, FunctionIsSeq
<1>6. \A i \in 1 .. size :
        h[i] = IF i <= b.size_ THEN c[i] ELSE Buffers!Uninitialized
  BY <1>1 DEF Cut
<1> HIDE DEF h
<1>7. Holds(s, h)
  <2>1. ASSUME NEW i \in 1 .. size, h[i] # Buffers!Uninitialized
        PROVE  s.data_[i] = h[i]
    BY <1>1, <1>2, <1>4, <1>6, <2>1 DEF Holds
  <2>2. Len(s.data_) = s.capacity_ /\ s.size_ <= s.capacity_
    BY <1>2, <1>4 DEF Holds
  <2> QED
    BY <1>4, <1>5, <2>1, <2>2 DEF Holds
<1>8. Clean(s, k)
  BY <1>2, <1>4 DEF Clean
<1> QED
  BY <1>4, <1>7, <1>8 DEF s, h

\* SetSize keeps what the buffer holds up to the new size.
LEMMA ResizedHolds ==
  ASSUME NEW b, NEW c, Holds(b, c), Clean(b, b.size_), NEW size \in Nat
  PROVE  LET r == Buffers!Resized(b, size)
         IN  Holds(r, Cut(c, size)) /\ Clean(r, r.size_) /\ r.size_ = size
<1>1. b.size_ \in Nat
  BY DEF Holds, Members
<1>2. /\ Holds(Sized(b, size), Cut(c, size))
      /\ Clean(Sized(b, size), b.size_) /\ Sized(b, size).size_ = size
  BY <1>1, SizedHolds
<1>3. Buffers!Resized(b, size) = Buffers!ZeroShrunk(Sized(b, size), b.size_)
  BY DEF Buffers!Resized, Sized
<1> QED
  BY <1>1, <1>2, <1>3, ShrunkHolds

\* Appending by a setter that is given a view of max elements.
LEMMA AppendedByHolds ==
  ASSUME NEW b, NEW c, Holds(b, c), NEW k \in Nat, Clean(b, k),
         NEW max \in Nat, NEW data \in Seq(Cells), Len(data) <= max
  PROVE  LET a == Buffers!AppendedBy(b, max, data)
         IN  /\ Holds(a, c \o data)
             /\ Clean(a, Buffers!Larger(k, b.size_ + Len(data)))
             /\ a.size_ = b.size_ + Len(data)
<1> DEFINE size == b.size_ + max
           s == Sized(b, size)
           a == Buffers!AppendedBy(b, max, data)
<1>1. /\ Len(data) \in Nat /\ b.size_ \in Nat /\ size \in Nat
      /\ Len(c) = b.size_ /\ c \in Seq(Cells)
  BY LenProperties DEF Holds, Members
<1>2. Holds(s, Cut(c, size)) /\ Clean(s, k) /\ s.size_ = size
  <2> HIDE DEF size
  <2> QED
    BY <1>1, SizedHolds
<1>3. Buffers!Resized(b, size) = s
  <2>1. Buffers!Resized(b, size) = Buffers!ZeroShrunk(s, b.size_)
    BY DEF Buffers!Resized, Sized
  <2>2. ~(s.size_ < b.size_)
    BY <1>1, <1>2
  <2> QED
    BY <2>1, <2>2 DEF Buffers!ZeroShrunk
<1>4. a = [s EXCEPT !.size_ = b.size_ + Len(data),
             !.data_ = [i \in DOMAIN @ |->
               IF i \in (b.size_ + 1)..(b.size_ + Len(data))
                 THEN data[i - b.size_] ELSE @[i]]]
  BY <1>3 DEF Buffers!AppendedBy
<1>5. \A i \in 1 .. Len(c) : Cut(c, size)[i] = c[i]
  BY <1>1 DEF Cut
<1> HIDE DEF s, a
<1>6. /\ s \in Members /\ s.capacity_ \in Nat
      /\ Len(s.data_) = s.capacity_ /\ DOMAIN s.data_ = 1 .. s.capacity_
  <2>1. s \in Members /\ Len(s.data_) = s.capacity_
    BY <1>2 DEF Holds
  <2> QED
    BY <2>1, LenProperties DEF Members
<1>7. a = Filled(s, Len(c), data)
  BY <1>1, <1>4, <1>6 DEF Filled, Rewritten
<1>8. ASSUME NEW i \in 1 .. Len(c), c[i] # Buffers!Uninitialized
      PROVE  s.data_[i] = c[i]
  <2>1. i \in 1 .. s.size_
    BY <1>1, <1>2
  <2>2. Cut(c, size)[i] = c[i]
    BY <1>5
  <2> QED
    BY <1>2, <1>8, <2>1, <2>2 DEF Holds
<1>9. Len(c) + Len(data) <= s.capacity_
  BY <1>1, <1>2, <1>6 DEF Holds
<1>10. /\ Holds(a, c \o data)
       /\ Clean(a, Buffers!Larger(k, Len(c) + Len(data)))
       /\ a.size_ = Len(c) + Len(data)
  BY <1>1, <1>2, <1>6, <1>7, <1>8, <1>9, FilledHolds
<1> QED
  BY <1>1, <1>10 DEF a

\* Clear leaves an empty buffer, in a block that is zeroed.
LEMMA ClearedHolds ==
  ASSUME NEW b \in Members, Len(b.data_) = b.capacity_
  PROVE  LET a == [Buffers!MaybeZeroCompleteBuffer(b) EXCEPT !.size_ = 0]
         IN  Holds(a, <<>>) /\ Clean(a, a.size_)
<1> DEFINE a == [Buffers!MaybeZeroCompleteBuffer(b) EXCEPT !.size_ = 0]
           w == [i \in 1 .. b.capacity_ |-> 0]
<1>1. /\ b.capacity_ \in Nat /\ b.data_ \in Seq(Cells)
      /\ DOMAIN b.data_ = 1 .. b.capacity_
  BY LenProperties DEF Members
<1>2. ASSUME NEW v \in [1 .. b.capacity_ -> Cells], a = Rewritten(b, 0, v),
             ZeroOnFree => \A i \in 1 .. b.capacity_ : v[i] \notin Elements
      PROVE  Holds(a, <<>>) /\ Clean(a, a.size_)
  <2> HIDE DEF a
  <2> DEFINE r == Rewritten(b, 0, v)
  <2>0. /\ r \in Members /\ Len(r.data_) = b.capacity_
        /\ r.size_ = 0 /\ r.capacity_ = b.capacity_ /\ r.data_ = v
    <3>1. 0 \in Nat
      OBVIOUS
    <3> QED
      BY <1>2, <3>1, RewrittenFacts
  <2> HIDE DEF r
  <2>1. /\ a \in Members /\ Len(a.data_) = a.capacity_
        /\ a.size_ = 0 /\ a.capacity_ = b.capacity_ /\ a.data_ = v
    BY <1>2, <2>0 DEF r
  <2> QED
    BY <1>1, <1>2, <2>1, CellFacts DEF Holds, Clean
<1>3. CASE ZeroOnFree /\ b.capacity_ > 0
  <2>1. a = Rewritten(b, 0, w)
    BY <1>1, <1>3 DEF Buffers!MaybeZeroCompleteBuffer, Rewritten
  <2>2. w \in [1 .. b.capacity_ -> Cells]
    BY CellFacts
  <2>3. \A i \in 1 .. b.capacity_ : w[i] \notin Elements
    BY CellFacts
  <2> QED
    BY <1>2, <2>1, <2>2, <2>3
<1>4. CASE ~(ZeroOnFree /\ b.capacity_ > 0)
  <2>1. a = Rewritten(b, 0, b.data_)
    BY <1>4 DEF Buffers!MaybeZeroCompleteBuffer, Rewritten, Members
  <2>2. b.data_ \in [1 .. b.capacity_ -> Cells]
    BY <1>1, LenProperties
  <2>3. ZeroOnFree => b.capacity_ = 0
    BY <1>1, <1>4
  <2> QED
    BY <1>2, <2>1, <2>2, <2>3
<1> QED
  BY <1>3, <1>4

\* What is released is zeroed.
LEMMA ReleasedClean ==
  ASSUME NEW b \in Members, Len(b.data_) = b.capacity_
  PROVE  NothingLeft(Buffers!Released(b))
<1> DEFINE z == Buffers!MaybeZeroCompleteBuffer(b)
<1>1. /\ b.capacity_ \in Nat /\ b.data_ \in Seq(Cells)
      /\ DOMAIN b.data_ = 1 .. b.capacity_
  BY LenProperties DEF Members
<1>2. Buffers!Released(b) = {z.data_[i] : i \in DOMAIN z.data_}
  BY DEF Buffers!Released, Buffers!Range
<1>3. CASE ZeroOnFree /\ b.capacity_ > 0
  <2>1. z.data_ = [i \in 1 .. b.capacity_ |-> 0]
    BY <1>1, <1>3 DEF Buffers!MaybeZeroCompleteBuffer, Members
  <2>2. \A x \in Buffers!Released(b) : x = 0
    BY <1>2, <2>1
  <2> QED
    BY <2>2, CellFacts DEF NothingLeft
<1>4. CASE ~(ZeroOnFree /\ b.capacity_ > 0)
  <2>1. z.data_ = b.data_
    BY <1>4 DEF Buffers!MaybeZeroCompleteBuffer
  <2>2. \A i \in 1 .. b.capacity_ : b.data_[i] \in Cells
    BY <1>1, ElementOfSeq
  <2>3. Buffers!Released(b) \subseteq Cells
    BY <1>1, <1>2, <2>1, <2>2
  <2>4. ZeroOnFree => Buffers!Released(b) = {}
    BY <1>1, <1>2, <1>4, <2>1
  <2> QED
    BY <2>3, <2>4 DEF NothingLeft
<1> QED
  BY <1>3, <1>4

-----------------------------------------------------------------------------
(* The steps of a buffer.                                                  *)

\* What the invariant says of one buffer.
LEMMA BufferFacts ==
  ASSUME BuffersInv, NEW o \in BufferObjects
  PROVE  /\ bufs[o] \in Members /\ content[o] \in Seq(Cells)
         /\ bufs[o].size_ \in Nat /\ Clean(bufs[o], bufs[o].size_)
         /\ Len(bufs[o].data_) = bufs[o].capacity_
         /\ Buffers!IsConsistent(bufs[o]) => Holds(bufs[o], content[o])
         /\ NothingLeft(Buffers!Released(bufs[o]))
<1>1. /\ bufs[o] \in Members /\ content[o] \in Seq(Cells)
      /\ bufs[o].size_ \in Nat /\ Clean(bufs[o], bufs[o].size_)
      /\ Holds(bufs[o], content[o]) \/ WasMoved(bufs[o], content[o])
  BY DEF BuffersInv, Members
<1>2. Len(bufs[o].data_) = bufs[o].capacity_
  BY <1>1, CellFacts DEF Holds, WasMoved
<1> QED
  BY <1>1, <1>2, ConsistentTells, ReleasedClean

\* A buffer may become one that holds its content, with its block zeroed.
LEMMA BecomeStep ==
  ASSUME BuffersInv, NEW o \in BufferObjects, NEW b, NEW c, Holds(b, c),
         Clean(b, b.size_), NEW l, NothingLeft(l),
         bufs' = [bufs EXCEPT ![o] = b],
         content' = [content EXCEPT ![o] = c],
         left' = left \cup l
  PROVE  BuffersInv'
<1>1. b \in Members /\ c \in Seq(Cells)
  BY DEF Holds
<1>2. /\ bufs' \in [BufferObjects -> Members]
      /\ content' \in [BufferObjects -> Seq(Cells)]
      /\ bufs'[o] = b /\ content'[o] = c
      /\ \A p \in BufferObjects \ {o} :
           bufs'[p] = bufs[p] /\ content'[p] = content[p]
  BY <1>1 DEF BuffersInv
<1>3. ASSUME NEW p \in BufferObjects
      PROVE  /\ Holds(bufs'[p], content'[p]) \/ WasMoved(bufs'[p], content'[p])
             /\ Clean(bufs'[p], bufs'[p].size_)
  BY <1>2 DEF BuffersInv
<1>4. NothingLeft(left')
  BY DEF BuffersInv, NothingLeft
<1> QED
  BY <1>2, <1>3, <1>4 DEF BuffersInv, Holds, WasMoved, Clean, NothingLeft,
                          Members, Cells

\* The methods that check that the buffer is consistent.
LEMMA CheckedStep ==
  ASSUME BuffersInv, NEW o \in BufferObjects, NEW b, NEW c,
         Holds(bufs[o], content[o]) => Holds(b, c) /\ Clean(b, b.size_),
         Buffers!Become(o, b, c)
  PROVE  BuffersInv'
<1>1. Holds(b, c) /\ Clean(b, b.size_)
  BY BufferFacts DEF Buffers!Become
<1>2. NothingLeft(Buffers!LeftBy(bufs[o], b))
  BY BufferFacts DEF Buffers!LeftBy, NothingLeft
<1> QED
  BY <1>1, <1>2, BecomeStep DEF Buffers!Become

\* Methods that are given data keep the invariant.
LEMMA DataSteps ==
  ASSUME BuffersInv, NEW o \in BufferObjects, NEW data \in Seq(Cells),
         NEW n \in Nat,
         \/ Buffers!AppendData(o, data)
         \/ Buffers!SetData(o, data)
         \/ Buffers!AppendDataBySetter(o, n, data)
         \/ Buffers!SetDataBySetter(o, n, data)
         \/ Buffers!ReconstructFrom(o, data, n)
  PROVE  BuffersInv'
<1> DEFINE b == bufs[o]
           c == content[o]
           k == b.size_
           b0 == [b EXCEPT !.size_ = 0]
           len == Len(data)
<1>1. len \in Nat /\ k \in Nat /\ b \in Members
  BY LenProperties, BufferFacts
\* The buffer whose size is set to zero before data is written.
<1>2. ASSUME Holds(b, c)
      PROVE  Holds(b0, <<>>) /\ Clean(b0, k) /\ b0.size_ = 0
  <2>1. Clean(b, k)
    BY BufferFacts
  <2>2. /\ b0 \in Members /\ b0.size_ = 0 /\ b0.capacity_ = b.capacity_
        /\ b0.data_ = b.data_
    BY <1>1 DEF Members
  <2> HIDE DEF b, b0, k
  <2> QED
    BY <1>1, <1>2, <2>1, <2>2, CellFacts DEF Holds, Clean, Members
<1>3. <<>> \o data = data
  BY ConcatEmptySeq
<1>4. \A m \in Nat : 0 + m = m
  OBVIOUS
<1>5. /\ Buffers!Larger(k, len) \in Nat
      /\ Buffers!Larger(k, len) <= k \/ Buffers!Larger(k, len) <= len
  BY <1>1 DEF Buffers!Larger
<1>6. /\ Buffers!Larger(k, k + len) = k + len
      /\ Buffers!Larger(0, len) = len
  BY <1>1 DEF Buffers!Larger
<1>a. CASE Buffers!AppendData(o, data)
  <2> DEFINE a == Buffers!Appended(b, data)
  <2>1. ASSUME Holds(b, c) PROVE Holds(a, c \o data) /\ Clean(a, a.size_)
    <3>1. Clean(b, k)
      BY BufferFacts
    <3> HIDE DEF len
    <3> QED
      BY <1>1, <1>6, <2>1, <3>1, AppendedHolds DEF len
  <2> HIDE DEF a, b, c
  <2>2. Buffers!Become(o, a, c \o data)
    BY <1>a DEF Buffers!AppendData, a, b, c
  <2> QED
    BY <2>1, <2>2, CheckedStep DEF b, c
<1>b. CASE Buffers!SetData(o, data)
  <2> DEFINE a == Buffers!Appended(b0, data)
             z == Buffers!ZeroShrunk(a, k)
  <2>1. ASSUME Holds(b, c) PROVE Holds(z, data) /\ Clean(z, z.size_)
    <3>1. Holds(b0, <<>>) /\ Clean(b0, k) /\ b0.size_ = 0
      BY <1>2, <2>1
    <3>2. /\ Holds(a, <<>> \o data)
          /\ Clean(a, Buffers!Larger(k, b0.size_ + len))
          /\ a.size_ = b0.size_ + len
      <4> HIDE DEF b0, k
      <4> QED
        BY <1>1, <3>1, AppendedHolds
    <3>3. /\ Holds(a, data) /\ Clean(a, Buffers!Larger(k, len))
          /\ a.size_ = len
      BY <1>1, <1>3, <1>4, <3>1, <3>2
    <3> HIDE DEF a, k, len
    <3> QED
      BY <1>1, <1>5, <3>3, ShrunkHolds
  <2> HIDE DEF z, b, c
  <2>2. Buffers!Become(o, z, data)
    BY <1>b DEF Buffers!SetData, z, b
  <2> QED
    BY <2>1, <2>2, CheckedStep DEF b, c
<1>c. CASE Buffers!AppendDataBySetter(o, n, data)
  <2> DEFINE a == Buffers!AppendedBy(b, n, data)
  <2>1. Len(data) <= n
    BY <1>c DEF Buffers!AppendDataBySetter
  <2>2. ASSUME Holds(b, c) PROVE Holds(a, c \o data) /\ Clean(a, a.size_)
    <3>1. Clean(b, k)
      BY BufferFacts
    <3> HIDE DEF len
    <3> QED
      BY <1>1, <1>6, <2>1, <2>2, <3>1, AppendedByHolds DEF len
  <2> HIDE DEF a, b, c
  <2>3. Buffers!Become(o, a, c \o data)
    BY <1>c DEF Buffers!AppendDataBySetter, a, b, c
  <2> QED
    BY <2>2, <2>3, CheckedStep DEF b, c
<1>d. CASE Buffers!SetDataBySetter(o, n, data)
  <2> DEFINE a == Buffers!AppendedBy(b0, n, data)
             z == Buffers!ZeroShrunk(a, k)
  <2>1. Len(data) <= n
    BY <1>d DEF Buffers!SetDataBySetter
  <2>2. ASSUME Holds(b, c) PROVE Holds(z, data) /\ Clean(z, z.size_)
    <3>1. Holds(b0, <<>>) /\ Clean(b0, k) /\ b0.size_ = 0
      BY <1>2, <2>2
    <3>2. /\ Holds(a, <<>> \o data)
          /\ Clean(a, Buffers!Larger(k, b0.size_ + len))
          /\ a.size_ = b0.size_ + len
      <4> HIDE DEF b0, k
      <4> QED
        BY <1>1, <2>1, <3>1, AppendedByHolds
    <3>3. /\ Holds(a, data) /\ Clean(a, Buffers!Larger(k, len))
          /\ a.size_ = len
      BY <1>1, <1>3, <1>4, <3>1, <3>2
    <3> HIDE DEF a, k, len
    <3> QED
      BY <1>1, <1>5, <3>3, ShrunkHolds
  <2> HIDE DEF z, b, c
  <2>3. Buffers!Become(o, z, data)
    BY <1>d DEF Buffers!SetDataBySetter, z, b
  <2> QED
    BY <2>2, <2>3, CheckedStep DEF b, c
<1>e. CASE Buffers!ReconstructFrom(o, data, n)
  <2> DEFINE m == Buffers!Larger(len, n)
             x == Buffers!Constructed(0, m)
             a == Buffers!Appended(x, data)
  <2>1. m \in Nat
    BY <1>1, FreshFacts
  <2>2. Buffers!Fresh(0) = <<>>
    BY FreshFacts, EmptySeq
  <2>3. Holds(x, <<>>) /\ x.size_ = 0 /\ Clean(x, 0)
    <3> HIDE DEF m
    <3>1. 0 \in Nat /\ 0 \in Int
      OBVIOUS
    <3> QED
      BY <2>1, <2>2, <3>1, ConstructedHolds
  <2>4. /\ Holds(a, <<>> \o data)
        /\ Clean(a, Buffers!Larger(0, x.size_ + len))
        /\ a.size_ = x.size_ + len
    <3> HIDE DEF x
    <3>1. 0 \in Nat
      OBVIOUS
    <3> QED
      BY <2>3, <3>1, AppendedHolds
  <2>5. Holds(a, data) /\ Clean(a, a.size_)
    BY <1>1, <1>3, <1>4, <1>6, <2>3, <2>4
  <2> HIDE DEF a
  <2>6. NothingLeft(Buffers!Released(b))
    BY BufferFacts
  <2>7. /\ bufs' = [bufs EXCEPT ![o] = a]
        /\ content' = [content EXCEPT ![o] = data]
        /\ left' = left \cup Buffers!Released(b)
    BY <1>e DEF Buffers!ReconstructFrom, a
  <2> QED
    BY <2>5, <2>6, <2>7, BecomeStep
<1> QED
  BY <1>a, <1>b, <1>c, <1>d, <1>e

\* Methods that change the size or the capacity keep the invariant.
LEMMA SizeSteps ==
  ASSUME BuffersInv, NEW o \in BufferObjects, NEW n \in Nat, NEW m \in Nat,
         \/ Buffers!SetSize(o, n)
         \/ Buffers!EnsureCapacity(o, n)
         \/ Buffers!Reconstruct(o, n, m)
         \/ Buffers!Clear(o)
  PROVE  BuffersInv'
<1> DEFINE b == bufs[o]
           c == content[o]
<1>1. /\ b \in Members /\ b.size_ \in Nat /\ Clean(b, b.size_)
      /\ Len(b.data_) = b.capacity_
      /\ NothingLeft(Buffers!Released(b))
  BY BufferFacts
<1>a. CASE Buffers!SetSize(o, n)
  <2> DEFINE r == Buffers!Resized(b, n)
  <2>1. ASSUME Holds(b, c) PROVE Holds(r, Cut(c, n)) /\ Clean(r, r.size_)
    BY <1>1, <2>1, ResizedHolds
  <2> HIDE DEF r
  <2>2. Buffers!Become(o, r, Cut(c, n))
    BY <1>a DEF Buffers!SetSize, r, Cut
  <2> QED
    BY <2>1, <2>2, CheckedStep
<1>b. CASE Buffers!EnsureCapacity(o, n)
  <2> DEFINE e == Buffers!EnsureCapacityWithHeadroom(b, n, FALSE)
  <2>1. ASSUME Holds(b, c) PROVE Holds(e, c) /\ Clean(e, e.size_)
    <3>1. /\ Holds(e, c) /\ Clean(e, b.size_) /\ e.size_ = b.size_
      BY <1>1, <2>1, EnsuredHolds
    <3> QED
      BY <3>1
  <2> HIDE DEF e
  <2>2. Buffers!Become(o, e, c)
    BY <1>b DEF Buffers!EnsureCapacity, e
  <2> QED
    BY <2>1, <2>2, CheckedStep
<1>c. CASE Buffers!Reconstruct(o, n, m)
  <2> DEFINE x == Buffers!Constructed(n, m)
  <2>1. Holds(x, Buffers!Fresh(n)) /\ Clean(x, x.size_)
    <3>1. Holds(x, Buffers!Fresh(n)) /\ x.size_ = n /\ Clean(x, n)
      BY ConstructedHolds
    <3> QED
      BY <3>1
  <2> HIDE DEF x
  <2>2. /\ bufs' = [bufs EXCEPT ![o] = x]
        /\ content' = [content EXCEPT ![o] = Buffers!Fresh(n)]
        /\ left' = left \cup Buffers!Released(b)
    BY <1>c DEF Buffers!Reconstruct, x
  <2> QED
    BY <1>1, <2>1, <2>2, BecomeStep
<1>d. CASE Buffers!Clear(o)
  <2> DEFINE a == [Buffers!MaybeZeroCompleteBuffer(b) EXCEPT !.size_ = 0]
  <2>1. Holds(a, <<>>) /\ Clean(a, a.size_)
    BY <1>1, ClearedHolds
  <2>2. /\ bufs' = [bufs EXCEPT ![o] = a]
        /\ content' = [content EXCEPT ![o] = <<>>]
        /\ left' = left \cup {}
    BY <1>d DEF Buffers!Clear, BuffersInv
  <2>3. NothingLeft({})
    BY DEF NothingLeft
  <2> HIDE DEF a
  <2> QED
    BY <2>1, <2>2, <2>3, BecomeStep
<1> QED
  BY <1>a, <1>b, <1>c, <1>d

\* Methods of two buffers keep the invariant.
LEMMA PairSteps ==
  ASSUME BuffersInv, NEW o \in BufferObjects, NEW p \in BufferObjects,
         \/ Buffers!AppendBuffer(o, p)
         \/ Buffers!SwapBuffers(o, p)
         \/ Buffers!MoveAssign(o, p)
  PROVE  BuffersInv'
<1>1. /\ bufs \in [BufferObjects -> Members]
      /\ content \in [BufferObjects -> Seq(Cells)]
      /\ \A q \in BufferObjects :
           /\ Holds(bufs[q], content[q]) \/ WasMoved(bufs[q], content[q])
           /\ Clean(bufs[q], bufs[q].size_)
      /\ NothingLeft(left)
  BY DEF BuffersInv
\* The invariant of the next state, with its parts spelled out.
<1>2. ASSUME bufs' \in [BufferObjects -> Members],
             content' \in [BufferObjects -> Seq(Cells)],
             NothingLeft(left'),
             \A q \in BufferObjects :
               /\ Holds(bufs'[q], content'[q])
                    \/ WasMoved(bufs'[q], content'[q])
               /\ Clean(bufs'[q], bufs'[q].size_)
      PROVE  BuffersInv'
  BY <1>2 DEF BuffersInv, Holds, WasMoved, Clean, NothingLeft, Members, Cells
<1>a. CASE Buffers!AppendBuffer(o, p)
  <2> DEFINE data == SubSeq(bufs[p].data_, 1, bufs[p].size_)
  <2>1. data \in Seq(Cells)
    <3>1. Holds(bufs[p], content[p])
      BY <1>a, BufferFacts DEF Buffers!AppendBuffer
    <3>2. /\ bufs[p].size_ \in Nat /\ bufs[p].data_ \in Seq(Cells)
          /\ bufs[p].size_ <= Len(bufs[p].data_)
      BY <3>1 DEF Holds, Members
    <3>3. \A i \in 1 .. bufs[p].size_ : bufs[p].data_[i] \in Cells
      BY <3>2, ElementOfSeq
    <3>4. 1 \in Int /\ bufs[p].size_ \in Int
      BY <3>2
    <3> QED
      BY <3>3, <3>4, SubSeqProperties
  <2>2. Buffers!AppendData(o, data)
    BY <1>a DEF Buffers!AppendBuffer
  <2> HIDE DEF data
  <2>3. 0 \in Nat
    OBVIOUS
  <2> QED
    BY <2>1, <2>2, <2>3, DataSteps
<1>b. CASE Buffers!SwapBuffers(o, p)
  <2>1. /\ bufs' = [[bufs EXCEPT ![o] = bufs[p]] EXCEPT ![p] = bufs[o]]
        /\ content' = [[content EXCEPT ![o] = content[p]] EXCEPT
                         ![p] = content[o]]
        /\ left' = left
    BY <1>b DEF Buffers!SwapBuffers
  <2>2. /\ bufs' \in [BufferObjects -> Members]
        /\ content' \in [BufferObjects -> Seq(Cells)]
        /\ NothingLeft(left')
    BY <1>1, <2>1
  <2>3. ASSUME NEW q \in BufferObjects
        PROVE  \E r \in BufferObjects :
                 bufs'[q] = bufs[r] /\ content'[q] = content[r]
    BY <1>1, <2>1
  <2> QED
    BY <1>1, <1>2, <2>2, <2>3
<1>c. CASE Buffers!MoveAssign(o, p)
  <2> DEFINE x == Buffers!OnMovedFrom(bufs[p])
  <2>1. /\ x \in Members /\ x.data_ = <<>> /\ x.capacity_ = 0
        /\ x.size_ \in {0, 1}
    BY CellFacts DEF Buffers!OnMovedFrom, Buffers!Null, Members
  <2>2. Holds(x, <<>>) \/ WasMoved(x, <<>>)
    BY <2>1, CellFacts DEF Holds, WasMoved
  <2>3. Clean(x, x.size_)
    BY <2>1, CellFacts DEF Clean
  <2>4. /\ bufs' = [[bufs EXCEPT ![o] = bufs[p]] EXCEPT ![p] = x]
        /\ content' = [[content EXCEPT ![o] = content[p]] EXCEPT ![p] = <<>>]
        /\ left' = left \cup Buffers!Released(bufs[o])
    BY <1>c DEF Buffers!MoveAssign
  <2> HIDE DEF x
  <2>5. /\ bufs' \in [BufferObjects -> Members]
        /\ content' \in [BufferObjects -> Seq(Cells)]
    BY <1>1, <2>1, <2>4, CellFacts
  <2>6. NothingLeft(left')
    BY <1>1, <2>4, BufferFacts DEF NothingLeft
  <2>7. ASSUME NEW q \in BufferObjects
        PROVE  /\ Holds(bufs'[q], content'[q])
                    \/ WasMoved(bufs'[q], content'[q])
               /\ Clean(bufs'[q], bufs'[q].size_)
    <3>1. CASE q = p
      <4>1. bufs'[q] = x /\ content'[q] = <<>>
        BY <1>1, <2>4, <3>1
      <4> QED
        BY <2>2, <2>3, <4>1
    <3>2. CASE q # p
      <4>1. \E r \in BufferObjects :
              bufs'[q] = bufs[r] /\ content'[q] = content[r]
        BY <1>1, <2>4, <3>2
      <4> QED
        BY <1>1, <4>1
    <3> QED
      BY <3>1, <3>2
  <2> QED
    BY <1>2, <2>5, <2>6, <2>7
<1> QED
  BY <1>a, <1>b, <1>c

\* The invariant holds at first and every step keeps it.
LEMMA BuffersInvInductive == Buffers!Spec => []BuffersInv
<1>1. Buffers!Init => BuffersInv
  <2> SUFFICES ASSUME Buffers!Init PROVE BuffersInv
    OBVIOUS
  <2> DEFINE x == Buffers!Constructed(0, 0)
  <2>1. Buffers!Fresh(0) = <<>>
    BY FreshFacts, EmptySeq
  <2>2. Holds(x, <<>>) /\ x.size_ = 0 /\ Clean(x, 0)
    <3>1. 0 \in Nat /\ 0 \in Int
      OBVIOUS
    <3> QED
      BY <2>1, <3>1, ConstructedHolds
  <2> HIDE DEF x
  <2>3. x \in Members /\ <<>> \in Seq(Cells)
    BY <2>2 DEF Holds
  <2>4. /\ bufs = [o \in BufferObjects |-> x]
        /\ content = [o \in BufferObjects |-> <<>>] /\ left = {}
    BY DEF Buffers!Init, x
  <2> QED
    BY <2>2, <2>3, <2>4 DEF BuffersInv, NothingLeft
<1>2. BuffersInv /\ [Buffers!Next]_(Buffers!vars) => BuffersInv'
  <2> SUFFICES ASSUME BuffersInv, [Buffers!Next]_(Buffers!vars)
               PROVE  BuffersInv'
    OBVIOUS
  <2>1. CASE UNCHANGED Buffers!vars
    BY <2>1 DEF BuffersInv, Buffers!vars, Holds, WasMoved, Clean,
                NothingLeft, Members, Cells
  <2>2. CASE Buffers!Next
    <3>1. PICK o \in BufferObjects :
            \/ \E data \in Buffers!Data :
                 \/ Buffers!AppendData(o, data)
                 \/ Buffers!SetData(o, data)
                 \/ \E n \in 0..MaxSize :
                      \/ Buffers!AppendDataBySetter(o, n, data)
                      \/ Buffers!SetDataBySetter(o, n, data)
                      \/ Buffers!ReconstructFrom(o, data, n)
            \/ \E n \in 0..MaxSize : \/ Buffers!SetSize(o, n)
                                     \/ Buffers!EnsureCapacity(o, n)
                                     \/ Buffers!Reconstruct(o, n, MaxSize)
            \/ Buffers!Clear(o)
            \/ \E p \in BufferObjects : \/ Buffers!AppendBuffer(o, p)
                                        \/ Buffers!SwapBuffers(o, p)
                                        \/ Buffers!MoveAssign(o, p)
      BY <2>2, Zenon DEF Buffers!Next
    <3>2. /\ MaxSize \in Nat /\ 0 \in Nat
          /\ \A n \in 0..MaxSize : n \in Nat
      BY StorageAssumption DEF Buffers!BufferAssumption
    <3>3. \A data \in Buffers!Data : data \in Seq(Cells)
      BY CellFacts
    <3> QED
      BY <3>1, <3>2, <3>3, DataSteps, SizeSteps, PairSteps
  <2> QED
    BY <2>1, <2>2
<1> QED
  BY <1>1, <1>2, PTL DEF Buffers!Spec

\* A buffer holds what it was filled with, and with ZeroOnFree no element
\* stays behind, for any buffers, elements and sizes.
THEOREM BuffersHoldAndClean == StorageSpec => []BuffersKeep
<1>1. BuffersInv => BuffersKeep
  <2> SUFFICES ASSUME BuffersInv PROVE BuffersKeep
    OBVIOUS
  <2>1. Buffers!TypeOK
    <3>1. ASSUME NEW o \in BufferObjects
          PROVE  /\ bufs[o].size_ \in Nat
                 /\ Len(bufs[o].data_) = bufs[o].capacity_
                 /\ Buffers!Range(bufs[o].data_) \subseteq Cells
      <4>1. /\ bufs[o] \in Members /\ bufs[o].size_ \in Nat
            /\ Len(bufs[o].data_) = bufs[o].capacity_
        BY BufferFacts
      <4>2. \A i \in DOMAIN bufs[o].data_ : bufs[o].data_[i] \in Cells
        BY <4>1, LenProperties DEF Members
      <4> QED
        BY <4>1, <4>2 DEF Buffers!Range
    <3>2. left \subseteq Cells
      BY DEF BuffersInv, NothingLeft
    <3> QED
      BY <3>1, <3>2 DEF Buffers!TypeOK, Cells
  <2>2. Buffers!HoldsItsContent
    <3>1. ASSUME NEW o \in BufferObjects
          PROVE  Holds(bufs[o], content[o]) \/ WasMoved(bufs[o], content[o])
      BY DEF BuffersInv
    <3> QED
      BY <3>1, ConsistentTells DEF Buffers!HoldsItsContent, Holds, WasMoved
  <2>3. Buffers!NothingStaysBehind
    <3>1. ASSUME NEW o \in BufferObjects, ZeroOnFree,
                 NEW i \in DOMAIN bufs[o].data_, i > bufs[o].size_
          PROVE  bufs[o].data_[i] \notin Elements
      <4>1. bufs[o] \in Members /\ Clean(bufs[o], bufs[o].size_)
        BY BufferFacts
      <4>2. DOMAIN bufs[o].data_ = 1 .. Len(bufs[o].data_)
        BY <4>1, LenProperties DEF Members
      <4> QED
        BY <3>1, <4>1, <4>2 DEF Clean
    <3>2. ZeroOnFree => left \cap Elements = {}
      BY DEF BuffersInv, NothingLeft
    <3> QED
      BY <3>1, <3>2 DEF Buffers!NothingStaysBehind
  <2> QED
    BY <2>1, <2>2, <2>3 DEF BuffersKeep
<1> QED
  BY <1>1, ComponentsRun, BuffersInvInductive, PTL

=============================================================================
