----------------------------- MODULE OptionalValue -----------------------------
(***************************************************************************)
(* Optional<T> (src/features/optional.h): a flag and raw storage in which  *)
(* a T is constructed and destroyed by hand.  The lifetime of the T, and   *)
(* the poisoning that tells a sanitizer when the storage may be touched,   *)
(* are part of the state; touching the storage at a wrong time is a fault. *)
(***************************************************************************)
EXTENDS Integers

CONSTANTS
  Objects,  \* the optionals
  Values    \* the values of T

\* What the constants have to satisfy; the instances assume it.
OptionalAssumption == Values \subseteq Nat \ {0}

VARIABLES
  opts,  \* the members of each object
  holds  \* history: what the object was given last

vars == <<opts, holds>>

Raw == 0      \* storage without a T
Moved == -1   \* a T whose value was moved away: any value
None == 0     \* nullopt

NewStorage == [has_value_ |-> FALSE, value_ |-> Raw, poisoned |-> FALSE,
               fault |-> FALSE]

-----------------------------------------------------------------------------
(* What is done to the storage                                             *)

PoisonValue(m) == [m EXCEPT !.poisoned = TRUE]
UnpoisonValue(m) == [m EXCEPT !.poisoned = FALSE]

\* new (&value_) T(v), value_.~T() and value_ = v.
Construct(m, v) ==
  [m EXCEPT !.value_ = v, !.fault = @ \/ m.poisoned \/ m.value_ # Raw]
DestroyT(m) ==
  [m EXCEPT !.value_ = Raw, !.fault = @ \/ m.poisoned \/ m.value_ = Raw]
AssignT(m, v) ==
  [m EXCEPT !.value_ = v, !.fault = @ \/ m.poisoned \/ m.value_ = Raw]

SetHas(m, has) == [m EXCEPT !.has_value_ = has]

\* The value is moved out of an optional that has one.
MovedFrom(m) == IF m.has_value_ THEN AssignT(m, Moved) ELSE m

-----------------------------------------------------------------------------
(* The methods                                                             *)

Empty == PoisonValue(NewStorage)
WithValue(v) == Construct(SetHas(NewStorage, TRUE), v)

\* The copy and the move constructor.
CopyOf(m) == IF m.has_value_ THEN WithValue(m.value_) ELSE Empty

Destructor(m) == IF m.has_value_ THEN DestroyT(m) ELSE UnpoisonValue(m)

\* Mutant: the value is left to live on in an optional without one.
ResetFlagOnly(m) ==
  IF ~m.has_value_ THEN m ELSE PoisonValue(SetHas(m, FALSE))

Reset(m) ==
  IF ~m.has_value_ THEN m ELSE PoisonValue(SetHas(DestroyT(m), FALSE))

\* Assignment from another optional, by copy or by move.
Assigned(m, other) ==
  IF ~other.has_value_ THEN Reset(m)
  ELSE IF m.has_value_ THEN AssignT(m, other.value_)
  ELSE SetHas(Construct(UnpoisonValue(m), other.value_), TRUE)

Emplaced(m, v) ==
  SetHas(Construct(IF m.has_value_ THEN DestroyT(m) ELSE UnpoisonValue(m), v),
         TRUE)

\* One side of swap: what m becomes, the other being m2.
Swapped(m, m2) ==
  CASE m.has_value_ /\ m2.has_value_ -> AssignT(m, m2.value_)
    [] m.has_value_ /\ ~m2.has_value_ ->
         PoisonValue(SetHas(DestroyT(AssignT(m, Moved)), FALSE))
    [] ~m.has_value_ /\ m2.has_value_ ->
         SetHas(Construct(UnpoisonValue(m), m2.value_), TRUE)
    [] OTHER -> m

ValueOr(m, default_val) == IF m.has_value_ THEN m.value_ ELSE default_val

Equal(m1, m2) ==
  IF m1.has_value_ /\ m2.has_value_ THEN m1.value_ = m2.value_
  ELSE m1.has_value_ = m2.has_value_
NotEqual(m1, m2) ==
  IF m1.has_value_ /\ m2.has_value_ THEN m1.value_ # m2.value_
  ELSE m1.has_value_ # m2.has_value_
EqualsValue(m, v) == m.has_value_ /\ m.value_ = v
DiffersFromValue(m, v) == ~m.has_value_ \/ m.value_ # v

-----------------------------------------------------------------------------
(* Calls                                                                   *)

Init ==
  /\ opts = [o \in Objects |-> Empty]
  /\ holds = [o \in Objects |-> None]

Become(o, m, h) ==
  /\ opts' = [opts EXCEPT ![o] = m]
  /\ holds' = [holds EXCEPT ![o] = h]

\* A step on o that also moves the value out of p; they may be the same.
TakeFrom(o, p, m) ==
  /\ opts' = [opts EXCEPT ![o] = m, ![p] = MovedFrom(IF o = p THEN m ELSE @)]
  /\ holds' = [holds EXCEPT ![o] = holds[p],
                            ![p] = IF holds[p] = None THEN None ELSE Moved]

\* The object is destroyed and another one constructed in its place, whose
\* faults are added to those of the first.
Again(o, m) == [m EXCEPT !.fault = @ \/ Destructor(opts[o]).fault]

ConstructEmpty(o) == Become(o, Again(o, Empty), None)
ConstructFrom(o, v) == Become(o, Again(o, WithValue(v)), v)
CopyConstruct(o, p) ==
  o # p /\ Become(o, Again(o, CopyOf(opts[p])), holds[p])
MoveConstruct(o, p) ==
  o # p /\ TakeFrom(o, p, Again(o, CopyOf(opts[p])))

CopyAssign(o, p) == Become(o, Assigned(opts[o], opts[p]), holds[p])
MoveAssign(o, p) == TakeFrom(o, p, Assigned(opts[o], opts[p]))
AssignNullopt(o) == Become(o, Reset(opts[o]), None)
Emplace(o, v) == Become(o, Emplaced(opts[o], v), v)

\* Only allowed when there is a value.
MoveValue(o) ==
  opts[o].has_value_ /\ Become(o, MovedFrom(opts[o]), Moved)
AssignThrough(o, v) ==
  opts[o].has_value_ /\ Become(o, AssignT(opts[o], v), v)

SwapOptionals(o, p) ==
  /\ opts' = [opts EXCEPT ![o] = Swapped(opts[o], opts[p]),
                          ![p] = Swapped(opts[p], opts[o])]
  /\ holds' = [holds EXCEPT ![o] = holds[p], ![p] = holds[o]]

Next ==
  \E o \in Objects :
    \/ ConstructEmpty(o) \/ AssignNullopt(o) \/ MoveValue(o)
    \/ \E v \in Values : ConstructFrom(o, v) \/ Emplace(o, v)
                           \/ AssignThrough(o, v)
    \/ \E p \in Objects : \/ CopyConstruct(o, p) \/ MoveConstruct(o, p)
                          \/ CopyAssign(o, p) \/ MoveAssign(o, p)
                          \/ SwapOptionals(o, p)

Spec == Init /\ [][Next]_vars

TypeOK ==
  /\ opts \in [Objects -> [has_value_: BOOLEAN,
                           value_: Values \cup {Raw, Moved},
                           poisoned: BOOLEAN, fault: BOOLEAN]]
  /\ holds \in [Objects -> Values \cup {None, Moved}]

-----------------------------------------------------------------------------

\* Whatever is assigned, moved, swapped and reset, an object is constructed
\* once and destroyed once, only storage in use is touched, has_value_ says
\* whether there is one, it is the one that was given last, and the
\* comparisons tell exactly the values apart (the assignments, swap, reset,
\* emplace, the destructor and the operators == and !=).
LivesOnce ==
  \A o \in Objects :
    LET m == opts[o]
    IN /\ ~m.fault
       /\ m.has_value_ <=> m.value_ # Raw
       /\ m.has_value_ <=> ~m.poisoned
       /\ m.value_ = holds[o]
       /\ ValueOr(m, None) = holds[o]
       /\ \A v \in Values : /\ EqualsValue(m, v) <=> holds[o] = v
                            /\ DiffersFromValue(m, v) <=> holds[o] # v
       /\ \A p \in Objects : /\ Equal(m, opts[p]) <=> holds[o] = holds[p]
                             /\ NotEqual(m, opts[p]) <=> holds[o] # holds[p]

=============================================================================
