------------------------------- MODULE RefCount --------------------------------
(***************************************************************************)
(* Reference counting: RefCounter (src/ref_counter.h), RefCountedObject    *)
(* (src/ref_counted_object.h) and scoped_refptr (src/scoped_refptr.h).     *)
(* The counter is atomic, a smart pointer is not: it belongs to a thread,  *)
(* which hands references to others by moving them.  A call is split where *)
(* it touches the counter and where it deletes the object.                 *)
(***************************************************************************)
EXTENDS Integers, FiniteSets

CONSTANTS
  Threads,
  Slots,    \* the scoped_refptr of a thread
  Objects,
  nullptr

Pointers == Threads \X Slots
Of(t) == {t} \X Slots
Refs == Objects \cup {nullptr}

VARIABLES
  ptr_,       \* per scoped_refptr
  raw,        \* per thread: a reference it got from release()
  ref_count_, \* per object
  life,       \* "unborn", "live" or "deleted"
  call        \* per thread: what is left of the call it is in

vars == <<ptr_, raw, ref_count_, life, call>>

\* The call releases old, then stores val in into.
Idle == [step |-> "idle", old |-> nullptr, into |-> nullptr, val |-> nullptr]
Releasing(old, into, val) ==
  [step |-> IF old = nullptr THEN "store" ELSE "release",
   old |-> old, into |-> into, val |-> val]

AtRest(t) == call[t].step = "idle"
Begin(t, c) == AtRest(t) /\ call' = [call EXCEPT ![t] = c]

-----------------------------------------------------------------------------
(* The counter.                                                            *)

IncRef(o) ==
  ref_count_' = IF o = nullptr THEN ref_count_
                ELSE [ref_count_ EXCEPT ![o] = @ + 1]

\* Release: fetch_sub, whose result decides.
DecRef(t) ==
  LET o == call[t].old
      after_subtract == ref_count_[o] - 1
  IN /\ call[t].step = "release"
     /\ ref_count_' = [ref_count_ EXCEPT ![o] = after_subtract]
     /\ call' = [call EXCEPT
          ![t].step = IF after_subtract = 0 THEN "delete" ELSE "store"]
     /\ UNCHANGED <<ptr_, raw, life>>

\* delete this.  A second one would be of an object that is not live.
DeleteThis(t) ==
  /\ call[t].step = "delete"
  /\ life' = [life EXCEPT
       ![call[t].old] = IF @ = "live" THEN "deleted" ELSE "twice"]
  /\ call' = [call EXCEPT ![t].step = "store"]
  /\ UNCHANGED <<ptr_, raw, ref_count_>>

Store(t) ==
  /\ call[t].step = "store"
  /\ ptr_' = IF call[t].into = nullptr THEN ptr_
             ELSE [ptr_ EXCEPT ![call[t].into] = call[t].val]
  /\ call' = [call EXCEPT ![t] = Idle]
  /\ UNCHANGED <<raw, ref_count_, life>>

-----------------------------------------------------------------------------
(* scoped_refptr.  A pointer that is out of scope is null.                 *)

\* scoped_refptr(new T): the count of the new object goes from 0 to 1.
ConstructNew(t, p, o) ==
  /\ AtRest(t) /\ ptr_[p] = nullptr /\ life[o] = "unborn"
  /\ life' = [life EXCEPT ![o] = "live"]
  /\ ptr_' = [ptr_ EXCEPT ![p] = o]
  /\ IncRef(o)
  /\ UNCHANGED <<raw, call>>

CopyConstruct(t, p, q) ==
  /\ AtRest(t) /\ ptr_[p] = nullptr
  /\ ptr_' = [ptr_ EXCEPT ![p] = ptr_[q]]
  /\ IncRef(ptr_[q])
  /\ UNCHANGED <<raw, life, call>>

\* The destructor.
Destroy(t, p) ==
  /\ ptr_[p] # nullptr
  /\ Begin(t, Releasing(ptr_[p], p, nullptr))
  /\ UNCHANGED <<ptr_, raw, ref_count_, life>>

\* Mutant: an assignment to itself adds no reference.
AssignToOther(t, p, v) ==
  /\ IncRef(IF v = ptr_[p] THEN nullptr ELSE v)
  /\ Begin(t, Releasing(ptr_[p], p, v))
  /\ UNCHANGED <<ptr_, raw, life>>

\* operator=(T*), also of the copy assignments: AddRef first.
Assign(t, p, v) ==
  /\ IncRef(v)
  /\ Begin(t, Releasing(ptr_[p], p, v))
  /\ UNCHANGED <<ptr_, raw, life>>

\* A temporary takes the reference of q and is swapped with p, which releases
\* what p had; p may be q.
MoveAssign(t, p, q) ==
  /\ ptr_' = [[ptr_ EXCEPT ![q] = nullptr] EXCEPT ![p] = ptr_[q]]
  /\ Begin(t, Releasing(IF p = q THEN nullptr ELSE ptr_[p], nullptr, nullptr))
  /\ UNCHANGED <<raw, ref_count_, life>>

\* The move constructor, in this thread or for another one that has a pointer
\* to construct: a reference is handed over.
MoveConstruct(t, p, q) ==
  /\ AtRest(t) /\ AtRest(q[1]) /\ ptr_[q] = nullptr
  /\ ptr_' = [ptr_ EXCEPT ![p] = nullptr, ![q] = ptr_[p]]
  /\ UNCHANGED <<raw, ref_count_, life, call>>

SwapPointers(t, p, q) ==
  /\ AtRest(t)
  /\ ptr_' = [ptr_ EXCEPT ![p] = ptr_[q], ![q] = ptr_[p]]
  /\ UNCHANGED <<raw, ref_count_, life, call>>

\* release(): the caller owns the reference ...
ReleasePointer(t, p) ==
  /\ AtRest(t) /\ raw[t] = nullptr
  /\ raw' = [raw EXCEPT ![t] = ptr_[p]]
  /\ ptr_' = [ptr_ EXCEPT ![p] = nullptr]
  /\ UNCHANGED <<ref_count_, life, call>>

\* ... and calls Release() once.
ReleaseRaw(t) ==
  /\ raw[t] # nullptr
  /\ Begin(t, Releasing(raw[t], nullptr, nullptr))
  /\ raw' = [raw EXCEPT ![t] = nullptr]
  /\ UNCHANGED <<ptr_, ref_count_, life>>

HasOneRef(o) == ref_count_[o] = 1

Init ==
  /\ ptr_ = [p \in Pointers |-> nullptr]
  /\ raw = [t \in Threads |-> nullptr]
  /\ ref_count_ = [o \in Objects |-> 0]
  /\ life = [o \in Objects |-> "unborn"]
  /\ call = [t \in Threads |-> Idle]

Next == \E t \in Threads :
  \/ DecRef(t) \/ DeleteThis(t) \/ Store(t) \/ ReleaseRaw(t)
  \/ \E p \in Of(t) :
       \/ Destroy(t, p) \/ ReleasePointer(t, p) \/ Assign(t, p, nullptr)
       \/ \E o \in Objects : ConstructNew(t, p, o)
       \/ \E q \in Of(t) : \/ CopyConstruct(t, p, q) \/ SwapPointers(t, p, q)
                           \/ Assign(t, p, ptr_[q]) \/ MoveAssign(t, p, q)
       \/ \E q \in Pointers : MoveConstruct(t, p, q)

Spec == Init /\ [][Next]_vars

-----------------------------------------------------------------------------
(* Properties.                                                             *)

TypeOK ==
  /\ ptr_ \in [Pointers -> Refs]
  /\ raw \in [Threads -> Refs]
  /\ ref_count_ \in [Objects -> Int]
  /\ life \in [Objects -> {"unborn", "live", "deleted", "twice"}]

\* The references to o that are counted: a pointer whose call has released
\* its object, and not yet stored, no longer refers to it.
Stale(p) == call[p[1]].into = p /\ call[p[1]].step \in {"delete", "store"}
Pointing(o) == {p \in Pointers : ptr_[p] = o /\ ~Stale(p)}
InCall(t, o) ==
  (IF call[t].val = o THEN 1 ELSE 0)
  + (IF /\ call[t].step = "release" /\ call[t].old = o
        /\ call[t].into = nullptr THEN 1 ELSE 0)
Owned(t, o) ==
  Cardinality(Pointing(o) \cap Of(t)) + InCall(t, o)
  + (IF raw[t] = o THEN 1 ELSE 0)

Owners(o) == {t \in Threads : Owned(t, o) > 0}

OwnersCounted(o) ==
  \A t \in Owners(o) : life[o] = "live" /\ ref_count_[o] >= Owned(t, o)
AloneWithOne(o) == HasOneRef(o) => Cardinality(Owners(o)) <= 1
NoneLeaked(o) ==
  life[o] = "live" => \E t \in Threads : Owned(t, o) > 0 \/ call[t].old = o

\* The count follows the references in every state, whatever the threads do
\* at once: nobody refers to an object that is deleted, none is deleted
\* twice, one without references is deleted by the time its last owner is at
\* rest, and a thread that owns a reference and sees HasOneRef is alone with
\* the object (ref_counter.h:25-66, scoped_refptr.h:120-148).
CountIsReferences ==
  \A o \in Objects :
    life[o] # "twice" /\ OwnersCounted(o) /\ AloneWithOne(o) /\ NoneLeaked(o)

===============================================================================
