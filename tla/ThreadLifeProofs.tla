--------------------------- MODULE ThreadLifeProofs ---------------------------
(***************************************************************************)
(* Theorems about ThreadLife, for any threads, objects and number of       *)
(* starts.                                                                 *)
(*                                                                         *)
(* What a reader of the code relies on, that an object which is not        *)
(* running has no thread and that nobody points to a deleted one, rests on *)
(* who may be in the middle of what: LifeInv says it for calls, objects,   *)
(* spawned threads and threads that are wrapped.                           *)
(***************************************************************************)
EXTENDS ThreadLife, TLAPS

\* A call is made by the builder of its object, which is live and not the one
\* the caller runs on; a spawned thread calls from a handler.
CallInv ==
  \A p \in OSThreads : step[p] # "idle" =>
    /\ on[p] \in Objects
    /\ mem[on[p]] = "live"
    /\ thread_checker_[on[p]] = p
    /\ current[p] # on[p]
    /\ p \in Workers => worker[p] = "run"
    /\ step[p] \in {"create", "created", "destroy"} => ~thread_ref_[on[p]]
    /\ step[p] \in {"create", "created"} => owned_[on[p]]
    /\ step[p] = "create" => starts[on[p]] < MaxStarts
    /\ step[p] = "joined" => thread_[on[p]] = None

\* Start has created the thread of o and not returned yet.
Starting(o) == \E p \in OSThreads : step[p] = "created" /\ on[p] = o

\* An object has a handle from the creation of its thread to the end of Join,
\* and none while it wraps a thread.
ObjectInv ==
  \A o \in Objects :
    /\ mem[o] # "live" => ~thread_ref_[o]
    /\ ~thread_ref_[o] /\ ~Starting(o) => thread_[o] = None
    /\ ~owned_[o] => thread_[o] = None
    /\ thread_[o] = None => spawned_thread_checker_[o] = None

\* A spawned thread is the one its object has a handle of, and has the object
\* as its current one while it may run handlers.
WorkerInv ==
  \A w \in Workers :
    /\ Alive(w) => thread_[Object(w)] = w
    /\ worker[w] = "created" => spawned_thread_checker_[Object(w)] = None
    /\ current[w] = IF worker[w] \in {"run", "ending"} THEN Object(w) ELSE None

\* A thread of the program has at most an object it wrapped itself.
ProgramInv ==
  \A p \in Programs : current[p] # None =>
    /\ mem[current[p]] = "live"
    /\ thread_checker_[current[p]] = p
    /\ thread_ref_[current[p]]
    /\ ~owned_[current[p]]

\* "This list contains all live Threads" (src/thread.h:116), and no others.
ListHoldsLive == message_queues_ = {o \in Objects : mem[o] = "live"}

LifeInv == CallInv /\ ObjectInv /\ WorkerInv /\ ProgramInv /\ ListHoldsLive

-----------------------------------------------------------------------------

\* The threads, their objects and None are what the assumption keeps apart.
LEMMA ThreadFacts ==
  /\ Workers \subseteq OSThreads /\ Programs \subseteq OSThreads
  /\ \A p \in OSThreads : p \in Programs \/ p \in Workers
  /\ Programs \cap Workers = {}
  /\ None \notin OSThreads /\ None \notin Objects
  /\ \A w \in Workers : Object(w) \in Objects
  /\ \A o \in Objects, n \in 1..MaxStarts :
       <<o, n>> \in Workers /\ Object(<<o, n>>) = o
  BY ThreadLifeAssumption DEF Workers, OSThreads, Object

\* The variables keep their types; the calls say on which object they are.
LEMMA TypeOKStep ==
  TypeOK /\ LifeInv /\ Next => TypeOK'
  <1> SUFFICES ASSUME TypeOK, LifeInv, Next PROVE TypeOK'
    OBVIOUS
  <1> USE ThreadLifeAssumption, ThreadFacts DEF TypeOK, LifeInv,
    CallInv,
    flags, platform, manager, calls, Free, Mine, Goto, Calling,
    Returns, Construct, WrapBy, UnwrapBy, Stopped, Alive
  <1>1. ASSUME NEW p \in OSThreads, NEW o \in Objects, Create(p, o)
       PROVE  TypeOK'
    BY <1>1 DEF Create
  <1>2. ASSUME NEW p \in OSThreads, NEW o \in Objects, StartBegin(p, o)
       PROVE  TypeOK'
    BY <1>2 DEF StartBegin
  <1>3. ASSUME NEW p \in OSThreads, StartThread(p)
       PROVE  TypeOK'
    BY <1>3 DEF StartThread
  <1>4. ASSUME NEW p \in OSThreads, StartEnd(p)
       PROVE  TypeOK'
    BY <1>4 DEF StartEnd
  <1>5. ASSUME NEW p \in OSThreads, NEW o \in Objects, Quit(p, o)
       PROVE  TypeOK'
    BY <1>5 DEF Quit
  <1>6. ASSUME NEW p \in OSThreads, NEW o \in Objects, Stop(p, o)
       PROVE  TypeOK'
    BY <1>6 DEF Stop
  <1>7. ASSUME NEW p \in OSThreads, NEW o \in Objects, Destroy(p, o)
       PROVE  TypeOK'
    BY <1>7 DEF Destroy
  <1>8. ASSUME NEW p \in OSThreads, StopQuit(p)
       PROVE  TypeOK'
    BY <1>8 DEF StopQuit
  <1>9. ASSUME NEW p \in OSThreads, JoinNot(p)
       PROVE  TypeOK'
    <2>1. p \in OSThreads /\ on[p] \in Objects /\ step[p] # "idle"
      BY <1>9 DEF JoinNot
    <2>2. CASE deleting[p]
      BY <1>9, <2>1, <2>2 DEF JoinNot
    <2>3. CASE ~deleting[p]
      <3>1. Returns(p)
        BY <1>9, <2>3 DEF JoinNot
      <3>2. /\ step' \in [OSThreads -> {"idle", "create", "created", "stop",
                                      "join", "wait", "joined", "destroy"}]
            /\ on' \in [OSThreads -> Objects \cup {None}]
            /\ deleting' \in [OSThreads -> BOOLEAN]
        BY <3>1
      <3>3. \A q \in OSThreads : /\ step'[q] = "idle" <=> on'[q] = None
                                 /\ deleting'[q] => on'[q] # None
        BY <3>1
      <3> QED
        BY <1>9, <3>2, <3>3 DEF JoinNot
    <2> QED
      BY <2>2, <2>3
  <1>10. ASSUME NEW p \in OSThreads, JoinBegin(p)
       PROVE  TypeOK'
    <2>1. ASSUME NEW o \in Objects, Construct(p, o), WrapBy(p, o)
          PROVE  TypeOK'
      <3>1. /\ mem' \in [Objects -> {"none", "live", "deleted"}]
            /\ thread_checker_' \in [Objects -> OSThreads \cup {None}]
            /\ main_thread_ref_' \in OSThreads \cup {None}
            /\ message_queues_' \subseteq Objects
        BY <2>1
      <3>2. /\ thread_ref_' \in [Objects -> BOOLEAN]
            /\ owned_' \in [Objects -> BOOLEAN]
            /\ current' \in [OSThreads -> Objects \cup {None}]
        BY <2>1
      <3>3. /\ step' \in [OSThreads -> {"idle", "create", "created", "stop",
                                      "join", "wait", "joined", "destroy"}]
            /\ \A q \in OSThreads : step'[q] = "idle" <=> step[q] = "idle"
            /\ UNCHANGED <<stop_, platform, on, deleting>>
        BY <1>10 DEF JoinBegin
      <3> QED
        BY <3>1, <3>2, <3>3
    <2>2. CASE UNCHANGED <<mem, thread_checker_, thread_ref_, owned_, manager>>
      BY <1>10, <2>2 DEF JoinBegin
    <2> QED
      BY <1>10, <2>1, <2>2 DEF JoinBegin
  <1>11. ASSUME NEW p \in OSThreads, PlatformStop(p)
       PROVE  TypeOK'
    <2>1. /\ thread_' \in [Objects -> Workers \cup {None}]
          /\ spawned_thread_checker_' \in [Objects -> Workers \cup {None}]
      <3>1. CASE thread_[on[p]] = None
        BY <1>11, <3>1 DEF PlatformStop
      <3>2. CASE thread_[on[p]] # None
        BY <1>11, <3>2 DEF PlatformStop
      <3> QED
        BY <3>1, <3>2
    <2>2. /\ step' \in [OSThreads -> {"idle", "create", "created", "stop",
                                    "join", "wait", "joined", "destroy"}]
          /\ \A q \in OSThreads : step'[q] = "idle" <=> step[q] = "idle"
      BY <1>11 DEF PlatformStop
    <2>3. UNCHANGED <<mem, thread_checker_, flags, starts, worker, manager,
                      on, deleting>>
      BY <1>11 DEF PlatformStop
    <2> QED
      BY <2>1, <2>2, <2>3
  <1>12. ASSUME NEW p \in OSThreads, JoinEnd(p)
       PROVE  TypeOK'
    <2>1. p \in OSThreads /\ on[p] \in Objects /\ step[p] # "idle"
      BY <1>12 DEF JoinEnd
    <2>2. CASE deleting[p]
      BY <1>12, <2>1, <2>2 DEF JoinEnd
    <2>3. CASE ~deleting[p]
      <3>1. Returns(p)
        BY <1>12, <2>3 DEF JoinEnd
      <3>2. /\ step' \in [OSThreads -> {"idle", "create", "created", "stop",
                                      "join", "wait", "joined", "destroy"}]
            /\ on' \in [OSThreads -> Objects \cup {None}]
            /\ deleting' \in [OSThreads -> BOOLEAN]
        BY <3>1
      <3>3. \A q \in OSThreads : /\ step'[q] = "idle" <=> on'[q] = None
                                 /\ deleting'[q] => on'[q] # None
        BY <3>1
      <3> QED
        BY <1>12, <3>2, <3>3 DEF JoinEnd
    <2> QED
      BY <2>2, <2>3
  <1>13. ASSUME NEW p \in OSThreads, DoDestroy(p)
       PROVE  TypeOK'
    BY <1>13 DEF DoDestroy
  <1>14. ASSUME NEW p \in OSThreads, NEW o \in Objects, WrapCurrent(p, o)
       PROVE  TypeOK'
    BY <1>14 DEF WrapCurrent
  <1>15. ASSUME NEW p \in OSThreads, NEW o \in Objects, WrapCurrentThread(p, o)
       PROVE  TypeOK'
    BY <1>15 DEF WrapCurrentThread
  <1>16. ASSUME NEW p \in OSThreads, UnwrapCurrent(p)
       PROVE  TypeOK'
    BY <1>16 DEF UnwrapCurrent
  <1>17. ASSUME NEW p \in OSThreads, UnwrapCurrentThread(p)
       PROVE  TypeOK'
    BY <1>17 DEF UnwrapCurrentThread
  <1>18. ASSUME NEW w \in Workers, PlatformRun(w)
       PROVE  TypeOK'
    BY <1>18 DEF PlatformRun
  <1>19. ASSUME NEW w \in Workers, PreRun(w)
       PROVE  TypeOK'
    BY <1>19 DEF PreRun
  <1>20. ASSUME NEW w \in Workers, RunEnd(w)
       PROVE  TypeOK'
    BY <1>20 DEF RunEnd
  <1>21. ASSUME NEW w \in Workers, PreRunEnd(w)
       PROVE  TypeOK'
    BY <1>21 DEF PreRunEnd
  <1> QED
    BY <1>1, <1>2, <1>3, <1>4, <1>5, <1>6, <1>7, <1>8, <1>9, <1>10, <1>11,
       <1>12, <1>13, <1>14, <1>15, <1>16, <1>17, <1>18, <1>19, <1>20, <1>21
    DEF Next, CallBegin, CallStep, WorkerStep

\* A call stays with the builder of its object: nobody else can delete the
\* object, or make it the current one of the caller, before the call ends.
LEMMA CallInvStep ==
  TypeOK /\ LifeInv /\ Next => CallInv'
  <1> SUFFICES ASSUME TypeOK, LifeInv, Next PROVE CallInv'
    OBVIOUS
  <1> USE ThreadLifeAssumption, ThreadFacts DEF TypeOK, LifeInv,
    CallInv, ObjectInv, WorkerInv, ProgramInv,
    flags, platform, manager, calls, Free, Mine, Goto, Calling,
    Returns, Construct, WrapBy, UnwrapBy, Stopped, Alive, Starting, Doomed
  <1>1. ASSUME NEW p \in OSThreads, NEW o \in Objects, Create(p, o)
       PROVE  CallInv'
    BY <1>1 DEF Create
  <1>2. ASSUME NEW p \in OSThreads, NEW o \in Objects, StartBegin(p, o)
       PROVE  CallInv'
    BY <1>2 DEF StartBegin
  <1>3. ASSUME NEW p \in OSThreads, StartThread(p)
       PROVE  CallInv'
    BY <1>3 DEF StartThread
  <1>4. ASSUME NEW p \in OSThreads, StartEnd(p)
       PROVE  CallInv'
    BY <1>4 DEF StartEnd
  <1>5. ASSUME NEW p \in OSThreads, NEW o \in Objects, Quit(p, o)
       PROVE  CallInv'
    BY <1>5 DEF Quit
  <1>6. ASSUME NEW p \in OSThreads, NEW o \in Objects, Stop(p, o)
       PROVE  CallInv'
    BY <1>6 DEF Stop
  <1>7. ASSUME NEW p \in OSThreads, NEW o \in Objects, Destroy(p, o)
       PROVE  CallInv'
    BY <1>7 DEF Destroy
  <1>8. ASSUME NEW p \in OSThreads, StopQuit(p)
       PROVE  CallInv'
    BY <1>8 DEF StopQuit
  <1>9. ASSUME NEW p \in OSThreads, JoinNot(p)
       PROVE  CallInv'
    BY <1>9 DEF JoinNot
  <1>10. ASSUME NEW p \in OSThreads, JoinBegin(p)
       PROVE  CallInv'
    BY <1>10 DEF JoinBegin
  <1>11. ASSUME NEW p \in OSThreads, PlatformStop(p)
       PROVE  CallInv'
    BY <1>11 DEF PlatformStop
  <1>12. ASSUME NEW p \in OSThreads, JoinEnd(p)
       PROVE  CallInv'
    BY <1>12 DEF JoinEnd
  <1>13. ASSUME NEW p \in OSThreads, DoDestroy(p)
       PROVE  CallInv'
    BY <1>13 DEF DoDestroy
  <1>14. ASSUME NEW p \in OSThreads, NEW o \in Objects, WrapCurrent(p, o)
       PROVE  CallInv'
    BY <1>14 DEF WrapCurrent
  <1>15. ASSUME NEW p \in OSThreads, NEW o \in Objects, WrapCurrentThread(p, o)
       PROVE  CallInv'
    BY <1>15 DEF WrapCurrentThread
  <1>16. ASSUME NEW p \in OSThreads, UnwrapCurrent(p)
       PROVE  CallInv'
    BY <1>16 DEF UnwrapCurrent
  <1>17. ASSUME NEW p \in OSThreads, UnwrapCurrentThread(p)
       PROVE  CallInv'
    BY <1>17 DEF UnwrapCurrentThread
  <1>18. ASSUME NEW w \in Workers, PlatformRun(w)
       PROVE  CallInv'
    BY <1>18 DEF PlatformRun
  <1>19. ASSUME NEW w \in Workers, PreRun(w)
       PROVE  CallInv'
    BY <1>19 DEF PreRun
  <1>20. ASSUME NEW w \in Workers, RunEnd(w)
       PROVE  CallInv'
    BY <1>20 DEF RunEnd
  <1>21. ASSUME NEW w \in Workers, PreRunEnd(w)
       PROVE  CallInv'
    BY <1>21 DEF PreRunEnd
  <1> QED
    BY <1>1, <1>2, <1>3, <1>4, <1>5, <1>6, <1>7, <1>8, <1>9, <1>10, <1>11,
       <1>12, <1>13, <1>14, <1>15, <1>16, <1>17, <1>18, <1>19, <1>20, <1>21
    DEF Next, CallBegin, CallStep, WorkerStep

\* The handle of an object comes with Start and goes with Join.
LEMMA ObjectInvStep ==
  TypeOK /\ LifeInv /\ Next => ObjectInv'
  <1> SUFFICES ASSUME TypeOK, LifeInv, Next PROVE ObjectInv'
    OBVIOUS
  <1> USE ThreadLifeAssumption, ThreadFacts DEF TypeOK, LifeInv,
    CallInv, ObjectInv, WorkerInv, ProgramInv,
    flags, platform, manager, calls, Free, Mine, Goto, Calling,
    Returns, Construct, WrapBy, UnwrapBy, Stopped, Alive, Starting, Doomed
  <1>1. ASSUME NEW p \in OSThreads, NEW o \in Objects, Create(p, o)
       PROVE  ObjectInv'
    BY <1>1 DEF Create
  <1>2. ASSUME NEW p \in OSThreads, NEW o \in Objects, StartBegin(p, o)
       PROVE  ObjectInv'
    BY <1>2 DEF StartBegin
  <1>3. ASSUME NEW p \in OSThreads, StartThread(p)
       PROVE  ObjectInv'
    <2>1. ASSUME NEW o \in Objects, o = on[p]
          PROVE  Starting(o)'
      BY <1>3, <2>1 DEF StartThread
    <2>2. ASSUME NEW o \in Objects, o # on[p]
          PROVE  /\ Starting(o) => Starting(o)'
                 /\ thread_'[o] = thread_[o]
      BY <1>3, <2>2 DEF StartThread
    <2>3. thread_'[on[p]] # None
      <3>1. /\ on[p] \in Objects /\ starts[on[p]] < MaxStarts
            /\ starts[on[p]] \in 0..MaxStarts
        BY <1>3 DEF StartThread
      <3>2. starts[on[p]] + 1 \in 1..MaxStarts
        BY <3>1
      <3>3. <<on[p], starts[on[p]] + 1>> \in Workers
        BY <3>1, <3>2
      <3> QED
        BY <1>3, <3>1, <3>3 DEF StartThread
    <2>4. owned_[on[p]] /\ ~thread_ref_[on[p]] /\ mem[on[p]] = "live"
      BY <1>3 DEF StartThread
    <2>5. UNCHANGED <<thread_ref_, owned_, mem, spawned_thread_checker_>>
      BY <1>3 DEF StartThread
    <2>6. ASSUME NEW o \in Objects
          PROVE  /\ mem'[o] # "live" => ~thread_ref_'[o]
                 /\ ~thread_ref_'[o] /\ ~Starting(o)' => thread_'[o] = None
                 /\ ~owned_'[o] => thread_'[o] = None
                 /\ thread_'[o] = None => spawned_thread_checker_'[o] = None
      <3> HIDE DEF Starting
      <3>1. CASE o = on[p]
        BY <2>1, <2>3, <2>4, <2>5, <3>1
      <3>2. CASE o # on[p]
        BY <2>2, <2>5, <3>2
      <3> QED
        BY <3>1, <3>2
    <2> QED
      BY <2>6
  <1>4. ASSUME NEW p \in OSThreads, StartEnd(p)
       PROVE  ObjectInv'
    BY <1>4 DEF StartEnd
  <1>5. ASSUME NEW p \in OSThreads, NEW o \in Objects, Quit(p, o)
       PROVE  ObjectInv'
    BY <1>5 DEF Quit
  <1>6. ASSUME NEW p \in OSThreads, NEW o \in Objects, Stop(p, o)
       PROVE  ObjectInv'
    BY <1>6 DEF Stop
  <1>7. ASSUME NEW p \in OSThreads, NEW o \in Objects, Destroy(p, o)
       PROVE  ObjectInv'
    BY <1>7 DEF Destroy
  <1>8. ASSUME NEW p \in OSThreads, StopQuit(p)
       PROVE  ObjectInv'
    BY <1>8 DEF StopQuit
  <1>9. ASSUME NEW p \in OSThreads, JoinNot(p)
       PROVE  ObjectInv'
    BY <1>9 DEF JoinNot
  <1>10. ASSUME NEW p \in OSThreads, JoinBegin(p)
       PROVE  ObjectInv'
    BY <1>10 DEF JoinBegin
  <1>11. ASSUME NEW p \in OSThreads, PlatformStop(p)
       PROVE  ObjectInv'
    BY <1>11 DEF PlatformStop
  <1>12. ASSUME NEW p \in OSThreads, JoinEnd(p)
       PROVE  ObjectInv'
    BY <1>12 DEF JoinEnd
  <1>13. ASSUME NEW p \in OSThreads, DoDestroy(p)
       PROVE  ObjectInv'
    BY <1>13 DEF DoDestroy
  <1>14. ASSUME NEW p \in OSThreads, NEW o \in Objects, WrapCurrent(p, o)
       PROVE  ObjectInv'
    BY <1>14 DEF WrapCurrent
  <1>15. ASSUME NEW p \in OSThreads, NEW o \in Objects, WrapCurrentThread(p, o)
       PROVE  ObjectInv'
    BY <1>15 DEF WrapCurrentThread
  <1>16. ASSUME NEW p \in OSThreads, UnwrapCurrent(p)
       PROVE  ObjectInv'
    BY <1>16 DEF UnwrapCurrent
  <1>17. ASSUME NEW p \in OSThreads, UnwrapCurrentThread(p)
       PROVE  ObjectInv'
    BY <1>17 DEF UnwrapCurrentThread
  <1>18. ASSUME NEW w \in Workers, PlatformRun(w)
       PROVE  ObjectInv'
    BY <1>18 DEF PlatformRun
  <1>19. ASSUME NEW w \in Workers, PreRun(w)
       PROVE  ObjectInv'
    BY <1>19 DEF PreRun
  <1>20. ASSUME NEW w \in Workers, RunEnd(w)
       PROVE  ObjectInv'
    BY <1>20 DEF RunEnd
  <1>21. ASSUME NEW w \in Workers, PreRunEnd(w)
       PROVE  ObjectInv'
    BY <1>21 DEF PreRunEnd
  <1> QED
    BY <1>1, <1>2, <1>3, <1>4, <1>5, <1>6, <1>7, <1>8, <1>9, <1>10, <1>11,
       <1>12, <1>13, <1>14, <1>15, <1>16, <1>17, <1>18, <1>19, <1>20, <1>21
    DEF Next, CallBegin, CallStep, WorkerStep

\* A spawned thread ends before its handle does, and its current object is set
\* by PreRun alone.
LEMMA WorkerInvStep ==
  TypeOK /\ LifeInv /\ Next => WorkerInv'
  <1> SUFFICES ASSUME TypeOK, LifeInv, Next PROVE WorkerInv'
    OBVIOUS
  <1> USE ThreadLifeAssumption, ThreadFacts DEF TypeOK, LifeInv, CallInv,
    ObjectInv, WorkerInv, ProgramInv, ListHoldsLive,
    flags, platform, manager, calls, Free, Mine, Goto, Calling,
    Returns, Construct, WrapBy, UnwrapBy, Stopped, Alive, Starting, Doomed
  <1>1. ASSUME NEW p \in OSThreads, NEW o \in Objects, Create(p, o)
       PROVE  WorkerInv'
    BY <1>1 DEF Create
  <1>2. ASSUME NEW p \in OSThreads, NEW o \in Objects, StartBegin(p, o)
       PROVE  WorkerInv'
    BY <1>2 DEF StartBegin
  <1>3. ASSUME NEW p \in OSThreads, StartThread(p)
       PROVE  WorkerInv'
    BY <1>3 DEF StartThread
  <1>4. ASSUME NEW p \in OSThreads, StartEnd(p)
       PROVE  WorkerInv'
    BY <1>4 DEF StartEnd
  <1>5. ASSUME NEW p \in OSThreads, NEW o \in Objects, Quit(p, o)
       PROVE  WorkerInv'
    BY <1>5 DEF Quit
  <1>6. ASSUME NEW p \in OSThreads, NEW o \in Objects, Stop(p, o)
       PROVE  WorkerInv'
    BY <1>6 DEF Stop
  <1>7. ASSUME NEW p \in OSThreads, NEW o \in Objects, Destroy(p, o)
       PROVE  WorkerInv'
    BY <1>7 DEF Destroy
  <1>8. ASSUME NEW p \in OSThreads, StopQuit(p)
       PROVE  WorkerInv'
    BY <1>8 DEF StopQuit
  <1>9. ASSUME NEW p \in OSThreads, JoinNot(p)
       PROVE  WorkerInv'
    BY <1>9 DEF JoinNot
  <1>10. ASSUME NEW p \in OSThreads, JoinBegin(p)
       PROVE  WorkerInv'
    BY <1>10 DEF JoinBegin
  <1>11. ASSUME NEW p \in OSThreads, PlatformStop(p)
       PROVE  WorkerInv'
    BY <1>11 DEF PlatformStop
  <1>12. ASSUME NEW p \in OSThreads, JoinEnd(p)
       PROVE  WorkerInv'
    BY <1>12 DEF JoinEnd
  <1>13. ASSUME NEW p \in OSThreads, DoDestroy(p)
       PROVE  WorkerInv'
    BY <1>13 DEF DoDestroy
  <1>14. ASSUME NEW p \in OSThreads, NEW o \in Objects, WrapCurrent(p, o)
       PROVE  WorkerInv'
    BY <1>14 DEF WrapCurrent
  <1>15. ASSUME NEW p \in OSThreads, NEW o \in Objects, WrapCurrentThread(p, o)
       PROVE  WorkerInv'
    BY <1>15 DEF WrapCurrentThread
  <1>16. ASSUME NEW p \in OSThreads, UnwrapCurrent(p)
       PROVE  WorkerInv'
    BY <1>16 DEF UnwrapCurrent
  <1>17. ASSUME NEW p \in OSThreads, UnwrapCurrentThread(p)
       PROVE  WorkerInv'
    BY <1>17 DEF UnwrapCurrentThread
  <1>18. ASSUME NEW w \in Workers, PlatformRun(w)
       PROVE  WorkerInv'
    BY <1>18 DEF PlatformRun
  <1>19. ASSUME NEW w \in Workers, PreRun(w)
       PROVE  WorkerInv'
    BY <1>19 DEF PreRun
  <1>20. ASSUME NEW w \in Workers, RunEnd(w)
       PROVE  WorkerInv'
    BY <1>20 DEF RunEnd
  <1>21. ASSUME NEW w \in Workers, PreRunEnd(w)
       PROVE  WorkerInv'
    BY <1>21 DEF PreRunEnd
  <1> QED
    BY <1>1, <1>2, <1>3, <1>4, <1>5, <1>6, <1>7, <1>8, <1>9, <1>10, <1>11,
       <1>12, <1>13, <1>14, <1>15, <1>16, <1>17, <1>18, <1>19, <1>20, <1>21
    DEF Next, CallBegin, CallStep, WorkerStep

\* A thread of the program has an object it wrapped itself or none: the
\* destructor of another object cannot take it away.
LEMMA ProgramInvStep ==
  TypeOK /\ LifeInv /\ Next => ProgramInv'
  <1> SUFFICES ASSUME TypeOK, LifeInv, Next PROVE ProgramInv'
    OBVIOUS
  <1> USE ThreadLifeAssumption, ThreadFacts DEF TypeOK, LifeInv, CallInv,
    ObjectInv, WorkerInv, ProgramInv, ListHoldsLive,
    flags, platform, manager, calls, Free, Mine, Goto, Calling,
    Returns, Construct, WrapBy, UnwrapBy, Stopped, Alive, Starting, Doomed
  <1>1. ASSUME NEW p \in OSThreads, NEW o \in Objects, Create(p, o)
       PROVE  ProgramInv'
    BY <1>1 DEF Create
  <1>2. ASSUME NEW p \in OSThreads, NEW o \in Objects, StartBegin(p, o)
       PROVE  ProgramInv'
    BY <1>2 DEF StartBegin
  <1>3. ASSUME NEW p \in OSThreads, StartThread(p)
       PROVE  ProgramInv'
    BY <1>3 DEF StartThread
  <1>4. ASSUME NEW p \in OSThreads, StartEnd(p)
       PROVE  ProgramInv'
    BY <1>4 DEF StartEnd
  <1>5. ASSUME NEW p \in OSThreads, NEW o \in Objects, Quit(p, o)
       PROVE  ProgramInv'
    BY <1>5 DEF Quit
  <1>6. ASSUME NEW p \in OSThreads, NEW o \in Objects, Stop(p, o)
       PROVE  ProgramInv'
    BY <1>6 DEF Stop
  <1>7. ASSUME NEW p \in OSThreads, NEW o \in Objects, Destroy(p, o)
       PROVE  ProgramInv'
    BY <1>7 DEF Destroy
  <1>8. ASSUME NEW p \in OSThreads, StopQuit(p)
       PROVE  ProgramInv'
    BY <1>8 DEF StopQuit
  <1>9. ASSUME NEW p \in OSThreads, JoinNot(p)
       PROVE  ProgramInv'
    BY <1>9 DEF JoinNot
  <1>10. ASSUME NEW p \in OSThreads, JoinBegin(p)
       PROVE  ProgramInv'
    <2>1. ASSUME NEW o \in Objects, Construct(p, o), WrapBy(p, o),
                 NEW q \in Programs, current'[q] # None
          PROVE  /\ mem'[current'[q]] = "live"
                 /\ thread_checker_'[current'[q]] = q
                 /\ thread_ref_'[current'[q]]
                 /\ ~owned_'[current'[q]]
      <3>1. CASE p = q
        BY <2>1, <3>1
      <3>2. CASE p # q
        BY <2>1, <3>2
      <3> QED
        BY <3>1, <3>2
    <2>2. CASE UNCHANGED <<mem, thread_checker_, thread_ref_, owned_, manager>>
      BY <1>10, <2>2 DEF JoinBegin
    <2> QED
      BY <1>10, <2>1, <2>2 DEF JoinBegin
  <1>11. ASSUME NEW p \in OSThreads, PlatformStop(p)
       PROVE  ProgramInv'
    BY <1>11 DEF PlatformStop
  <1>12. ASSUME NEW p \in OSThreads, JoinEnd(p)
       PROVE  ProgramInv'
    BY <1>12 DEF JoinEnd
  <1>13. ASSUME NEW p \in OSThreads, DoDestroy(p)
       PROVE  ProgramInv'
    BY <1>13 DEF DoDestroy
  <1>14. ASSUME NEW p \in OSThreads, NEW o \in Objects, WrapCurrent(p, o)
       PROVE  ProgramInv'
    BY <1>14 DEF WrapCurrent
  <1>15. ASSUME NEW p \in OSThreads, NEW o \in Objects, WrapCurrentThread(p, o)
       PROVE  ProgramInv'
    BY <1>15 DEF WrapCurrentThread
  <1>16. ASSUME NEW p \in OSThreads, UnwrapCurrent(p)
       PROVE  ProgramInv'
    BY <1>16 DEF UnwrapCurrent
  <1>17. ASSUME NEW p \in OSThreads, UnwrapCurrentThread(p)
       PROVE  ProgramInv'
    BY <1>17 DEF UnwrapCurrentThread
  <1>18. ASSUME NEW w \in Workers, PlatformRun(w)
       PROVE  ProgramInv'
    BY <1>18 DEF PlatformRun
  <1>19. ASSUME NEW w \in Workers, PreRun(w)
       PROVE  ProgramInv'
    BY <1>19 DEF PreRun
  <1>20. ASSUME NEW w \in Workers, RunEnd(w)
       PROVE  ProgramInv'
    BY <1>20 DEF RunEnd
  <1>21. ASSUME NEW w \in Workers, PreRunEnd(w)
       PROVE  ProgramInv'
    BY <1>21 DEF PreRunEnd
  <1> QED
    BY <1>1, <1>2, <1>3, <1>4, <1>5, <1>6, <1>7, <1>8, <1>9, <1>10, <1>11,
       <1>12, <1>13, <1>14, <1>15, <1>16, <1>17, <1>18, <1>19, <1>20, <1>21
    DEF Next, CallBegin, CallStep, WorkerStep

\* The list changes with the constructor and with DoDestroy only.
LEMMA ListHoldsLiveStep ==
  TypeOK /\ LifeInv /\ Next => ListHoldsLive'
  <1> SUFFICES ASSUME TypeOK, LifeInv, Next PROVE ListHoldsLive'
    OBVIOUS
  <1> USE ThreadLifeAssumption, ThreadFacts DEF TypeOK, LifeInv, CallInv,
    ObjectInv, WorkerInv, ProgramInv, ListHoldsLive,
    flags, platform, manager, calls, Free, Mine, Goto, Calling,
    Returns, Construct, WrapBy, UnwrapBy, Stopped, Alive, Starting, Doomed
  <1>1. ASSUME NEW p \in OSThreads, NEW o \in Objects, Create(p, o)
       PROVE  ListHoldsLive'
    BY <1>1 DEF Create
  <1>2. ASSUME NEW p \in OSThreads, NEW o \in Objects, StartBegin(p, o)
       PROVE  ListHoldsLive'
    BY <1>2 DEF StartBegin
  <1>3. ASSUME NEW p \in OSThreads, StartThread(p)
       PROVE  ListHoldsLive'
    BY <1>3 DEF StartThread
  <1>4. ASSUME NEW p \in OSThreads, StartEnd(p)
       PROVE  ListHoldsLive'
    BY <1>4 DEF StartEnd
  <1>5. ASSUME NEW p \in OSThreads, NEW o \in Objects, Quit(p, o)
       PROVE  ListHoldsLive'
    BY <1>5 DEF Quit
  <1>6. ASSUME NEW p \in OSThreads, NEW o \in Objects, Stop(p, o)
       PROVE  ListHoldsLive'
    BY <1>6 DEF Stop
  <1>7. ASSUME NEW p \in OSThreads, NEW o \in Objects, Destroy(p, o)
       PROVE  ListHoldsLive'
    BY <1>7 DEF Destroy
  <1>8. ASSUME NEW p \in OSThreads, StopQuit(p)
       PROVE  ListHoldsLive'
    BY <1>8 DEF StopQuit
  <1>9. ASSUME NEW p \in OSThreads, JoinNot(p)
       PROVE  ListHoldsLive'
    BY <1>9 DEF JoinNot
  <1>10. ASSUME NEW p \in OSThreads, JoinBegin(p)
       PROVE  ListHoldsLive'
    BY <1>10 DEF JoinBegin
  <1>11. ASSUME NEW p \in OSThreads, PlatformStop(p)
       PROVE  ListHoldsLive'
    BY <1>11 DEF PlatformStop
  <1>12. ASSUME NEW p \in OSThreads, JoinEnd(p)
       PROVE  ListHoldsLive'
    BY <1>12 DEF JoinEnd
  <1>13. ASSUME NEW p \in OSThreads, DoDestroy(p)
       PROVE  ListHoldsLive'
    BY <1>13 DEF DoDestroy
  <1>14. ASSUME NEW p \in OSThreads, NEW o \in Objects, WrapCurrent(p, o)
       PROVE  ListHoldsLive'
    BY <1>14 DEF WrapCurrent
  <1>15. ASSUME NEW p \in OSThreads, NEW o \in Objects, WrapCurrentThread(p, o)
       PROVE  ListHoldsLive'
    BY <1>15 DEF WrapCurrentThread
  <1>16. ASSUME NEW p \in OSThreads, UnwrapCurrent(p)
       PROVE  ListHoldsLive'
    BY <1>16 DEF UnwrapCurrent
  <1>17. ASSUME NEW p \in OSThreads, UnwrapCurrentThread(p)
       PROVE  ListHoldsLive'
    BY <1>17 DEF UnwrapCurrentThread
  <1>18. ASSUME NEW w \in Workers, PlatformRun(w)
       PROVE  ListHoldsLive'
    BY <1>18 DEF PlatformRun
  <1>19. ASSUME NEW w \in Workers, PreRun(w)
       PROVE  ListHoldsLive'
    BY <1>19 DEF PreRun
  <1>20. ASSUME NEW w \in Workers, RunEnd(w)
       PROVE  ListHoldsLive'
    BY <1>20 DEF RunEnd
  <1>21. ASSUME NEW w \in Workers, PreRunEnd(w)
       PROVE  ListHoldsLive'
    BY <1>21 DEF PreRunEnd
  <1> QED
    BY <1>1, <1>2, <1>3, <1>4, <1>5, <1>6, <1>7, <1>8, <1>9, <1>10, <1>11,
       <1>12, <1>13, <1>14, <1>15, <1>16, <1>17, <1>18, <1>19, <1>20, <1>21
    DEF Next, CallBegin, CallStep, WorkerStep

-----------------------------------------------------------------------------

\* Type correctness, and the invariant behind the other theorems: calls,
\* handles, current objects and the list of ThreadManager agree.
THEOREM LifeInvariant ==
  Spec => [](TypeOK /\ LifeInv)
  \* Before anything is built nothing runs.
  <1>LifeInit.
    Init => TypeOK /\ LifeInv
    <2> SUFFICES ASSUME Init PROVE TypeOK /\ LifeInv
      OBVIOUS
    <2> USE ThreadLifeAssumption, ThreadFacts DEF Init
    <2>1. TypeOK
      BY DEF TypeOK
    <2>2. CallInv
      BY DEF CallInv
    <2>3. ObjectInv
      BY DEF ObjectInv
    <2>4. WorkerInv
      BY DEF WorkerInv, Alive
    <2>5. ProgramInv /\ ListHoldsLive
      BY DEF ProgramInv, ListHoldsLive
    <2> QED
      BY <2>1, <2>2, <2>3, <2>4, <2>5 DEF LifeInv
  \* The invariant is inductive.
  <1>LifeStep.
    TypeOK /\ LifeInv /\ [Next]_vars => (TypeOK /\ LifeInv)'
    <2> SUFFICES ASSUME TypeOK, LifeInv, [Next]_vars
                 PROVE  (TypeOK /\ LifeInv)'
      OBVIOUS
    <2>1. CASE Next
      BY <2>1, TypeOKStep, CallInvStep, ObjectInvStep, WorkerInvStep,
         ProgramInvStep, ListHoldsLiveStep DEF LifeInv
    <2>2. CASE UNCHANGED vars
      BY <2>2 DEF vars, flags, platform, manager, calls, TypeOK, LifeInv,
         CallInv, ObjectInv, WorkerInv, ProgramInv, ListHoldsLive, Alive,
         Starting
    <2> QED
      BY <2>1, <2>2
  <1>1. Init => TypeOK /\ LifeInv
    BY <1>LifeInit
  <1>2. TypeOK /\ LifeInv /\ [Next]_vars => (TypeOK /\ LifeInv)'
    BY <1>LifeStep
  <1> QED
    BY <1>1, <1>2, PTL DEF Spec

\* The variables have their types (src/thread.h:553-558,
\* src/platform_thread.h:74-78).
THEOREM LifeTypeCorrect ==
  Spec => []TypeOK
  BY LifeInvariant, PTL

\* An object that is not running has no thread, and one that is has the thread
\* of its handle only: Join waited for the others (src/thread.cc:710-732).
THEOREM LifeStoppedIsStill ==
  Spec => []StoppedIsStill
  <1>1. TypeOK /\ LifeInv => StoppedIsStill
    <2> SUFFICES ASSUME TypeOK, LifeInv, NEW w \in Workers, Alive(w)
                 PROVE  /\ thread_[Object(w)] = w
                        /\ thread_ref_[Object(w)] \/ Starting(Object(w))
      BY DEF StoppedIsStill, Starting
    <2>1. thread_[Object(w)] = w /\ w # None /\ Object(w) \in Objects
      BY ThreadFacts DEF LifeInv, WorkerInv
    <2> QED
      BY <2>1 DEF TypeOK, LifeInv, ObjectInv
  <1> QED
    BY <1>1, LifeInvariant, PTL

\* Thread::Current() is never a deleted object, and no thread runs on one
\* (src/thread.cc:251-254, 214-220, 740-752).
THEOREM LifeNoDangling ==
  Spec => []NoDangling
  <1>1. TypeOK /\ LifeInv => NoDangling
    <2> SUFFICES ASSUME TypeOK, LifeInv
                 PROVE  NoDangling
      OBVIOUS
    <2>1. ASSUME NEW w \in Workers, Alive(w)
          PROVE  mem[Object(w)] = "live"
      <3>1. thread_[Object(w)] = w /\ w # None /\ Object(w) \in Objects
        BY <2>1, ThreadFacts DEF LifeInv, WorkerInv
      <3>2. thread_ref_[Object(w)] \/ Starting(Object(w))
        BY <3>1 DEF TypeOK, LifeInv, ObjectInv
      <3> QED
        BY <3>1, <3>2 DEF LifeInv, ObjectInv, CallInv, Starting
    <2>2. ASSUME NEW p \in OSThreads, current[p] # None
          PROVE  mem[current[p]] = "live"
      <3>1. CASE p \in Workers
        <4>1. Alive(p) /\ current[p] = Object(p)
          BY <2>2, <3>1 DEF LifeInv, WorkerInv, Alive
        <4> QED
          BY <2>1, <3>1, <4>1
      <3>2. CASE p \in Programs
        BY <2>2, <3>2 DEF LifeInv, ProgramInv
      <3> QED
        BY <3>1, <3>2, ThreadFacts
    <2> QED
      BY <2>1, <2>2 DEF NoDangling
  <1> QED
    BY <1>1, LifeInvariant, PTL

\* No object is the current one of two threads, and handlers run where their
\* object is the current one: IsCurrent() holds on one thread at most
\* (src/thread.cc:566-568).
THEOREM LifeOneCurrent ==
  Spec => []OneCurrent
  <1>1. TypeOK /\ LifeInv => OneCurrent
    <2> SUFFICES ASSUME TypeOK, LifeInv
                 PROVE  OneCurrent
      OBVIOUS
    <2>1. ASSUME NEW w \in Workers, current[w] # None
          PROVE  /\ current[w] = Object(w) /\ Object(w) \in Objects
                 /\ thread_[Object(w)] = w /\ w # None
      BY <2>1, ThreadFacts DEF LifeInv, WorkerInv, Alive
    <2>2. ASSUME NEW p \in Programs, current[p] # None
          PROVE  /\ current[p] \in Objects /\ thread_[current[p]] = None
                 /\ thread_checker_[current[p]] = p
      BY <2>2, ThreadFacts DEF TypeOK, LifeInv, ProgramInv, ObjectInv
    <2>3. ASSUME NEW p \in OSThreads, NEW q \in OSThreads,
                 p # q, current[p] # None, current[p] = current[q]
          PROVE  FALSE
      <3>1. current[q] # None
        BY <2>3
      <3>2. CASE p \in Workers /\ q \in Workers
        BY <2>1, <2>3, <3>1, <3>2
      <3>3. CASE p \in Programs /\ q \in Programs
        BY <2>2, <2>3, <3>1, <3>3
      <3>4. CASE p \in Workers /\ q \in Programs
        BY <2>1, <2>2, <2>3, <3>1, <3>4
      <3>5. CASE p \in Programs /\ q \in Workers
        BY <2>1, <2>2, <2>3, <3>1, <3>5
      <3> QED
        BY <3>2, <3>3, <3>4, <3>5, ThreadFacts
    <2>4. ASSUME NEW w \in Workers, worker[w] = "run"
          PROVE  current[w] = Object(w)
      BY <2>4 DEF LifeInv, WorkerInv
    <2> QED
      BY <2>3, <2>4 DEF OneCurrent
  <1> QED
    BY <1>1, LifeInvariant, PTL

\* A restarted object has its checker detached: the assertion of
\* src/platform_thread.cc:126 holds.
THEOREM LifeCheckerFits ==
  Spec => []CheckerFits
  <1>1. LifeInv => CheckerFits
    BY DEF LifeInv, WorkerInv, CheckerFits
  <1> QED
    BY <1>1, LifeInvariant, PTL

=============================================================================
