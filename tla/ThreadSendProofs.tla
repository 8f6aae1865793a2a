--------------------------- MODULE ThreadSendProofs ---------------------------
(* Proofs about ThreadSend, for any threads and any calls. *)
EXTENDS ThreadSend, TLAPS

-----------------------------------------------------------------------------
(* The check for cycles.                                                   *)

\* An edge from s to t adds no knot when s cannot be reached from t: a knot of
\* the larger graph has, inside the set closed around t, a knot of the smaller
\* one, or it does not use the edge.
LEMMA EdgeAddsNoKnot ==
  ASSUME NEW s \in Threads, NEW t \in Threads, s \notin Reached(t),
         Knotless(send_graph_)
  PROVE  Knotless(send_graph_ \cup {<<s, t>>})
  <1> DEFINE more == send_graph_ \cup {<<s, t>>}
  <1> SUFFICES ASSUME NEW S \in SUBSET Threads, Knot(S, more)
               PROVE  FALSE
    BY DEF Knotless
  <1>1. PICK R \in SUBSET Threads : t \in R /\ s \notin R /\ Closed(R)
    BY DEF Reached
  <1>2. CASE S \cap R = {}
    <2>1. t \notin S
      BY <1>1, <1>2
    <2>2. Knot(S, send_graph_)
      BY <2>1 DEF Knot
    <2> QED
      BY <2>2 DEF Knotless
  <1>3. CASE S \cap R # {}
    <2>1. ASSUME NEW u \in S \cap R
          PROVE  \E v \in S \cap R : <<u, v>> \in send_graph_
      <3>1. PICK v \in S : <<u, v>> \in more
        BY DEF Knot
      <3>2. <<u, v>> \in send_graph_
        BY <1>1, <3>1
      <3>3. v \in R
        BY <1>1, <3>2 DEF Closed
      <3> QED
        BY <3>2, <3>3
    <2>2. Knot(S \cap R, send_graph_)
      BY <1>3, <2>1 DEF Knot
    <2> QED
      BY <2>2 DEF Knotless
  <1> QED
    BY <1>2, <1>3

-----------------------------------------------------------------------------
(* Every Send in progress is an edge of a graph without knots.             *)

\* The inductive invariant.
Registered ==
  /\ making \in [Actors -> Calls \cup {NoCall}]
  /\ Knotless(send_graph_)
  /\ Checked => SendsNow \subseteq send_graph_

\* Every step keeps the invariant.
LEMMA RegisteredStep == Registered /\ [Next]_vars => Registered'
  \* An actor that drops its call, or begins one that is no Send, adds no edge.
  <1>NoNewSend.
    ASSUME Registered, NEW a \in Actors, NEW c \in Calls \cup {NoCall},
           c # NoCall => Kind[c] # "send",
           making' = [making EXCEPT ![a] = c], UNCHANGED send_graph_
    PROVE  Registered'
    <2> USE <1>NoNewSend
    <2>1. SendsNow' \subseteq SendsNow
      BY DEF Registered, SendsNow, Actors
    <2> QED
      BY <2>1 DEF Registered, Knotless, Knot
  \* A step that leaves the calls and the graph alone keeps the invariant.
  <1>SameSends.
    ASSUME Registered, UNCHANGED <<making, send_graph_>>
    PROVE  Registered'
    BY <1>SameSends DEF Registered, SendsNow, Knotless, Knot
  \* The same for a call that goes on or returns.
  <1>CallReturns.
    ASSUME Registered, NEW a \in Actors, UNCHANGED send_graph_,
           UNCHANGED making \/ making' = [making EXCEPT ![a] = NoCall]
    PROVE  Registered'
    BY <1>CallReturns, <1>NoNewSend, <1>SameSends, ThreadSendAssumption
  \* A Send that begins is registered, and the graph stays without knots.
  <1>SendBegins.
    ASSUME Registered, NEW a \in Actors, SendBegin(a)
    PROVE  Registered'
    <2> USE <1>SendBegins
    <2>1. PICK c \in Calls :
            /\ making' = [making EXCEPT ![a] = c]
            /\ IF Checked /\ a \in Threads
                 THEN /\ a \notin Reached(To[c])
                      /\ send_graph_' = send_graph_ \cup {<<a, To[c]>>}
                 ELSE UNCHANGED send_graph_
      BY DEF SendBegin
    <2>2. To[c] \in Threads /\ c # NoCall
      BY ThreadSendAssumption
    <2>3. making' \in [Actors -> Calls \cup {NoCall}]
      BY <2>1 DEF Registered
    <2>4. CASE Checked /\ a \in Threads
      <3>1. Knotless(send_graph_)'
        BY <2>1, <2>2, <2>4, EdgeAddsNoKnot DEF Registered, Knotless
      <3>2. SendsNow' \subseteq SendsNow \cup {<<a, To[c]>>}
        BY <2>1, <2>2 DEF Registered, SendsNow, Actors
      <3> QED
        BY <2>1, <2>3, <2>4, <3>1, <3>2 DEF Registered
    <2>5. CASE ~(Checked /\ a \in Threads)
      <3>1. ASSUME Checked PROVE SendsNow' \subseteq SendsNow
        BY <2>1, <2>5, <3>1 DEF Registered, SendsNow, Actors
      <3> QED
        BY <2>1, <2>3, <2>5, <3>1 DEF Registered, Knotless, Knot
    <2> QED
      BY <2>4, <2>5
  <1> SUFFICES ASSUME Registered, [Next]_vars PROVE Registered'
    OBVIOUS
  <1>1. ASSUME NEW a \in Actors, Quit(a) \/ PostBegin(a) PROVE Registered'
    <2>1. PICK c \in Calls :
            Kind[c] \in {"quit", "post"} /\ making' = [making EXCEPT ![a] = c]
      BY <1>1 DEF Quit, PostBegin
    <2> QED
      BY <1>1, <2>1, <1>NoNewSend DEF Quit, PostBegin
  <1>2. ASSUME NEW a \in Actors, SendBegin(a) PROVE Registered'
    BY <1>2, <1>SendBegins
  <1>3. ASSUME NEW a \in Actors, SendDropped(a) PROVE Registered'
    BY <1>3, <1>SameSends DEF SendDropped
  <1>4. ASSUME NEW a \in Actors, CallStep(a) PROVE Registered'
    <2>1. /\ UNCHANGED send_graph_
          /\ UNCHANGED making \/ making' = [making EXCEPT ![a] = NoCall]
      BY <1>4
      DEF CallStep, Post, Enqueue, WakeUp, ReadyCheck, SendWait, Rewake,
          DoneWait, PostReturns, Returns, sleeping, answer, history
    <2> QED
      BY <2>1, <1>CallReturns
  <1>5. ASSUME NEW t \in Threads, LoopStep(t) PROVE Registered'
    <2>1. UNCHANGED <<making, send_graph_>>
      BY <1>5
      DEF LoopStep, Pull, PullNothing, QuitCheck, Wait, HandleEnd, AckReady,
          AckWake
    <2> QED
      BY <2>1, <1>SameSends
  <1>6. CASE UNCHANGED vars
    BY <1>6, <1>SameSends DEF vars
  <1> QED
    BY <1>1, <1>2, <1>3, <1>4, <1>5, <1>6 DEF Next, Begin

\* In a debug build, no threads ever wait for each other in a circle, each in
\* a Send to the next, whatever threads there are and whatever they send
\* (thread.cc:119-137, 791-797).
THEOREM NoThreadWaitsInCircle == Spec => []NoCircularWait
  <1>1. Init => Registered
    BY DEF Init, Registered, SendsNow, Knotless, Knot, Actors
  <1>2. Registered => NoCircularWait
    BY DEF Registered, NoCircularWait, Knotless, Knot
  <1> QED
    BY <1>1, <1>2, RegisteredStep, PTL DEF Spec

-----------------------------------------------------------------------------
(* The type invariant.                                                     *)

\* What TypeOK says of the control: where the actors are, what they have in
\* hand and who holds a critical section.
TypeControl ==
  /\ pc \in [Actors -> Steps]
  /\ making \in [Actors -> Calls \cup {NoCall}]
  /\ \A a \in Actors : pc[a] \in InCall <=> making[a] # NoCall
  /\ serving \in [Threads -> Calls \cup {NoCall}]
  /\ \A t \in Threads :
       pc[t] \in {"handle", "ackready", "ackwake"} \cup InCall
         <=> serving[t] # NoCall
  /\ crit_ \in [Threads -> Threads \cup {NoOne}]
  /\ \A t \in Threads :
       crit_[t] # NoOne => /\ pc[crit_[t]] = "ackwake"
                           /\ From[serving[crit_[t]]] = t

\* The other variables, which no type of the control depends on.
TypeData ==
  /\ queue \in [Threads -> Seq(Calls)]
  /\ stop_ \in [Threads -> BOOLEAN]
  /\ event \in [Threads -> BOOLEAN]
  /\ waited \in [Actors -> BOOLEAN]
  /\ ready \in [Calls -> BOOLEAN]
  /\ done \in [Calls -> BOOLEAN]
  /\ send_graph_ \subseteq Threads \X Threads
  /\ UNION {begun, handled, refused, returned} \subseteq Calls

\* Every step keeps the types.
LEMMA TypeStep == TypeOK /\ [Next]_vars => TypeOK'
  \* An actor goes to step s with call c in hand.
  <1>TypeGoes.
    ASSUME TypeControl, NEW a \in Actors, NEW s \in Steps,
           NEW c \in Calls \cup {NoCall},
           pc' = [pc EXCEPT ![a] = s], making' = [making EXCEPT ![a] = c],
           UNCHANGED <<serving, crit_>>, pc[a] # "ackwake",
           s \in InCall <=> c # NoCall,
           a \in Threads =>
             (s \in {"handle", "ackready", "ackwake"} \cup InCall
                <=> serving[a] # NoCall)
    PROVE  TypeControl'
    <2> USE <1>TypeGoes
    <2> USE DEF TypeControl
    <2>1. /\ pc' \in [Actors -> Steps]
          /\ making' \in [Actors -> Calls \cup {NoCall}]
          /\ crit_' \in [Threads -> Threads \cup {NoOne}]
      OBVIOUS
    <2>2. \A b \in Actors : /\ pc'[b] = IF b = a THEN s ELSE pc[b]
                            /\ making'[b] = IF b = a THEN c ELSE making[b]
      OBVIOUS
    <2>3. \A b \in Actors : pc'[b] \in InCall <=> making'[b] # NoCall
      BY <2>2
    <2>4. \A t \in Threads :
            pc'[t] \in {"handle", "ackready", "ackwake"} \cup InCall
              <=> serving'[t] # NoCall
      BY <2>2 DEF Actors
    <2>5. \A t \in Threads :
            crit_'[t] # NoOne => /\ pc'[crit_'[t]] = "ackwake"
                                 /\ From[serving'[crit_'[t]]] = t
      BY <2>2 DEF Actors
    <2> QED
      BY <2>1, <2>3, <2>4, <2>5
  \* The same when the call in hand stays.
  <1>TypeGoesOn.
    ASSUME TypeControl, NEW a \in Actors, NEW s \in Steps,
           pc' = [pc EXCEPT ![a] = s], UNCHANGED <<making, serving, crit_>>,
           pc[a] # "ackwake",
           s \in InCall <=> pc[a] \in InCall,
           a \in Threads =>
             (s \in {"handle", "ackready", "ackwake"} \cup InCall
                <=> pc[a] \in {"handle", "ackready", "ackwake"} \cup InCall)
    PROVE  TypeControl'
    <2> USE <1>TypeGoesOn
    <2>1. making[a] \in Calls \cup {NoCall}
      BY DEF TypeControl
    <2>2. making' = [making EXCEPT ![a] = making[a]]
      BY DEF TypeControl
    <2>3. s \in InCall <=> making[a] # NoCall
      BY DEF TypeControl
    <2>4. a \in Threads =>
            (s \in {"handle", "ackready", "ackwake"} \cup InCall
               <=> serving[a] # NoCall)
      BY DEF TypeControl
    <2> QED
      BY <2>1, <2>2, <2>3, <2>4, <1>TypeGoes
  \* An actor that has a call in hand returns from it.
  <1>TypeReturns.
    ASSUME TypeControl, NEW a \in Actors, pc[a] \in InCall,
           Returns(a, making[a]), UNCHANGED <<serving, crit_>>
    PROVE  TypeControl'
    <2> USE <1>TypeReturns
    <2>1. Home(a) \in Steps /\ Home(a) \notin InCall
      BY DEF Home, Steps, InCall
    <2>2. a \in Threads => Home(a) = "handle" /\ serving[a] # NoCall
      BY DEF Home, TypeControl
    <2>3. pc[a] # "ackwake"
      BY DEF InCall
    <2> QED
      BY <2>1, <2>2, <2>3, <1>TypeGoes DEF Returns, Goto
  \* A call that an actor begins keeps the types.
  <1>TypeBegin.
    ASSUME TypeControl, TypeData, NEW a \in Actors, Begin(a)
    PROVE  TypeControl' /\ TypeData'
    <2> USE <1>TypeBegin
    <2> USE ThreadSendAssumption
    <2>1. ASSUME NEW s \in {"wake", "post"}, NEW c \in Calls, MayCall(a, c),
                 Goto(a, s), making' = [making EXCEPT ![a] = c],
                 UNCHANGED <<serving, crit_>>
          PROVE  TypeControl'
      <3>1. pc[a] # "ackwake"
        BY <2>1 DEF MayCall, Home
      <3>2. c # NoCall /\ s \in InCall /\ s \in Steps
        BY DEF InCall, Steps
      <3>3. a \in Threads => serving[a] # NoCall
        BY <2>1 DEF MayCall, Home, TypeControl
      <3> QED
        BY <2>1, <3>1, <3>2, <3>3, <1>TypeGoes DEF Goto
    <2>2. CASE Quit(a)
      <3>1. TypeControl'
        BY <2>1, <2>2 DEF Quit
      <3>2. TypeData'
        BY <2>2 DEF TypeData, Quit, MayCall, sleeping, answer
      <3> QED
        BY <3>1, <3>2
    <2>3. CASE PostBegin(a)
      <3>1. TypeControl'
        BY <2>1, <2>3 DEF PostBegin
      <3>2. TypeData'
        BY <2>3 DEF TypeData, PostBegin, MayCall, sleeping, answer
      <3> QED
        BY <3>1, <3>2
    <2>4. CASE SendBegin(a)
      <3>1. TypeControl'
        BY <2>1, <2>4 DEF SendBegin
      <3>2. TypeData'
        BY <2>4 DEF TypeData, SendBegin, MayCall, sleeping, answer
      <3> QED
        BY <3>1, <3>2
    <2>5. CASE SendDropped(a)
      BY <2>5
      DEF TypeControl, TypeData, SendDropped, MayCall, sleeping, answer
    <2> QED
      BY <2>2, <2>3, <2>4, <2>5 DEF Begin
  \* So does every step of a call.
  <1>TypeCall.
    ASSUME TypeControl, TypeData, NEW a \in Actors, CallStep(a)
    PROVE  TypeControl' /\ TypeData'
    <2> USE <1>TypeCall
    <2> USE ThreadSendAssumption
    <2>1. pc[a] \in InCall => making[a] \in Calls
      BY DEF TypeControl
    <2>2. ASSUME pc[a] \in InCall, PostReturns(a, making[a]),
                 UNCHANGED <<serving, crit_>>
          PROVE  TypeControl' /\ returned' \subseteq returned \cup Calls
      <3>1. CASE Kind[making[a]] = "send"
        BY <2>2, <3>1, <1>TypeGoesOn DEF PostReturns, Goto, InCall, Steps
      <3>2. CASE Kind[making[a]] # "send"
        BY <2>1, <2>2, <3>2, <1>TypeReturns DEF PostReturns, Returns
      <3> QED
        BY <3>1, <3>2
    <2>3. ASSUME NEW s \in InCall, pc[a] \in InCall, Goto(a, s),
                 UNCHANGED <<making, serving, crit_>>
          PROVE  TypeControl'
      BY <2>3, <1>TypeGoesOn DEF Goto, InCall, Steps
    <2>4. CASE Post(a)
      <3>1. pc[a] \in InCall
        BY <2>4 DEF Post, InCall
      <3>2. TypeControl' /\ returned' \subseteq returned \cup Calls
        BY <2>2, <2>3, <2>4, <3>1 DEF Post, InCall
      <3> QED
        BY <2>1, <2>4, <3>1, <3>2 DEF TypeData, Post, sleeping, answer
    <2>5. CASE Enqueue(a)
      BY <2>1, <2>3, <2>5
      DEF TypeData, Enqueue, InCall, sleeping, answer, history
    <2>6. CASE WakeUp(a)
      <3>1. pc[a] \in InCall
        BY <2>6 DEF WakeUp, InCall
      <3> QED
        BY <2>2, <2>6, <3>1 DEF TypeData, WakeUp, answer
    <2>7. CASE ReadyCheck(a)
      <3>1. pc[a] \in InCall
        BY <2>7 DEF ReadyCheck, InCall
      <3>2. TypeControl' /\ returned' \subseteq returned \cup Calls
        BY <2>1, <2>3, <2>7, <3>1, <1>TypeReturns
        DEF ReadyCheck, Returns, InCall
      <3> QED
        BY <2>7, <3>2 DEF TypeData, ReadyCheck, sleeping, answer
    <2>8. CASE SendWait(a)
      BY <2>3, <2>8 DEF TypeData, SendWait, InCall, answer, history
    <2>9. CASE Rewake(a) \/ DoneWait(a)
      <3>1. /\ pc[a] \in InCall /\ Returns(a, making[a])
            /\ UNCHANGED <<serving, crit_>>
        BY <2>9 DEF Rewake, DoneWait, InCall
      <3>2. TypeControl' /\ returned' \subseteq returned \cup Calls
        BY <2>1, <3>1, <1>TypeReturns DEF Returns
      <3> QED
        BY <2>9, <3>2 DEF TypeData, Rewake, DoneWait, sleeping, answer
    <2> QED
      BY <2>4, <2>5, <2>6, <2>7, <2>8, <2>9 DEF CallStep
  \* And every step of a thread's loop.
  <1>TypeLoop.
    ASSUME TypeControl, TypeData, NEW t \in Threads, LoopStep(t)
    PROVE  TypeControl' /\ TypeData'
    <2> USE <1>TypeLoop
    <2> USE ThreadSendAssumption
    <2>1. t \in Actors
      BY DEF Actors
    \* A step that takes or releases no critical section.
    <2>2. ASSUME NEW s \in Steps \ (InCall \cup {"ackwake"}),
                 NEW c \in Calls \cup {NoCall},
                 s \in {"handle", "ackready"} <=> c # NoCall,
                 pc[t] \notin InCall \cup {"ackwake"},
                 Goto(t, s), serving' = [serving EXCEPT ![t] = c],
                 UNCHANGED <<making, crit_>>
          PROVE  TypeControl'
      <3>1. /\ pc' \in [Actors -> Steps]
            /\ crit_' \in [Threads -> Threads \cup {NoOne}]
            /\ serving' \in [Threads -> Calls \cup {NoCall}]
            /\ making' \in [Actors -> Calls \cup {NoCall}]
        BY <2>2 DEF TypeControl, Goto
      <3>2. /\ \A a \in Actors : pc'[a] = IF a = t THEN s ELSE pc[a]
            /\ \A u \in Threads : serving'[u] = IF u = t THEN c ELSE serving[u]
        BY <2>2 DEF TypeControl, Goto
      <3>3. \A a \in Actors : pc'[a] \in InCall <=> making'[a] # NoCall
        BY <2>1, <2>2, <3>2 DEF TypeControl
      <3>4. \A u \in Threads :
              pc'[u] \in {"handle", "ackready", "ackwake"} \cup InCall
                <=> serving'[u] # NoCall
        BY <2>1, <2>2, <3>2 DEF TypeControl, Actors
      <3>5. \A u \in Threads :
              crit_'[u] # NoOne => /\ pc'[crit_'[u]] = "ackwake"
                                   /\ From[serving'[crit_'[u]]] = u
        BY <2>1, <2>2, <3>2 DEF TypeControl, Actors
      <3> QED
        BY <3>1, <3>3, <3>4, <3>5 DEF TypeControl
    <2>3. CASE Pull(t)
      <3>1. Head(queue[t]) \in Calls /\ Tail(queue[t]) \in Seq(Calls)
        BY <2>3 DEF Pull, TypeData
      <3>2. TypeData'
        BY <2>3, <3>1 DEF TypeData, Pull, sleeping, answer, history
      <3> QED
        BY <2>2, <2>3, <3>1, <3>2 DEF Pull, Steps, InCall
    <2>4. CASE PullNothing(t) \/ QuitCheck(t) \/ Wait(t)
      <3>1. \E s \in {"scan", "quitcheck", "wait", "exited"} : Goto(t, s)
        BY <2>4 DEF PullNothing, QuitCheck, Wait
      <3>2. pc[t] \in {"scan", "quitcheck", "wait"}
        BY <2>4 DEF PullNothing, QuitCheck, Wait
      <3>3. UNCHANGED <<making, serving, crit_>>
        BY <2>4 DEF PullNothing, QuitCheck, Wait
      <3>4. serving[t] = NoCall
        BY <3>2 DEF TypeControl, InCall
      <3>5. serving' = [serving EXCEPT ![t] = NoCall]
        BY <3>3, <3>4 DEF TypeControl
      <3>6. TypeControl'
        BY <2>2, <3>1, <3>2, <3>3, <3>5 DEF Steps, InCall
      <3> QED
        BY <2>4, <3>6
        DEF TypeData, PullNothing, QuitCheck, Wait, sleeping, answer, history
    <2>5. CASE HandleEnd(t)
      <3>1. serving[t] \in Calls
        BY <2>5 DEF HandleEnd, TypeControl
      <3>2. done' \in [Calls -> BOOLEAN]
        BY <2>5, <3>1 DEF TypeData, HandleEnd
      <3>3. TypeData'
        BY <2>5, <3>1, <3>2 DEF TypeData, HandleEnd, sleeping
      <3>4. pc[t] = "handle" /\ UNCHANGED <<making, crit_>>
        BY <2>5 DEF HandleEnd
      <3>5. CASE Goto(t, "ackready") /\ UNCHANGED serving
        <4>1. serving' = [serving EXCEPT ![t] = serving[t]]
          BY <3>5 DEF TypeControl
        <4> QED
          BY <2>2, <3>1, <3>3, <3>4, <3>5, <4>1 DEF Steps, InCall
      <3>6. CASE Goto(t, "scan") /\ serving' = [serving EXCEPT ![t] = NoCall]
        BY <2>2, <3>3, <3>4, <3>6 DEF Steps, InCall
      <3> QED
        BY <2>5, <3>5, <3>6 DEF HandleEnd
    <2>6. CASE AckReady(t)
      <3>1. serving[t] \in Calls
        BY <2>6 DEF AckReady, TypeControl
      <3>2. TypeData'
        BY <2>6, <3>1 DEF TypeData, AckReady, sleeping, history
      <3>3. /\ pc' \in [Actors -> Steps]
            /\ crit_' \in [Threads -> Threads \cup {NoOne}]
        BY <2>6 DEF TypeControl, AckReady, Goto, Steps
      <3>4. /\ \A a \in Actors : pc'[a] = IF a = t THEN "ackwake" ELSE pc[a]
            /\ \A u \in Threads :
                 crit_'[u] = IF u = From[serving[t]] THEN t ELSE crit_[u]
        BY <2>6 DEF TypeControl, AckReady, Goto
      <3>5. \A a \in Actors : pc'[a] \in InCall <=> making'[a] # NoCall
        BY <2>1, <2>6, <3>4 DEF TypeControl, AckReady, InCall
      <3>6. \A u \in Threads :
              pc'[u] \in {"handle", "ackready", "ackwake"} \cup InCall
                <=> serving'[u] # NoCall
        BY <2>1, <2>6, <3>4 DEF TypeControl, AckReady, Actors, InCall
      <3>7. \A u \in Threads :
              crit_'[u] # NoOne => /\ pc'[crit_'[u]] = "ackwake"
                                   /\ From[serving'[crit_'[u]]] = u
        BY <2>1, <2>6, <3>4 DEF TypeControl, AckReady, Actors
      <3> QED
        BY <2>6, <3>2, <3>3, <3>5, <3>6, <3>7 DEF TypeControl, AckReady
    <2>7. CASE AckWake(t)
      <3>1. TypeData'
        BY <2>7 DEF TypeData, AckWake, answer, history
      <3>2. /\ pc' \in [Actors -> Steps]
            /\ crit_' \in [Threads -> Threads \cup {NoOne}]
            /\ serving' \in [Threads -> Calls \cup {NoCall}]
            /\ making' \in [Actors -> Calls \cup {NoCall}]
        BY <2>7 DEF TypeControl, AckWake, Goto, Steps
      <3>3. /\ \A a \in Actors : pc'[a] = IF a = t THEN "scan" ELSE pc[a]
            /\ \A u \in Threads :
                 /\ serving'[u] = IF u = t THEN NoCall ELSE serving[u]
                 /\ crit_'[u] =
                      IF u = From[serving[t]] THEN NoOne ELSE crit_[u]
        BY <2>7 DEF TypeControl, AckWake, Goto
      <3>4. \A a \in Actors : pc'[a] \in InCall <=> making'[a] # NoCall
        BY <2>1, <2>7, <3>3 DEF TypeControl, AckWake, InCall
      <3>5. \A u \in Threads :
              pc'[u] \in {"handle", "ackready", "ackwake"} \cup InCall
                <=> serving'[u] # NoCall
        BY <2>1, <2>7, <3>3 DEF TypeControl, Actors, InCall
      <3>6. \A u \in Threads :
              crit_'[u] # NoOne => /\ pc'[crit_'[u]] = "ackwake"
                                   /\ From[serving'[crit_'[u]]] = u
        BY <2>1, <2>7, <3>3 DEF TypeControl, Actors
      <3> QED
        BY <3>1, <3>2, <3>4, <3>5, <3>6 DEF TypeControl
    <2> QED
      BY <2>3, <2>4, <2>5, <2>6, <2>7 DEF LoopStep
  <1> SUFFICES ASSUME TypeOK, [Next]_vars PROVE TypeOK'
    OBVIOUS
  <1>1. TypeOK <=> TypeControl /\ TypeData
    BY DEF TypeOK, TypeControl, TypeData
  <1>2. (TypeOK <=> TypeControl /\ TypeData)'
    BY DEF TypeOK, TypeControl, TypeData
  <1>3. CASE UNCHANGED vars
    BY <1>3 DEF TypeOK, vars, sleeping, answer, history
  <1> QED
    BY <1>1, <1>2, <1>3, <1>TypeBegin, <1>TypeCall, <1>TypeLoop DEF Next

\* The type invariant, for any threads and calls.
THEOREM TypeCorrect == Spec => []TypeOK
  <1>1. Init => TypeOK
    BY ThreadSendAssumption DEF Init, TypeOK, Steps, InCall, Actors
  <1> QED
    BY <1>1, TypeStep, PTL DEF Spec

-----------------------------------------------------------------------------
(* A Send that returned was handled or refused.                            *)

\* The inductive invariant: whoever was answered, or is about to be, was
\* handled; who leaves its wait for good has its answer.
Answered ==
  /\ \A c \in Calls : ready[c] \/ done[c] => c \in handled
  /\ \A t \in Threads : pc[t] = "ackready" => serving[t] \in handled
  /\ \A a \in Actors : pc[a] = "rewake" => ready[making[a]]
  /\ SendIsSynchronous

\* A Send that returned was handled on the target's thread, or was refused by
\* a target that is to quit: no wake-up of the caller is taken for the answer,
\* for any threads, calls and build (thread.cc:873-897).
THEOREM SendsAnswered == Spec => []SendIsSynchronous
  <1>AnsweredStep.
    ASSUME TypeOK, Answered, [Next]_vars
    PROVE  Answered'
    <2> USE <1>AnsweredStep
    <2> USE ThreadSendAssumption
    <2>1. ASSUME NEW a \in Actors, Begin(a) PROVE Answered'
      <3>1. UNCHANGED <<serving, answer, handled>>
        BY <2>1 DEF Begin, Quit, PostBegin, SendBegin, SendDropped
      <3>2. \A c \in returned' : Kind[c] = "send" =>
              c \in returned \/ c \in refused'
        BY <2>1 DEF Begin, Quit, PostBegin, SendBegin, SendDropped, MayCall
      <3>3. refused \subseteq refused'
        BY <2>1 DEF Begin, Quit, PostBegin, SendBegin, SendDropped
      <3>4. \A b \in Actors :
              pc'[b] \in {"ackready", "rewake"} =>
                pc'[b] = pc[b] /\ making'[b] = making[b]
        BY <2>1
        DEF TypeOK, Begin, Quit, PostBegin, SendBegin, SendDropped, Goto
      <3> QED
        BY <3>1, <3>2, <3>3, <3>4
        DEF Answered, SendIsSynchronous, answer, Actors
    <2>2. ASSUME NEW a \in Actors, CallStep(a) PROVE Answered'
      <3>1. UNCHANGED <<serving, ready, handled>> /\ refused \subseteq refused'
        BY <2>2
        DEF CallStep, Post, Enqueue, WakeUp, ReadyCheck, SendWait, Rewake,
            DoneWait, answer, history
      <3>2. \A c \in Calls : done'[c] => done[c]
        BY <2>2
        DEF CallStep, Post, Enqueue, WakeUp, ReadyCheck, SendWait, Rewake,
            DoneWait, answer, TypeOK
      <3>3. \A t \in Threads : pc'[t] = "ackready" => pc[t] = "ackready"
        BY <2>2
        DEF CallStep, Post, Enqueue, WakeUp, ReadyCheck, SendWait, Rewake,
            DoneWait, PostReturns, Returns, Goto, Home, TypeOK, Actors
      <3>4. \A b \in Actors : pc'[b] = "rewake" => ready[making'[b]]
        BY <2>2
        DEF CallStep, Post, Enqueue, WakeUp, ReadyCheck, SendWait, Rewake,
            DoneWait, PostReturns, Returns, Goto, Home, TypeOK, Answered
      <3>5. \A c \in returned' : Kind[c] = "send" =>
              c \in returned \/ c \in handled
        BY <2>2
        DEF CallStep, Post, Enqueue, WakeUp, ReadyCheck, SendWait, Rewake,
            DoneWait, PostReturns, Returns, TypeOK, Answered, InCall, history
      <3> QED
        BY <3>1, <3>2, <3>3, <3>4, <3>5 DEF Answered, SendIsSynchronous
    <2>3. ASSUME NEW t \in Threads, LoopStep(t) PROVE Answered'
      <3>1. /\ UNCHANGED <<making, refused, returned>>
            /\ handled \subseteq handled'
        BY <2>3
        DEF LoopStep, Pull, PullNothing, QuitCheck, Wait, HandleEnd, AckReady,
            AckWake, history
      <3>2. \A c \in Calls : ready'[c] \/ done'[c] =>
              \/ ready[c] \/ done[c]
              \/ c = serving[t] /\ (pc[t] = "ackready" \/ c \in handled')
        BY <2>3
        DEF LoopStep, Pull, PullNothing, QuitCheck, Wait, HandleEnd, AckReady,
            AckWake, answer, TypeOK
      <3>3. \A c \in Calls : ready[c] => ready'[c]
        <4>1. \/ UNCHANGED ready
              \/ ready' = [ready EXCEPT ![serving[t]] = TRUE]
          BY <2>3
          DEF LoopStep, Pull, PullNothing, QuitCheck, Wait, HandleEnd,
              AckReady, AckWake, answer
        <4> QED
          BY <4>1 DEF TypeOK
      <3>4. \A u \in Threads : pc'[u] = "ackready" =>
              serving'[u] = serving[u]
              /\ (pc[u] = "ackready" \/ serving[u] \in handled')
        BY <2>3
        DEF LoopStep, Pull, PullNothing, QuitCheck, Wait, HandleEnd, AckReady,
            AckWake, Goto, TypeOK, Actors
      <3>5. \A b \in Actors : pc'[b] = "rewake" => pc[b] = "rewake"
        BY <2>3
        DEF LoopStep, Pull, PullNothing, QuitCheck, Wait, HandleEnd, AckReady,
            AckWake, Goto, TypeOK
      <3>6. \A b \in Actors : pc[b] = "rewake" => making[b] \in Calls
        BY DEF TypeOK, InCall
      <3> QED
        BY <3>1, <3>2, <3>3, <3>4, <3>5, <3>6 DEF Answered, SendIsSynchronous
    <2>4. CASE UNCHANGED vars
      BY <2>4 DEF vars, answer, history, Answered, SendIsSynchronous
    <2> QED
      BY <2>1, <2>2, <2>3, <2>4 DEF Next
  <1>1. Init => Answered
    BY DEF Init, Answered, SendIsSynchronous, Actors
  <1>2. Answered => SendIsSynchronous
    BY DEF Answered
  <1>3. TypeOK /\ Answered /\ [Next]_vars => Answered'
    BY <1>AnsweredStep
  <1> QED
    BY <1>1, <1>2, <1>3, TypeCorrect, PTL DEF Spec

-----------------------------------------------------------------------------
(* Nobody sleeps through what it sleeps for.                               *)

\* The inductive invariant: from its last look at the list on, a thread that
\* has a message has a wake-up coming, and so has one that is to quit from its
\* look at the flag on.
WakeUpsCome ==
  /\ \A a \in Actors : making[a] # NoCall => From[making[a]] = a
  /\ \A t \in Threads :
       /\ pc[t] = "sendwait" /\ ready[making[t]] => WakeUpComing(t)
       /\ pc[t] \in {"quitcheck", "wait"} /\ queue[t] # <<>> =>
            WakeUpComing(t)
       /\ pc[t] = "wait" /\ stop_[t] => WakeUpComing(t)

\* What a thread sleeps for happens with a wake-up on its way, and the look
\* at it comes before the sleep.
LEMMA WakeUpsStep ==
  ASSUME TypeOK, WakeUpsCome, [Next]_vars
  PROVE  WakeUpsCome'
  \* A wake-up that is coming is lost to nobody but who wakes up.
  <1>WakeUpStays.
    ASSUME TypeOK, [Next]_vars, NEW t \in Threads, WakeUpComing(t),
           pc'[t] = pc[t] \/ pc[t] \notin {"wait", "sendwait"}
    PROVE  WakeUpComing(t)'
    <2> USE <1>WakeUpStays
    <2> USE ThreadSendAssumption
    <2>1. ASSUME NEW a \in Actors, Begin(a) PROVE WakeUpComing(t)'
      <3>1. UNCHANGED <<event, serving>>
        BY <2>1 DEF Begin, Quit, PostBegin, SendBegin, SendDropped, sleeping
      <3>2. \A b \in Actors : pc[b] \in {"wake", "ackwake"} =>
              pc'[b] = pc[b] /\ making'[b] = making[b]
        BY <2>1
        DEF TypeOK, Begin, Quit, PostBegin, SendBegin, SendDropped, Goto,
            MayCall, Home
      <3> QED
        BY <3>1, <3>2 DEF WakeUpComing, Actors
    <2>2. ASSUME NEW a \in Actors, CallStep(a) PROVE WakeUpComing(t)'
      <3>1. UNCHANGED serving
        BY <2>2
        DEF CallStep, Post, Enqueue, WakeUp, ReadyCheck, SendWait, Rewake,
            DoneWait
      <3>2. \A b \in Actors : pc[b] \in {"wake", "ackwake"} =>
              \/ pc'[b] = pc[b] /\ making'[b] = making[b]
              \/ pc[b] = "wake" /\ event'[To[making[b]]]
        BY <2>2
        DEF CallStep, Post, Enqueue, WakeUp, ReadyCheck, SendWait, Rewake,
            DoneWait, PostReturns, Returns, Goto, TypeOK, InCall
      <3>3. event[t] => event'[t]
        <4>1. CASE SendWait(a)
          BY <4>1 DEF SendWait, Goto, TypeOK, Actors
        <4>2. CASE WakeUp(a) \/ Rewake(a)
          <5>1. event \in [Threads -> BOOLEAN]
            BY DEF TypeOK
          <5>2. \E u : event' = [event EXCEPT ![u] = TRUE]
            BY <4>2 DEF WakeUp, Rewake
          <5> QED
            BY <5>1, <5>2
        <4>3. CASE UNCHANGED event
          BY <4>3
        <4> QED
          BY <2>2, <4>1, <4>2, <4>3
          DEF CallStep, Post, Enqueue, ReadyCheck, DoneWait, sleeping
      <3> QED
        BY <3>1, <3>2, <3>3 DEF WakeUpComing, Actors
    <2>3. ASSUME NEW u \in Threads, LoopStep(u) PROVE WakeUpComing(t)'
      <3>1. UNCHANGED making
        BY <2>3
        DEF LoopStep, Pull, PullNothing, QuitCheck, Wait, HandleEnd, AckReady,
            AckWake
      <3>2. \A b \in Actors : pc[b] = "wake" => pc'[b] = "wake"
        BY <2>3
        DEF LoopStep, Pull, PullNothing, QuitCheck, Wait, HandleEnd, AckReady,
            AckWake, Goto, TypeOK
      <3>3. \A v \in Threads : pc[v] = "ackwake" =>
              \/ pc'[v] = "ackwake" /\ serving'[v] = serving[v]
              \/ From[serving[v]] \in Threads => event'[From[serving[v]]]
        BY <2>3
        DEF LoopStep, Pull, PullNothing, QuitCheck, Wait, HandleEnd, AckReady,
            AckWake, Goto, TypeOK, Actors
      <3>4. event[t] => event'[t]
        <4>1. CASE Wait(u)
          BY <4>1 DEF Wait, Goto, TypeOK, Actors
        <4>2. CASE AckWake(u)
          BY <4>2 DEF AckWake, TypeOK
        <4>3. CASE UNCHANGED event
          BY <4>3
        <4> QED
          BY <2>3, <4>1, <4>2, <4>3
          DEF LoopStep, Pull, PullNothing, QuitCheck, HandleEnd, AckReady,
              sleeping
      <3> QED
        BY <3>1, <3>2, <3>3, <3>4 DEF WakeUpComing, Actors
    <2>4. CASE UNCHANGED vars
      BY <2>4 DEF vars, sleeping, WakeUpComing
    <2> QED
      BY <2>1, <2>2, <2>3, <2>4 DEF Next
  <1> USE ThreadSendAssumption
  <1>1. ASSUME NEW a \in Actors, Begin(a)
        PROVE  /\ \A b \in Actors : making'[b] # NoCall => From[making'[b]] = b
               /\ UNCHANGED <<ready, queue>>
               /\ \A t \in Threads : /\ pc'[t] \in {"quitcheck", "wait",
                                                    "sendwait"}
                                          => pc'[t] = pc[t]
                                     /\ pc'[t] = "sendwait"
                                          => making'[t] = making[t]
                                     /\ stop_'[t]
                                          => stop_[t] \/ WakeUpComing(t)'
    <2>1. \A b \in Actors : making'[b] # NoCall => From[making'[b]] = b
      <3>1. \/ UNCHANGED making
            \/ \E c \in Calls : From[c] = a
                               /\ making' = [making EXCEPT ![a] = c]
        BY <1>1 DEF Begin, Quit, PostBegin, SendBegin, SendDropped, MayCall
      <3> QED
        BY <3>1 DEF TypeOK, WakeUpsCome
    <2>2. UNCHANGED <<ready, queue>>
      BY <1>1 DEF Begin, Quit, PostBegin, SendBegin, SendDropped, answer
    <2>3. \A t \in Threads :
            /\ pc'[t] \in {"quitcheck", "wait", "sendwait"} => pc'[t] = pc[t]
            /\ pc'[t] = "sendwait" => making'[t] = making[t]
      BY <1>1
      DEF TypeOK, Begin, Quit, PostBegin, SendBegin, SendDropped, MayCall,
          Goto, Home, Actors
    <2>4. \A t \in Threads : stop_'[t] => stop_[t] \/ WakeUpComing(t)'
      <3>1. CASE UNCHANGED stop_
        BY <3>1
      <3>2. CASE Quit(a)
        <4>1. PICK c \in Calls : /\ stop_' = [stop_ EXCEPT ![To[c]] = TRUE]
                                /\ making' = [making EXCEPT ![a] = c]
          BY <3>2 DEF Quit
        <4>2. pc'[a] = "wake" /\ making'[a] = c
          BY <3>2, <4>1 DEF Quit, Goto, TypeOK
        <4>3. \A t \in Threads : stop_'[t] => stop_[t] \/ t = To[c]
          BY <4>1 DEF TypeOK
        <4> QED
          BY <4>2, <4>3 DEF WakeUpComing
      <3> QED
        BY <1>1, <3>1, <3>2 DEF Begin, PostBegin, SendBegin, SendDropped
    <2> QED
      BY <2>1, <2>2, <2>3, <2>4
  <1>2. ASSUME NEW a \in Actors, CallStep(a)
        PROVE  /\ \A b \in Actors : making'[b] # NoCall => From[making'[b]] = b
               /\ UNCHANGED <<ready, stop_>>
               /\ \A t \in Threads :
                    /\ pc'[t] \in {"quitcheck", "wait"} => pc'[t] = pc[t]
                    /\ pc'[t] = "sendwait"
                         => ~ready[making[t]] \/ pc[t] = "sendwait"
                    /\ pc'[t] = "sendwait" => making'[t] = making[t]
                    /\ queue'[t] # queue[t] => WakeUpComing(t)'
    <2>1. \A b \in Actors : making'[b] # NoCall => From[making'[b]] = b
      BY <1>2
      DEF TypeOK, WakeUpsCome, CallStep, Post, Enqueue, WakeUp, ReadyCheck,
          SendWait, Rewake, DoneWait, PostReturns, Returns
    <2>2. UNCHANGED <<ready, stop_>>
      BY <1>2
      DEF CallStep, Post, Enqueue, WakeUp, ReadyCheck, SendWait, Rewake,
          DoneWait, answer
    <2>3. \A t \in Threads :
            /\ pc'[t] \in {"quitcheck", "wait"} => pc'[t] = pc[t]
            /\ pc'[t] = "sendwait" => ~ready[making[t]] \/ pc[t] = "sendwait"
            /\ pc'[t] = "sendwait" => making'[t] = making[t]
      BY <1>2
      DEF TypeOK, CallStep, Post, Enqueue, WakeUp, ReadyCheck, SendWait,
          Rewake, DoneWait, PostReturns, Returns, Goto, Home, Actors
    <2>4. \A t \in Threads : queue'[t] # queue[t] => WakeUpComing(t)'
      BY <1>2
      DEF TypeOK, CallStep, Post, Enqueue, WakeUp, ReadyCheck, SendWait,
          Rewake, DoneWait, Goto, WakeUpComing
    <2> QED
      BY <2>1, <2>2, <2>3, <2>4
  <1>3. ASSUME NEW u \in Threads, LoopStep(u)
        PROVE  /\ UNCHANGED <<making, stop_>>
               /\ \A t \in Threads :
                    /\ pc'[t] = "sendwait" => pc[t] = "sendwait"
                    /\ pc'[t] = "quitcheck" =>
                         pc[t] = "quitcheck" \/ queue'[t] = <<>>
                    /\ pc'[t] = "wait" =>
                         pc[t] = "wait" \/ (pc[t] = "quitcheck" /\ ~stop_[t])
                    /\ pc'[t] \in {"wait", "quitcheck"} /\ queue'[t] # <<>>
                         => queue[t] # <<>>
                    /\ ready'[making[t]] /\ pc[t] = "sendwait" =>
                         ready[making[t]] \/ WakeUpComing(t)'
    <2>1. UNCHANGED <<making, stop_>>
      BY <1>3
      DEF LoopStep, Pull, PullNothing, QuitCheck, Wait, HandleEnd, AckReady,
          AckWake
    <2>2. \A t \in Threads :
            /\ pc'[t] = "sendwait" => pc[t] = "sendwait"
            /\ pc'[t] = "quitcheck" =>
                 pc[t] = "quitcheck" \/ queue'[t] = <<>>
            /\ pc'[t] = "wait" =>
                 pc[t] = "wait" \/ (pc[t] = "quitcheck" /\ ~stop_[t])
      <3>1. \A t \in Threads : t # u => pc'[t] = pc[t]
        BY <1>3
        DEF TypeOK, LoopStep, Pull, PullNothing, QuitCheck, Wait, HandleEnd,
            AckReady, AckWake, Goto, Actors
      <3>2. /\ pc'[u] # "sendwait"
            /\ pc'[u] = "quitcheck" => queue'[u] = <<>>
            /\ pc'[u] = "wait" => pc[u] = "quitcheck" /\ ~stop_[u]
        BY <1>3
        DEF TypeOK, LoopStep, Pull, PullNothing, QuitCheck, Wait, HandleEnd,
            AckReady, AckWake, Goto, Actors
      <3> TAKE t \in Threads
      <3>3. CASE t = u
        BY <3>2, <3>3, Zenon
      <3>4. CASE t # u
        BY <3>1, <3>4
      <3> QED
        BY <3>3, <3>4
    <2>3. \A t \in Threads :
            pc'[t] \in {"wait", "quitcheck"} /\ queue'[t] # <<>>
              => queue[t] # <<>>
      BY <1>3
      DEF TypeOK, LoopStep, Pull, PullNothing, QuitCheck, Wait, HandleEnd,
          AckReady, AckWake, Goto, Actors
    <2>4. \A t \in Threads :
            ready'[making[t]] /\ pc[t] = "sendwait" =>
              ready[making[t]] \/ WakeUpComing(t)'
      <3> SUFFICES ASSUME NEW t \in Threads, pc[t] = "sendwait",
                          ready'[making[t]], ~ready[making[t]]
                   PROVE  WakeUpComing(t)'
        OBVIOUS
      <3>1. making[t] \in Calls /\ From[making[t]] = t
        BY DEF TypeOK, WakeUpsCome, InCall, Actors
      <3>2. AckReady(u) /\ serving[u] = making[t]
        BY <1>3, <3>1
        DEF TypeOK, LoopStep, Pull, PullNothing, QuitCheck, Wait, HandleEnd,
            AckReady, AckWake, answer
      <3> QED
        BY <3>1, <3>2 DEF TypeOK, AckReady, Goto, WakeUpComing, Actors
    <2> QED
      BY <2>1, <2>2, <2>3, <2>4
  <1>4. \A t \in Threads :
          /\ WakeUpComing(t)
          /\ pc'[t] = pc[t] \/ pc[t] \notin {"wait", "sendwait"}
          => WakeUpComing(t)'
    BY <1>WakeUpStays
  <1>5. ASSUME NEW a \in Actors, Begin(a) PROVE WakeUpsCome'
    BY <1>1, <1>4, <1>5 DEF WakeUpsCome
  <1>6. ASSUME NEW a \in Actors, CallStep(a) PROVE WakeUpsCome'
    BY <1>2, <1>4, <1>6 DEF WakeUpsCome
  <1>7. ASSUME NEW u \in Threads, LoopStep(u) PROVE WakeUpsCome'
    BY <1>3, <1>4, <1>7 DEF WakeUpsCome
  <1>8. CASE UNCHANGED vars
    BY <1>8 DEF vars, sleeping, answer, WakeUpsCome, WakeUpComing
  <1> QED
    BY <1>5, <1>6, <1>7, <1>8 DEF Next

\* A caller never sleeps through its answer, nor a thread through a message or
\* Quit, although its Sends take wake-ups of its queue from the same event,
\* for any threads and calls (thread.cc:873-900, 468-476).
THEOREM NobodySleepsThrough == Spec => []NoSleepThrough
  <1>1. Init => WakeUpsCome
    BY DEF Init, WakeUpsCome, Actors
  <1>2. WakeUpsCome => NoSleepThrough
    BY DEF WakeUpsCome, NoSleepThrough
  <1>3. TypeOK /\ WakeUpsCome /\ [Next]_vars => WakeUpsCome'
    BY WakeUpsStep
  <1> QED
    BY <1>1, <1>2, <1>3, TypeCorrect, PTL DEF Spec

=============================================================================
