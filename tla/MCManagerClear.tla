--------------------------- MODULE MCManagerClear ---------------------------
(* Instances of ManagerClear for TLC. *)
EXTENDS ManagerClear, TLC

CONSTANTS ta, tb, tc, qa, qb, qc, h1, h2

\* Payloads of h1 clear h2 when they are deleted, those of h2 nothing.
Kept == [m \in {"a1", "a2", "a3", "b1", "b2", "b3"} |->
           IF m \in {"a1", "b1", "b3"} THEN h1 ELSE h2]
NoLoop == [m \in DOMAIN Kept |-> IF m \in {"a1", "b1"} THEN h2 ELSE Nil]
ReadyAB == qa :> <<"a1", "a2">> @@ qb :> <<"b2", "b1">> @@ qc :> <<>>
TimersAB == qa :> <<"a3">> @@ qb :> <<"b3">> @@ qc :> <<>>

ListedAB == <<qa, qb>>

ABCalls == {"all1", "all2", "all3", "one1", "add", "del", "del2"}
ABKind == [c \in ABCalls |-> CASE c \in {"all1", "all2", "all3"} -> "clearall"
                               [] c = "one1" -> "clear"
                               [] c = "add" -> "add"
                               [] c \in {"del", "del2"} -> "destroy"]
ABBy == [c \in ABCalls |-> CASE c \in {"all1", "add"} -> ta
                             [] c \in {"all3", "del2"} -> tc
                             [] OTHER -> tb]
ABAbout == [c \in ABCalls |-> CASE c = "add" -> qc
                                [] c \in {"one1", "del2"} -> qa
                                [] OTHER -> qb]
ABFor == [c \in ABCalls |-> IF c \in {"all1", "one1"} THEN h1 ELSE h2]

\* One queue with three timers; the payload of the last one clears h2.
LoopOf == "t1" :> h1 @@ "t2" :> h2 @@ "t3" :> h1
LoopReenters == "t1" :> Nil @@ "t2" :> Nil @@ "t3" :> h2
LoopListed == <<qa>>
LoopReady == qa :> <<>>
LoopTimers == qa :> <<"t1", "t2", "t3">>
LoopKind == "all1" :> "clearall"
LoopBy == "all1" :> ta
LoopAbout == "all1" :> qa
LoopFor == "all1" :> h1

\* One message; a thread clears its queue, another one all queues.
OrderOf == "a1" :> h1
OrderReenters == "a1" :> h2
OrderListed == <<qa>>
OrderReady == qa :> <<"a1">>
OrderTimers == qa :> <<>>
OrderKind == "all2" :> "clearall" @@ "one1" :> "clear"
OrderBy == "all2" :> ta @@ "one1" :> tb
OrderAbout == "all2" :> qa @@ "one1" :> qa
OrderFor == "all2" :> h2 @@ "one1" :> h1

\* All instances meet what the theorems assume, but for the timers of the
\* second one.
Rank == [h \in Handlers |-> IF h = h1 THEN 1 ELSE 0]

ASSUME CallsOnce /\ PayloadsOnce /\ UnlistedEmpty /\ Falls(Rank)
ASSUME TimersPlain <=> Timers # LoopTimers

=============================================================================
