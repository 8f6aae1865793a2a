------------------------------- MODULE Mailbox -------------------------------
(***************************************************************************)
(* What the message queue of a thread promises, without its lock, its      *)
(* clock readings, its wake-ups and its one-place peek buffer: an ordered  *)
(* inbox and a set of timers.  A message is accepted at most once, leaves  *)
(* the inbox only from its front, towards a handler, or because it is      *)
(* dropped, and a timer enters the inbox when it is due, earliest first    *)
(* and in order of acceptance among equals.  MessageQueue implements this. *)
(***************************************************************************)
EXTENDS Integers, Sequences

CONSTANT Messages

VARIABLES
  inbox,       \* accepted and due, in the order of delivery
  timers,      \* accepted and waiting for their time
  numTimers,   \* how many timers were accepted so far
  delivered,   \* handed to a handler, in order
  gone,        \* refused or dropped
  now

boxVars == <<inbox, timers, numTimers, delivered, gone, now>>

Known(m) ==
  \/ \E i \in DOMAIN inbox : inbox[i] = m
  \/ \E d \in timers : d.msg = m
  \/ \E i \in DOMAIN delivered : delivered[i] = m
  \/ m \in gone

Earlier(a, b) == a.run < b.run \/ (a.run = b.run /\ a.num < b.num)

Accept(m) ==
  /\ ~Known(m)
  /\ inbox' = Append(inbox, m)
  /\ UNCHANGED <<timers, numTimers, delivered, gone, now>>

AcceptTimer(m, run) ==
  /\ ~Known(m)
  /\ timers' = timers \cup {[run |-> run, num |-> numTimers, msg |-> m]}
  /\ numTimers' = numTimers + 1
  /\ UNCHANGED <<inbox, delivered, gone, now>>

Refuse(m) ==
  /\ ~Known(m)
  /\ gone' = gone \cup {m}
  /\ UNCHANGED <<inbox, timers, numTimers, delivered, now>>

Fire(d) ==
  /\ \A e \in timers : ~Earlier(e, d)
  /\ d.run <= now
  /\ inbox' = Append(inbox, d.msg)
  /\ timers' = timers \ {d}
  /\ UNCHANGED <<numTimers, delivered, gone, now>>

Deliver ==
  /\ inbox # <<>>
  /\ delivered' = Append(delivered, Head(inbox))
  /\ inbox' = Tail(inbox)
  /\ UNCHANGED <<timers, numTimers, gone, now>>

Drop(i) ==
  /\ gone' = gone \cup {inbox[i]}
  /\ inbox' = SubSeq(inbox, 1, i - 1) \o SubSeq(inbox, i + 1, Len(inbox))
  /\ UNCHANGED <<timers, numTimers, delivered, now>>

DropTimer(d) ==
  /\ gone' = gone \cup {d.msg}
  /\ timers' = timers \ {d}
  /\ UNCHANGED <<inbox, numTimers, delivered, now>>

TimePasses ==
  /\ now' = now + 1
  /\ UNCHANGED <<inbox, timers, numTimers, delivered, gone>>

Init ==
  /\ inbox = <<>>
  /\ timers = {}
  /\ numTimers = 0
  /\ delivered = <<>>
  /\ gone = {}
  /\ now = 0

\* A timer's run time is any time a caller asked for; only its being due
\* matters, so it is taken from what appears among the timers.
Next ==
  \/ \E m \in Messages : Accept(m) \/ Refuse(m)
  \/ \E m \in Messages : \E d \in timers' : AcceptTimer(m, d.run)
  \/ \E d \in timers : Fire(d) \/ DropTimer(d)
  \/ \E i \in DOMAIN inbox : Drop(i)
  \/ Deliver
  \/ TimePasses

Spec == Init /\ [][Next]_boxVars

==============================================================================
