----------------------------- MODULE ThreadNames -----------------------------
(* The threads and objects of ThreadLife.                                   *)
EXTENDS Naturals

CONSTANTS
  Programs,   \* operating system threads that are not spawned by an object
  Objects,    \* rtc::Thread objects
  MaxStarts,  \* bound: how often one object is started
  None

ASSUME ThreadLifeAssumption ==
  /\ MaxStarts \in Nat
  /\ None \notin Objects
  /\ None \notin Programs \cup (Objects \X (1..MaxStarts))
  /\ Programs \cap (Objects \X (1..MaxStarts)) = {}

\* The thread an object spawns by its n-th Start.
Workers == Objects \X (1..MaxStarts)
OSThreads == Programs \cup Workers

==============================================================================
