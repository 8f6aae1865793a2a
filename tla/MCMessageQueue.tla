---------------------------- MODULE MCMessageQueue ----------------------------
(* Instances of MessageQueue for TLC. *)
EXTENDS MessageQueue, TLC

CONSTANTS m1, m2, m3, h1, c1, c2, w

\* One message to dispose of among ordinary ones.
HandlersA == (m1 :> h1) @@ (m2 :> h1) @@ (m3 :> NoHandler)

\* All messages for one handler.
HandlersB == [m \in Messages |-> h1]

Forever == {kForever}
Polling == {0, kForever}

\* The finite horizon of the clock caps every counter that follows it.
Symmetry == Permutations({c1, c2})

=============================================================================
