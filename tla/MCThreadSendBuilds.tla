-------------------------- MODULE MCThreadSendBuilds --------------------------
(* Two systems in one run: three threads of a debug build that could send in *)
(* a circle, and two threads and an outsider of a release build in which one *)
(* thread is told to quit.  One of them moves, the other stays as it is.     *)
EXTENDS MCThreadSend

VARIABLES
  build,   \* which of the two moves
  r_queue, r_stop_, r_event, r_crit_, r_pc, r_making, r_waited, r_serving,
  r_ready, r_done, r_send_graph_, r_begun, r_handled, r_refused, r_returned

r_vars == <<r_queue, r_stop_, r_event, r_crit_, r_pc, r_making, r_waited,
            r_serving, r_ready, r_done, r_send_graph_, r_begun, r_handled,
            r_refused, r_returned>>

Release == INSTANCE ThreadSend WITH
  Threads <- {ta, tb},
  Calls <- QuitCalls,
  Kind <- QuitKind,
  From <- QuitFrom,
  To <- QuitTo,
  Checked <- FALSE,
  queue <- r_queue, stop_ <- r_stop_, event <- r_event, crit_ <- r_crit_,
  pc <- r_pc, making <- r_making, waited <- r_waited, serving <- r_serving,
  ready <- r_ready, done <- r_done, send_graph_ <- r_send_graph_,
  begun <- r_begun, handled <- r_handled, refused <- r_refused,
  returned <- r_returned

MCVars == <<build, vars, r_vars>>

MCInit == build \in {"debug", "release"} /\ Init /\ Release!Init

OfDebug(A) == build = "debug" /\ A /\ UNCHANGED <<build, r_vars>>
OfRelease(A) == build = "release" /\ A /\ UNCHANGED <<build, vars>>

MCNext == OfDebug(Next) \/ OfRelease(Release!Next)

\* The fairness of ThreadSend, for the release build.
MCSpec ==
  /\ MCInit /\ [][MCNext]_MCVars
  /\ \A a \in {ta, tb, out} : WF_MCVars(OfRelease(Release!CallStep(a)))
  /\ \A t \in {ta, tb} : WF_MCVars(OfRelease(Release!LoopStep(t)))

\* Every Send of the release build returns, unless its target is to quit.
EverySendReturns == Release!SendReturnsOrQuits

=============================================================================
