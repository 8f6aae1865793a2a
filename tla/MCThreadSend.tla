----------------------------- MODULE MCThreadSend -----------------------------
(* Instances of ThreadSend for TLC. *)
EXTENDS ThreadSend, TLC

CONSTANTS ta, tb, tc, out

\* Posts from outside start two handlers, a Send the third; ta sends to tb, tb
\* to tc, tc to ta; tb may be told to quit.
RingCalls == {"xa", "xb", "ab", "bc", "ca", "xqb"}
RingKind == [k \in RingCalls |->
               CASE k \in {"ab", "bc", "ca"} -> "send"
                 [] k = "xqb" -> "quit"
                 [] OTHER -> "post"]
RingFrom == "xa" :> out @@ "xb" :> out @@ "xqb" :> out
              @@ "ab" :> ta @@ "bc" :> tb @@ "ca" :> tc
RingTo == "xa" :> ta @@ "xb" :> tb @@ "xqb" :> tb
            @@ "ab" :> tb @@ "bc" :> tc @@ "ca" :> ta

\* Two threads: ta and the outsider send to tb, tb posts to ta.
PairCalls == {"xa", "ab", "ba", "xsb"}
PairKind == [k \in PairCalls |->
               IF k \in {"ab", "xsb"} THEN "send" ELSE "post"]
PairFrom == "xa" :> out @@ "ab" :> ta @@ "ba" :> tb @@ "xsb" :> out
PairTo == "xa" :> ta @@ "ab" :> tb @@ "ba" :> ta @@ "xsb" :> tb

\* The same, and the outsider tells tb to quit.
QuitCalls == PairCalls \cup {"xqb"}
QuitKind == "xqb" :> "quit" @@ PairKind
QuitFrom == "xqb" :> out @@ PairFrom
QuitTo == "xqb" :> tb @@ PairTo

=============================================================================
