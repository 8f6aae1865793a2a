--------------------------------- MODULE Trace ---------------------------------
(***************************************************************************)
(* Tracing (src/trace_impl_c.c): output streams that any thread may        *)
(* register and write to, without a lock.  A stream keeps its first        *)
(* wrap_line_number lines and writes the others in a ring after them.  A   *)
(* line is a number, the place it has among those for its file, and all    *)
(* take the same room; of its text only the length is kept.  Every access  *)
(* to a counter that threads share is a step; stdio locks each call.       *)
(***************************************************************************)
EXTENDS Integers, Sequences, FiniteSetsExt

CONSTANTS
  Threads,
  Files,          \* besides stdout
  stdout, NoFile,
  Levels,         \* the bits of a filter
  MaxStreams,     \* WEBRTC_TRACE_MAX_OSTREAM_NUMBER, 3 in the code
  MaxRows,        \* WEBRTC_TRACE_MAX_FILE_SIZE, 1000 in the code
  WrapLines,      \* the wrap_line_number of streams
  MaxMessage,     \* WEBRTC_TRACE_MAX_MESSAGE_SIZE, 1024 in the code
  MsgLengths,     \* the lengths of messages
  MaxLines        \* bound: calls of WebRtcTrace_Add

\* Levels exist, a stream fits in, and a line has room for what precedes its
\* message; no stream is registered for stdout, and NoFile is no file.
TraceAssumption ==
  /\ Levels # {} /\ MaxStreams \in Nat \ {0} /\ MaxRows \in Nat \ {0}
  /\ WrapLines \subseteq Nat /\ MsgLengths \subseteq Nat
  /\ MaxMessage \in Nat /\ MaxMessage > 74
  /\ stdout \notin Files /\ NoFile \notin Files \cup {stdout}

VARIABLES
  handle_number, handles,  \* trace_impl_
  done,     \* has once run TraceInit
  files,    \* per file: its lines and the position of the next write
  tpc,      \* per thread: its step,
  i,        \* the handle it is at,
  arg,      \* its argument: a line, or a stream,
  loaded,   \* and a counter it has loaded
  added,    \* calls of WebRtcTrace_Add
  given     \* history, per file: the lines for it

vars == <<handle_number, handles, done, files, tpc, i, arg, loaded, added, given>>

kTraceDefault == Levels
NoStream == [file |-> NoFile, filter |-> {}, wrap_line_number |-> 0]
NewHandle == [ostream |-> NoStream, wrap_offset |-> 0, row_count_text |-> 0]
AllFiles == Files \cup {stdout}

-----------------------------------------------------------------------------
(* The text of a line: the lengths of its parts, and the whole.            *)

\* A level that is not one of the known ones adds nothing, as a module.
AddLevel(known) == IF known THEN 12 ELSE 0
AddTime == 15
AddModuleAndId(known) == IF known THEN 25 ELSE 0
\* "%10lu; " of a number of that many digits.
AddThreadId(digits) == Max({10, digits}) + 2

\* Mutant: no room is left for the newline and the NUL.
AddTraceMessageNoRoom(len, written_so_far) ==
  IF written_so_far >= MaxMessage THEN -1
  ELSE Min({len, MaxMessage - written_so_far}) + 1

AddTraceMessage(len, written_so_far) ==
  IF written_so_far >= MaxMessage THEN -1
  ELSE Min({len, MaxMessage - written_so_far - 2}) + 1

\* ack_len: the newline is its last character and a NUL follows.
AddImpl(level, module, digits, len) ==
  LET written == AddLevel(level) + AddTime + AddModuleAndId(module)
                 + AddThreadId(digits)
  IN written + AddTraceMessage(len, written)

-----------------------------------------------------------------------------
(* Files.                                                                  *)

ftell(f) == files[f].pos
fseek(f, pos) == files' = [files EXCEPT ![f].pos = pos]
Written(file, line) ==
  [lines |-> IF file.pos < Len(file.lines)
             THEN [file.lines EXCEPT ![file.pos + 1] = line]
             ELSE Append(file.lines, line),
   pos |-> file.pos + 1]
fwrite(f, line) == files' = [files EXCEPT ![f] = Written(@, line)]

Header == 0  \* the line of AddDateTimeInfo

-----------------------------------------------------------------------------
(* Calls.                                                                  *)

Goto(t, step) == tpc' = [tpc EXCEPT ![t] = step]
At(t, step) == tpc[t] = step
Enter(t, step) == At(t, "idle") /\ Goto(t, step)

CheckLevel(handle, level) == level \in handle.ostream.filter
Handles == 1..handle_number
TraceCheck(level) == \E h \in Handles : CheckLevel(handles[h], level)

\* TraceInit, once: stdout when there is no stream, and the headers.
TraceInit ==
  LET none == handle_number = 0
      default == [file |-> stdout, filter |-> kTraceDefault,
                  wrap_line_number |-> 0]
      headed == IF none THEN {stdout}
                ELSE {handles[h].ostream.file : h \in Handles}
  IN /\ done' = TRUE
     /\ handle_number' = IF none THEN 1 ELSE handle_number
     /\ handles' = IF none THEN [handles EXCEPT ![1].ostream = default]
                   ELSE handles
     /\ files' = [f \in AllFiles |->
          IF f \in headed THEN Written(files[f], Header) ELSE files[f]]

NoArg == [level |-> CHOOSE l \in Levels : TRUE, line |-> 0, length |-> 0,
          stream |-> NoStream]

AddBegin(t, level, len) ==
  /\ added < MaxLines
  /\ Enter(t, "check")
  /\ IF done THEN UNCHANGED <<handle_number, handles, done, files>>
     ELSE TraceInit
  /\ arg' = [arg EXCEPT ![t].level = level,
                        ![t].length = AddImpl(TRUE, TRUE, 20, len)]
  /\ added' = added + 1
  /\ UNCHANGED <<i, loaded, given>>

AddCheck(t) ==
  /\ At(t, "check")
  /\ IF TraceCheck(arg[t].level) THEN Goto(t, "list") /\ UNCHANGED arg
     ELSE Goto(t, "idle") /\ arg' = [arg EXCEPT ![t] = NoArg]
  /\ UNCHANGED <<handle_number, handles, done, files, i, loaded, added, given>>

\* AddTraceMessageToList, and the first look of WriteToFile at its handle.
ToList(t) ==
  LET h == i[t]
      f == handles[h].ostream.file
  IN /\ At(t, "list")
     /\ IF h > handle_number
        THEN /\ Goto(t, "idle")
             /\ i' = [i EXCEPT ![t] = 1] /\ arg' = [arg EXCEPT ![t] = NoArg]
             /\ UNCHANGED given
        ELSE IF ~CheckLevel(handles[h], arg[t].level) \/ f = NoFile
        THEN i' = [i EXCEPT ![t] = h + 1] /\ UNCHANGED <<tpc, arg, given>>
        ELSE /\ Goto(t, "rows")
             /\ given' = [given EXCEPT ![f] = @ + 1]
             /\ arg' = [arg EXCEPT ![t].line = given[f] + 1]
             /\ UNCHANGED i
     /\ UNCHANGED <<handle_number, handles, done, files, loaded, added>>

-----------------------------------------------------------------------------
(* WriteToFile.                                                            *)

Row(t) == handles[i[t]].row_count_text
Wrap(t) == handles[i[t]].ostream.wrap_line_number
File(t) == handles[i[t]].ostream.file
Fixed == UNCHANGED <<handle_number, done, arg, added, given>>

Rows(t) ==
  /\ At(t, "rows")
  /\ Goto(t, IF Row(t) >= Wrap(t) THEN "mark" ELSE "put")
  /\ UNCHANGED <<handles, files, i, loaded>> /\ Fixed

Mark(t) ==
  /\ At(t, "mark")
  /\ handles' = IF Row(t) = Wrap(t)
                THEN [handles EXCEPT ![i[t]].wrap_offset = ftell(File(t))]
                ELSE handles
  /\ Goto(t, "full")
  /\ UNCHANGED <<files, i, loaded>> /\ Fixed

\* Mutant: the ring starts over at the first row.
FullStartsOver(t) ==
  /\ At(t, "full")
  /\ IF Row(t) >= MaxRows
     THEN /\ handles' = [handles EXCEPT ![i[t]].row_count_text = 0]
          /\ Goto(t, "seek")
     ELSE UNCHANGED handles /\ Goto(t, "put")
  /\ UNCHANGED <<files, i, loaded>> /\ Fixed

Full(t) ==
  /\ At(t, "full")
  /\ IF Row(t) >= MaxRows
     THEN /\ handles' = [handles EXCEPT ![i[t]].row_count_text = Wrap(t)]
          /\ Goto(t, "seek")
     ELSE UNCHANGED handles /\ Goto(t, "put")
  /\ UNCHANGED <<files, i, loaded>> /\ Fixed

Seek(t) ==
  /\ At(t, "seek")
  /\ fseek(File(t), handles[i[t]].wrap_offset)
  /\ Goto(t, "put")
  /\ UNCHANGED <<handles, i, loaded>> /\ Fixed

Put(t) ==
  /\ At(t, "put")
  /\ IF Row(t) < MaxRows
     THEN fwrite(File(t), arg[t].line) /\ Goto(t, "count") /\ UNCHANGED i
     ELSE /\ UNCHANGED files
          /\ Goto(t, "list") /\ i' = [i EXCEPT ![t] = @ + 1]
  /\ UNCHANGED <<handles, loaded>> /\ Fixed

\* row_count_text++ loads and stores.
Count(t) ==
  /\ At(t, "count")
  /\ loaded' = [loaded EXCEPT ![t] = Row(t)]
  /\ Goto(t, "next")
  /\ UNCHANGED <<handles, files, i>> /\ Fixed

NextHandle(t) ==
  /\ At(t, "next")
  /\ handles' = [handles EXCEPT ![i[t]].row_count_text = loaded[t] + 1]
  /\ i' = [i EXCEPT ![t] = @ + 1]
  /\ Goto(t, "list")
  /\ loaded' = [loaded EXCEPT ![t] = 0]
  /\ UNCHANGED files /\ Fixed

-----------------------------------------------------------------------------
(* Streams and their filters.                                              *)

SetOStream(t, f, filter, wrap) ==
  /\ handle_number < MaxStreams
  /\ \A h \in Handles : handles[h].ostream.file # f
  /\ Enter(t, "register")
  /\ arg' = [arg EXCEPT ![t].stream =
       [file |-> f, filter |-> filter, wrap_line_number |-> wrap]]
  /\ UNCHANGED <<handle_number, handles, done, files, i, loaded, added, given>>

HandleAt(h) == IF h \in DOMAIN handles THEN handles[h] ELSE NewHandle

\* memcpy to the slot, and the first half of handle_number++.  When another
\* thread took the last slot after SetOStream looked, the copy goes behind the
\* array, undefined in C: here there is one more slot, which nobody else uses.
SetOStreamCopy(t) ==
  LET slot == handle_number + 1
  IN /\ At(t, "register")
     /\ handles' = [h \in DOMAIN handles \cup {slot} |->
          IF h = slot THEN [HandleAt(h) EXCEPT !.ostream = arg[t].stream]
          ELSE handles[h]]
     /\ loaded' = [loaded EXCEPT ![t] = handle_number]
     /\ Goto(t, "registered")
     /\ UNCHANGED <<handle_number, done, files, i, arg, added, given>>

SetOStreamEnd(t) ==
  /\ At(t, "registered")
  /\ handle_number' = loaded[t] + 1
  /\ Goto(t, "idle")
  /\ arg' = [arg EXCEPT ![t] = NoArg]
  /\ loaded' = [loaded EXCEPT ![t] = 0]
  /\ UNCHANGED <<handles, done, files, i, added, given>>

\* NoFile stands for all files.
set_level_filter(t, f, filter) ==
  /\ Enter(t, "idle")
  /\ handles' = [h \in DOMAIN handles |->
       IF h <= handle_number /\ f \in {NoFile, handles[h].ostream.file}
       THEN [handles[h] EXCEPT !.ostream.filter = filter] ELSE handles[h]]
  /\ UNCHANGED <<handle_number, done, files, i, arg, loaded, added, given>>

level_filter(f) ==
  LET found == {h \in Handles : handles[h].ostream.file = f}
  IN IF found = {} THEN {} ELSE handles[Min(found)].ostream.filter

Init ==
  /\ handle_number = 0
  /\ handles = [h \in 1..MaxStreams |-> NewHandle]
  /\ done = FALSE
  /\ files = [f \in AllFiles |-> [lines |-> <<>>, pos |-> 0]]
  /\ tpc = [t \in Threads |-> "idle"]
  /\ i = [t \in Threads |-> 1]
  /\ arg = [t \in Threads |-> NoArg]
  /\ loaded = [t \in Threads |-> 0]
  /\ added = 0
  /\ given = [f \in AllFiles |-> 0]

Next == \E t \in Threads :
  \/ \E level \in Levels, len \in MsgLengths : AddBegin(t, level, len)
  \/ AddCheck(t) \/ ToList(t)
  \/ Rows(t) \/ Mark(t) \/ Full(t) \/ Seek(t) \/ Put(t) \/ Count(t)
  \/ NextHandle(t)
  \/ \E f \in Files, filter \in SUBSET Levels :
       \E wrap \in WrapLines : SetOStream(t, f, filter, wrap)
  \/ SetOStreamCopy(t) \/ SetOStreamEnd(t)
  \/ \E f \in Files \cup {NoFile}, filter \in SUBSET Levels :
       set_level_filter(t, f, filter)

Spec == Init /\ [][Next]_vars

-----------------------------------------------------------------------------
(* Properties.                                                             *)

Quiet == \A t \in Threads : At(t, "idle")
HeaderOf(f) ==
  IF files[f].lines # <<>> /\ files[f].lines[1] = Header THEN 1 ELSE 0

\* The line that row r shows after n lines: the newest of those it is for.
RowShows(r, n, wrap) ==
  IF r <= wrap THEN r
  ELSE Max({k \in r..n : (k - r) % (MaxRows - wrap) = 0})

\* With one thread at a time, a stream shows its first
\* wrap_line_number lines for ever and in the other rows the newest lines,
\* in a ring, never more than WEBRTC_TRACE_MAX_FILE_SIZE of them; and every
\* line fits its buffer with its newline and a NUL, whatever the length of
\* the message (trace_impl_c.c:403-415, 470-471, 529-556).
StreamsShowNewest ==
  /\ \A t \in Threads : arg[t].length < MaxMessage
  /\ Quiet => \A h \in Handles :
       LET f == handles[h].ostream.file
           n == given[f]
           wrap == handles[h].ostream.wrap_line_number
       IN files[f].lines = [r \in 1..(HeaderOf(f) + Min({n, MaxRows})) |->
            IF r <= HeaderOf(f) THEN Header
            ELSE RowShows(r - HeaderOf(f), n, wrap)]

\* The lines before wrap_line_number stay: only the others "will be wrap
\* written" (trace_impl_c.c:524-528).
KeepsFirstLines ==
  [][\A h \in Handles :
       LET f == handles[h].ostream.file
       IN \A r \in 1..(HeaderOf(f) + handles[h].ostream.wrap_line_number) :
            f # NoFile /\ r <= Len(files[f].lines)
              => files'[f].lines[r] = files[f].lines[r]]_vars

===============================================================================
