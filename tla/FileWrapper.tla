----------------------------- MODULE FileWrapper -----------------------------
(***************************************************************************)
(* system/file_wrapper.cc: objects that own an open FILE, with moves,      *)
(* Close and Release.  What is read and written is left out.               *)
(***************************************************************************)
EXTENDS FiniteSets

CONSTANTS
  Wrappers,   \* the places of FileWrapper objects
  Files,      \* the files of the system
  nullptr,    \* file_ of a wrapper that owns none
  Destroyed   \* a place without an object

\* What the constants have to satisfy; the instances assume it.
FileAssumption ==
  nullptr \notin Files /\ Destroyed \notin Files \cup {nullptr}

VARIABLES
  file_,     \* what each wrapper owns
  opened,    \* the files that are open
  callers,   \* the open files Release handed to a caller
  bad_close  \* fclose was called on a file that is not open

vars == <<file_, opened, callers, bad_close>>

Alive == {w \in Wrappers : file_[w] # Destroyed}

TypeOK ==
  /\ file_ \in [Wrappers -> Files \cup {nullptr, Destroyed}]
  /\ opened \subseteq Files
  /\ callers \subseteq opened
  /\ bad_close \in BOOLEAN

\* fclose(f), unless f is null
fclose(f) ==
  /\ opened' = opened \ {f}
  /\ bad_close' = (bad_close \/ (f # nullptr /\ f \notin opened))

(***************************************************************************)
(* The operations                                                          *)
(***************************************************************************)
\* OpenReadOnly and OpenWriteOnly: FileOpen gives a file or fails.
Open(w) ==
  /\ file_[w] = Destroyed
  /\ \E f \in (Files \ opened) \cup {nullptr} :
       /\ file_' = [file_ EXCEPT ![w] = f]
       /\ opened' = (opened \cup {f}) \ {nullptr}
  /\ UNCHANGED <<callers, bad_close>>

\* FileWrapper(FILE*) takes over a file its caller owns.
TakeOver(w) ==
  /\ file_[w] = Destroyed
  /\ \E f \in callers :
       /\ file_' = [file_ EXCEPT ![w] = f]
       /\ callers' = callers \ {f}
  /\ UNCHANGED <<opened, bad_close>>

Close(w) ==
  /\ w \in Alive
  /\ fclose(file_[w])
  /\ file_' = [file_ EXCEPT ![w] = nullptr]
  /\ UNCHANGED callers

\* The destructor closes.
Destroy(w) ==
  /\ w \in Alive
  /\ fclose(file_[w])
  /\ file_' = [file_ EXCEPT ![w] = Destroyed]
  /\ UNCHANGED callers

\* The moving constructor: a new object has no file to close.
MoveConstruct(w, other) ==
  /\ file_[w] = Destroyed
  /\ other \in Alive
  /\ file_' = [file_ EXCEPT ![w] = file_[other], ![other] = nullptr]
  /\ UNCHANGED <<opened, callers, bad_close>>

\* Mutant: the moving assignment does not close first.
MoveAssignLeaks(w, other) ==
  /\ {w, other} \subseteq Alive
  /\ file_' = [file_ EXCEPT ![w] = file_[other], ![other] = nullptr]
  /\ UNCHANGED <<opened, callers, bad_close>>

\* operator=(FileWrapper&&): Close comes first, so that a move to itself
\* takes a null pointer over.
MoveAssign(w, other) ==
  /\ {w, other} \subseteq Alive
  /\ fclose(file_[w])
  /\ file_' = [file_ EXCEPT
                 ![w] = IF other = w THEN nullptr ELSE file_[other],
                 ![other] = nullptr]
  /\ UNCHANGED callers

Release(w) ==
  /\ w \in Alive
  /\ callers' = (callers \cup {file_[w]}) \ {nullptr}
  /\ file_' = [file_ EXCEPT ![w] = nullptr]
  /\ UNCHANGED <<opened, bad_close>>

-----------------------------------------------------------------------------
Init ==
  /\ file_ = [w \in Wrappers |-> Destroyed]
  /\ opened = {}
  /\ callers = {}
  /\ bad_close = FALSE

Next ==
  \E w \in Wrappers :
    \/ Open(w) \/ TakeOver(w) \/ Close(w) \/ Destroy(w) \/ Release(w)
    \/ \E other \in Wrappers : MoveConstruct(w, other) \/ MoveAssign(w, other)

Spec == Init /\ [][Next]_vars

-----------------------------------------------------------------------------
(***************************************************************************)
(* Property                                                                *)
(***************************************************************************)
\* Every open file has exactly one owner, a wrapper or the caller of
\* Release: after any sequence of moves no file stays open without an owner
\* and none is closed twice (file_wrapper.cc:72-81, 111-125).
FilesHaveOneOwner ==
  /\ ~bad_close
  /\ \A f \in opened :
       Cardinality({w \in Wrappers : file_[w] = f}) =
         (IF f \in callers THEN 0 ELSE 1)
  /\ \A w \in Wrappers : file_[w] \in opened \cup {nullptr, Destroyed}
=============================================================================
