-------------------------------- MODULE Storage --------------------------------
(***************************************************************************)
(* The components that own storage, values or files for one thread.  Each  *)
(* behaviour is one of the component that subject names, and all others    *)
(* stay as they are: they do not touch each other.                         *)
(***************************************************************************)
EXTENDS Integers

CONSTANTS
  BufferObjects, Elements, ZeroOnFree, DcheckOn, MaxData, MaxSize,
  OptionalObjects, OptionalValues,
  FileObjects, Files, nullptr, Destroyed,
  LastAddress, HeaderSize, Alignments, MaxBytes, MaxBlocks

VARIABLE subject   \* the component this behaviour is one of

VARIABLES
  bufs, content, left
buffers_vars == <<bufs, content, left>>
Buffers == INSTANCE Buffer WITH
  Objects <- BufferObjects

VARIABLES
  opts, holds
optionals_vars == <<opts, holds>>
Optionals == INSTANCE OptionalValue WITH
  Objects <- OptionalObjects,
  Values <- OptionalValues

VARIABLES
  file_, opened, callers, bad_close
files_vars == <<file_, opened, callers, bad_close>>
Wrappers == INSTANCE FileWrapper WITH
  Wrappers <- FileObjects

VARIABLES
  heap, memory, blocks
memory_vars == <<heap, memory, blocks>>
Aligned == INSTANCE AlignedMemory

ASSUME StorageAssumption ==
  /\ Buffers!BufferAssumption
  /\ Optionals!OptionalAssumption
  /\ Wrappers!FileAssumption
  /\ Aligned!AlignedAssumption

StorageInit ==
  /\ Buffers!Init
  /\ Optionals!Init
  /\ Wrappers!Init
  /\ Aligned!Init

\* The subject takes a step.
StorageNext ==
  /\ UNCHANGED subject
  /\ IF subject = "buffers" THEN Buffers!Next ELSE UNCHANGED buffers_vars
  /\ IF subject = "optionals" THEN Optionals!Next ELSE UNCHANGED optionals_vars
  /\ IF subject = "files" THEN Wrappers!Next ELSE UNCHANGED files_vars
  /\ IF subject = "memory" THEN Aligned!Next ELSE UNCHANGED memory_vars

storage_vars ==
  <<subject, buffers_vars, optionals_vars, files_vars, memory_vars>>

StorageSpec == StorageInit /\ [][StorageNext]_storage_vars

-----------------------------------------------------------------------------
(* The properties of the components, each looked at in its own behaviours.   *)

\* A buffer holds what it was filled with, and a block it releases nothing
\* (Buffer).
BuffersKeep ==
  subject = "buffers" =>
    Buffers!TypeOK /\ Buffers!HoldsItsContent /\ Buffers!NothingStaysBehind

\* Values, files and aligned blocks have one owner, which releases them once
\* (OptionalValue, FileWrapper, AlignedMemory).
OwnedOnce ==
  /\ subject = "optionals" => Optionals!TypeOK /\ Optionals!LivesOnce
  /\ subject = "files" => Wrappers!TypeOK /\ Wrappers!FilesHaveOneOwner
  /\ subject = "memory" => Aligned!BlocksAreSound

=============================================================================
