------------------------------- MODULE FileUtil -------------------------------
(***************************************************************************)
(* muduo::FileUtil: readFile(), which opens a SmallFile and calls its      *)
(* readToString().  Bytes are numbered; 0 is a byte the caller's string    *)
(* held before.  errno is an error or None.                                *)
(***************************************************************************)
EXTENDS Integers, SequencesExt, FiniteSetsExt

CONSTANTS
  MaxFile,               \* bound: bytes of a file
  SmallBuf               \* sizeof(buf_)

VARIABLES
  fileKind, fileBytes,   \* "regular", "directory" or "missing"; size of the file
  maxSize, wantsSize,    \* the arguments: maxSize, and whether fileSize is not NULL
  content, err,          \* *content, and the error so far
  filePc                 \* "call", "reading" or "returned"

fileVars == <<fileKind, fileBytes, maxSize, wantsSize, content, err, filePc>>
arguments == <<fileKind, fileBytes, maxSize, wantsSize>>

None == "none"
OldContent == [i \in 1 .. MaxFile |-> 0]

FileInit ==
  /\ fileKind \in {"regular", "directory", "missing"} /\ maxSize \in 0 .. MaxFile
  /\ fileBytes \in (IF fileKind = "regular" THEN 0 .. MaxFile ELSE {0})
  /\ wantsSize \in BOOLEAN /\ content = OldContent /\ err = None /\ filePc = "call"

(* open() fails, and the caller's string is left as it was. *)
OpenFails ==
  /\ filePc = "call" /\ fileKind = "missing"
  /\ err' = "ENOENT" /\ filePc' = "returned"
  /\ UNCHANGED <<arguments, content>>

(* A bug: the caller's string is added to. *)
OpenFile_NoClear ==
  /\ filePc = "call" /\ fileKind # "missing"
  /\ filePc' = "reading"
  /\ err' \in IF ~wantsSize THEN {None}
              ELSE {IF fileKind = "directory" THEN "EISDIR" ELSE None, "fstat"}
  /\ UNCHANGED <<arguments, content>>

(* The string is cleared; fstat(), which may fail too, is called only for  *)
(* the size, and neither its failure nor a directory ends the call.        *)
OpenFile ==
  /\ filePc = "call" /\ fileKind # "missing"
  /\ content' = <<>> /\ filePc' = "reading"
  /\ err' \in IF ~wantsSize THEN {None}
              ELSE {IF fileKind = "directory" THEN "EISDIR" ELSE None, "fstat"}
  /\ UNCHANGED arguments

ToRead == Min({maxSize - Len(content), SmallBuf})

(* read() returns n > 0 bytes, perhaps fewer than asked for. *)
ReadSome(n) ==
  /\ filePc = "reading" /\ fileKind = "regular" /\ Len(content) < maxSize
  /\ n \in 1 .. ToRead /\ n <= fileBytes - Len(content)
  /\ content' = content \o [i \in 1 .. n |-> Len(content) + i]
  /\ UNCHANGED <<arguments, err, filePc>>

(* The loop ends: enough, the end of the file, or an error of read(). *)
ReadEnds ==
  /\ filePc = "reading" /\ filePc' = "returned"
  /\ \/ Len(content) >= maxSize /\ UNCHANGED err
     \/ Len(content) < maxSize /\ fileKind = "regular" /\ Len(content) = fileBytes /\ UNCHANGED err
     \/ Len(content) < maxSize /\ err' = "read"
  /\ UNCHANGED <<arguments, content>>

FileNext == OpenFails \/ OpenFile \/ ReadEnds \/ \E n \in 1 .. MaxFile : ReadSome(n)

(* However read() cuts the file and whatever fails, readFile() returns     *)
(* with a beginning of the file in *content, no longer than maxSize and,   *)
(* without an error, as long as both allow; but when the file cannot be    *)
(* opened, with an error and what *content held before.                    *)
ReadsThePrefix ==
  LET prefix(n) == [i \in 1 .. n |-> i] IN
  filePc = "returned" =>
    \/ fileKind = "missing" /\ err # None /\ content = OldContent
    \/ /\ content = prefix(Len(content)) /\ Len(content) <= maxSize
       /\ err = None => content = prefix(Min({maxSize, fileBytes}))
=============================================================================
