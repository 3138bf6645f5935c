------------------------------ MODULE NandFiles ------------------------------
(***************************************************************************)
(* NAND files on the SD card (switch_nand_open_runtime.cpp): a guest path  *)
(* becomes a host path below nand_root, an open puts a host stream into a  *)
(* table under a new descriptor, and the guest's NANDFileInfo keeps the    *)
(* descriptor and an open flag of its own.  The asynchronous entry points  *)
(* run these operations at once and queue their result as a callback       *)
(* (module DeferredCallbacks).                                             *)
(*                                                                         *)
(* What the table knows and what the file infos say is related only by     *)
(* the operations, of which each may fail half way.                        *)
(***************************************************************************)
EXTENDS Integers, Sequences, SequencesExt, FiniteSets

CONSTANTS
  Infos,       \* addresses of NANDFileInfo structures
  GuestPaths,  \* path strings, split at their slashes
  DataDir,     \* CurrentDataDir(), split likewise
  Size,        \* bytes in a file that is there from the start
  MaxOpens     \* bound: opens in one run

\* To be assumed where the module is used.
PathsTyped ==
  /\ DataDir \in Seq(STRING)
  /\ \A p \in GuestPaths : p.absolute \in BOOLEAN /\ p.parts \in Seq(STRING)

VARIABLES
  word,        \* the descriptor in each NANDFileInfo
  openFlag,    \* its byte at kOpenFlagOffset
  handles,     \* g_fileHandles: descriptor to host path and stream
  nextFd,      \* g_nextFd, from 1 instead of 100
  streams,     \* host streams that are open, and how far each has been read
  files,       \* host files that exist, and their sizes
  undefined,   \* a stream was used after fclose
  stream       \* history: the guest path an info was opened with and what was read, until it is closed

vars == <<word, openFlag, handles, nextFd, streams, files, undefined, stream>>

Closed == [path |-> <<>>, read |-> -1]

(***************************************************************************)
(* Paths.  A path is [absolute, parts]; the parts are what is between the  *)
(* slashes, so that "/a//b" has an empty part.  Replacing backslashes and  *)
(* reading the string out of guest memory are not in the model.            *)
(***************************************************************************)
Step(parts, part) ==
  IF part = ".." THEN IF parts = <<>> THEN parts ELSE Front(parts)
  ELSE IF part \in {"", "."} THEN parts
  ELSE Append(parts, part)

\* What the first n parts leave, for the path s.
Resolved(s) ==
  LET after[n \in 0 .. Len(s)] == IF n = 0 THEN <<>> ELSE Step(after[n - 1], s[n])
  IN  after[Len(s)]

Normalize(p) == Resolved(IF p.absolute THEN p.parts ELSE DataDir \o p.parts)

(***************************************************************************)
(* Operations                                                              *)
(***************************************************************************)
Init ==
  /\ word = [i \in Infos |-> 0] /\ openFlag = [i \in Infos |-> 0]
  /\ handles = <<>> /\ nextFd = 1 /\ streams = <<>>
  /\ \E there \in SUBSET {Normalize(p) : p \in GuestPaths} : files = [path \in there |-> Size]
  /\ undefined = FALSE
  /\ stream = [i \in Infos |-> Closed]

\* fopen succeeds and g_nextFd is advanced; descriptors and streams are numbered alike.
TakeStream ==
  /\ streams' = [n \in DOMAIN streams \cup {nextFd} |-> IF n = nextFd THEN 0 ELSE streams[n]]
  /\ nextFd' = nextFd + 1

\* Faulty variant: the lowest free descriptor is used again.
PutAtLowest(i, p, path) ==
  LET fd == CHOOSE n \in 1 .. nextFd : n \notin DOMAIN handles /\ \A k \in 1 .. n - 1 : k \in DOMAIN handles
  IN  /\ handles' = [n \in DOMAIN handles \cup {fd} |-> IF n = fd THEN [path |-> path, file |-> nextFd] ELSE handles[n]]
      /\ word' = [word EXCEPT ![i] = fd] /\ openFlag' = [openFlag EXCEPT ![i] = 1]
      /\ stream' = [stream EXCEPT ![i] = [path |-> p, read |-> 0]]

\* Faulty variant: a file that is open already is not opened again.
PutShared(i, p, path) ==
  LET open == {fd \in DOMAIN handles : handles[fd].path = path}
      file == IF open = {} THEN nextFd ELSE handles[CHOOSE fd \in open : TRUE].file
  IN  /\ handles' = [n \in DOMAIN handles \cup {nextFd} |-> IF n = nextFd THEN [path |-> path, file |-> file] ELSE handles[n]]
      /\ word' = [word EXCEPT ![i] = nextFd] /\ openFlag' = [openFlag EXCEPT ![i] = 1]
      /\ stream' = [stream EXCEPT ![i] = [path |-> p, read |-> 0]]

\* The success path of OpenSync from there on.
Put(i, p, path) ==
  /\ handles' = [n \in DOMAIN handles \cup {nextFd} |->
                   IF n = nextFd THEN [path |-> path, file |-> nextFd] ELSE handles[n]]
  /\ word' = [word EXCEPT ![i] = nextFd] /\ openFlag' = [openFlag EXCEPT ![i] = 1]
  /\ stream' = [stream EXCEPT ![i] = [path |-> p, read |-> 0]]

\* Mode 1 needs the file.  Modes 2 and 3 try "r+b" and, if the host refuses that,
\* "w+b", which creates the file, directories included, or empties it.
Opened(path, mode) ==
  {files} \cup IF mode = 1 THEN {}
               ELSE {[k \in DOMAIN files \cup {path} |-> IF k = path THEN 0 ELSE files[k]]}

\* Calls that fail before fopen succeeds change no state of the model and are not
\* steps of it.  One that fails after it (no memory for the table's entry) leaves the
\* stream behind, which nothing closes, and what fopen did to the file.
OpenSync(i, p, mode) ==
  LET path == Normalize(p)
  IN  /\ ~undefined /\ nextFd <= MaxOpens
      /\ path # <<>>  \* a directory is not opened
      /\ files' \in Opened(path, mode)
      /\ path \in DOMAIN files'
      /\ TakeStream
      /\ Put(i, p, path) \/ UNCHANGED <<handles, word, openFlag, stream>>
      /\ UNCHANGED undefined

\* What fread returns of n bytes from position pos on.
BytesRead(path, pos, n) ==
  IF files[path] <= pos THEN 0 ELSE IF files[path] - pos < n THEN files[path] - pos ELSE n

\* The flag of the info is not looked at.
ReadSync(i, n) ==
  /\ ~undefined /\ word[i] \in DOMAIN handles
  /\ LET file == handles[word[i]].file
         got == BytesRead(handles[word[i]].path, streams[file], n)
     IN  IF file \in DOMAIN streams
         THEN /\ streams' = [streams EXCEPT ![file] = @ + got]
              /\ stream' = IF stream[i] = Closed THEN stream ELSE [stream EXCEPT ![i].read = @ + got]
              /\ UNCHANGED undefined
         ELSE undefined' = TRUE /\ UNCHANGED <<streams, stream>>
  /\ UNCHANGED <<word, openFlag, handles, nextFd, files>>

Without(f, n) == [k \in DOMAIN f \ {n} |-> f[k]]

MarkClosed(i) ==
  /\ openFlag' = [openFlag EXCEPT ![i] = 0]
  /\ stream' = [stream EXCEPT ![i] = Closed]

\* fclose ends the stream even when it reports an error; the early return then
\* leaves the table and the flag as they were.
CloseSync(i) ==
  /\ ~undefined /\ openFlag[i] = 1
  /\ IF word[i] \notin DOMAIN handles
     THEN MarkClosed(i) /\ UNCHANGED <<handles, streams, undefined>>
     ELSE LET file == handles[word[i]].file
          IN  IF file \notin DOMAIN streams
              THEN undefined' = TRUE /\ UNCHANGED <<openFlag, handles, streams, stream>>
              ELSE /\ streams' = Without(streams, file)
                   /\ UNCHANGED undefined
                   /\ \/ handles' = Without(handles, word[i]) /\ MarkClosed(i)
                      \/ UNCHANGED <<handles, openFlag, stream>>
  /\ UNCHANGED <<word, nextFd, files>>

Next ==
  \E i \in Infos :
    \/ \E p \in GuestPaths, mode \in 1 .. 3 : OpenSync(i, p, mode)
    \/ \E n \in 1 .. Size : ReadSync(i, n)
    \/ CloseSync(i)

Spec == Init /\ [][Next]_vars

(***************************************************************************)
(* Properties                                                              *)
(***************************************************************************)
\* What a path means, without a stack: a name stands unless, somewhere after
\* it, more parents have followed than names.
FullPath(p) == IF p.absolute THEN p.parts ELSE DataDir \o p.parts
IsName(part) == part \notin {"", ".", ".."}
Stands(s, k) ==
  /\ IsName(s[k])
  /\ \A m \in k .. Len(s) :
       Cardinality({j \in k .. m : s[j] = ".."}) < Cardinality({j \in k .. m : IsName(s[j])})
Meaning(p) ==
  LET s == FullPath(p)
      standing == {k \in DOMAIN s : Stands(s, k)}
  IN  [n \in 1 .. Cardinality(standing) |->
         s[CHOOSE k \in standing : Cardinality({j \in standing : j <= k}) = n]]

\* An info the guest has opened reads the file its path means, which is always one
\* below nand_root, from where its last read ended, whatever was opened, reopened and closed meanwhile; only a
\* failed close takes the stream away.
OpenInfoReadsItsFile ==
  \A i \in Infos : stream[i] # Closed =>
    /\ openFlag[i] = 1 /\ word[i] \in DOMAIN handles
    /\ handles[word[i]].path = Meaning(stream[i].path)
    /\ handles[word[i]].file \in DOMAIN streams => streams[handles[word[i]].file] = stream[i].read

\* An info the guest has closed reaches no stream, though ReadSync does not look
\* at its flag: neither its own nor one that was opened later.
ClosedInfoReachesNothing ==
  \A i \in Infos : openFlag[i] = 0 => word[i] \notin DOMAIN handles

\* Every handle of the table is a stream the host still has.
HandlesUsable == \A fd \in DOMAIN handles : handles[fd].file \in DOMAIN streams
=============================================================================
