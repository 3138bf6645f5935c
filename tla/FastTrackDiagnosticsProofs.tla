---------------------- MODULE FastTrackDiagnosticsProofs ----------------------
(***************************************************************************)
(* CardTellsOneRun, RecordsSurvive and TraceSurvives for every size of the *)
(* trace, every stride and any number of boots and failures.               *)
(*                                                                         *)
(* The properties look at moments when no unlink, or no call at all, is    *)
(* left to make, so none is inductive.  The strengthening says, of each    *)
(* file, how far its calls have come: of a rewritten file that its record  *)
(* has still to be written, is written but may be lost, or is all the card *)
(* may hold (Will); of the trace that its last line is to come or that all *)
(* lines the code waits for are safe (TraceStory); of every file, that its *)
(* unlink is to come or that all it has is of this boot.  It also orders   *)
(* what is left (Orderly): unlinks, then whole files, no file twice.       *)
(*                                                                         *)
(* A second layer, Told, says what CardTellsOneRun rests on: the heartbeat *)
(* is the last file of a handler (BeatsLast), and what one on the card     *)
(* vouches for holds, with no call left to make that could end it          *)
(* (Confirmed).                                                            *)
(***************************************************************************)
EXTENDS FastTrackDiagnostics, SequenceTheorems, FiniteSetTheorems, TLAPS

-----------------------------------------------------------------------------
(* What is left to do.                                                     *)

StateRecords == [boot : 1 .. MaxBoots, state : {"entering", "returned", "std_exception", "unknown_exception"}]
AllRecords == Records \cup StateRecords
RecordsOf(b) == {r \in AllRecords : r.boot = b}

Marks == {"progress", "fallback"}
Rewritten == {"blocker", "exception", "heartbeat", "main", "first", "last"}

Removal == <<"unlink">>
Line == <<"append", "write">>
SyncedLine == <<"append", "write", "fsync">>
RewriteWhole == <<"truncate", "write", "fsync">>
MarkWhole == <<"truncate", "write">>
Write == <<"write">>
WriteSync == <<"write", "fsync">>
Sync == <<"fsync">>

TraceRests == {Write, WriteSync, Sync}
TraceWholes == {Line, SyncedLine}
RewriteRests == {WriteSync, Sync}

\* The calls of a file nothing is done for yet.
Wholes == TraceWholes \cup {RewriteWhole, MarkWhole}

Jobs(b) ==
  [path : Range(LivenessFiles), calls : {Removal}, rec : {<<>>}]
    \cup [path : Marks, calls : {MarkWhole, Write}, rec : {r \in StateRecords : r.boot = b}]
    \cup [path : {"trace"}, calls : TraceWholes \cup TraceRests, rec : {r \in Records : r.boot = b}]
    \cup [path : Rewritten, calls : {RewriteWhole} \cup RewriteRests, rec : {r \in Records : r.boot = b}]

\* Unlinks come first, only the first file may be begun, and none comes twice.
Orderly(s, b) ==
  /\ s \in Seq(Jobs(b))
  /\ \A i \in 1 .. Len(s) : i > 1 => s[i].calls \in Wholes \cup {Removal}
  /\ \A i, k \in 1 .. Len(s) : i < k =>
       /\ s[k].calls = Removal => s[i].calls = Removal
       /\ s[i].path = s[k].path => s[i].calls = Removal /\ s[k].calls # Removal
  /\ \A i \in 1 .. Len(s) : s[i].path \in Marks => Len(s) = 1

-----------------------------------------------------------------------------
(* What the files come to.                                                 *)

\* The rewritten file p will hold r and nothing else, once no call is left.
Will(p, r) ==
  \/ Rewrite(p, r) \in Range(todo)
  \/ todo # <<>> /\ Head(todo) = Job(p, WriteSync, r) /\ files[p].now = <<>>
  \/ todo # <<>> /\ Head(todo) = Job(p, Sync, r) /\ files[p].now = <<r>>
  \/ /\ \A x \in Range(todo) : x.path # p
     /\ files[p] = [now |-> <<r>>, kept |-> {<<r>>}]

\* The trace line i is one the code waits for.
Awaited(trace, i) ==
  \/ i = 1 \/ trace[i].target = "phase"
  \/ i = Dense \/ (i < Dense /\ i % Stride = 0)

\* c is a beginning of the trace that has all of those.
Outlives(c, trace) ==
  /\ c \in Seq(Records) /\ Len(c) <= Len(trace)
  /\ \A i \in 1 .. Len(c) : c[i] = trace[i]
  /\ \A i \in 1 .. Len(trace) : Awaited(trace, i) => i <= Len(c)

Lasting(trace) == trace # <<>> => \A c \in files["trace"].kept : Outlives(c, trace)

\* The line x is about is the last one of the trace.
LastLine(x) ==
  /\ ExpectedTrace = Append(files["trace"].now, x.rec)
  /\ Awaited(ExpectedTrace, Len(ExpectedTrace)) => x.calls[Len(x.calls)] = "fsync"
  /\ Lasting(files["trace"].now)

TraceToRemove == \E x \in Range(todo) : x.path = "trace" /\ x.calls = Removal
TraceToBegin ==
  \E x \in Range(todo) :
     /\ x.path = "trace" /\ x.calls \in TraceWholes /\ LastLine(x)
     /\ globals.entries = Len(files["trace"].now)
TraceToWrite ==
  /\ todo # <<>> /\ Head(todo).path = "trace"
  /\ Head(todo).calls \in {Write, WriteSync}
  /\ LastLine(Head(todo)) /\ globals.entries = Len(ExpectedTrace)
TraceToSync ==
  /\ todo # <<>> /\ Head(todo).path = "trace" /\ Head(todo).calls = Sync
  /\ files["trace"].now = ExpectedTrace /\ globals.entries = Len(ExpectedTrace)
TraceDone ==
  /\ \A x \in Range(todo) : x.path # "trace"
  /\ files["trace"].now = ExpectedTrace /\ globals.entries = Len(ExpectedTrace)
  /\ Lasting(ExpectedTrace)

TraceStory == TraceToRemove \/ TraceToBegin \/ TraceToWrite \/ TraceToSync \/ TraceDone

ToRemove(p) == \E x \in Range(todo) : x.path = p /\ x.calls = Removal
FileFresh(p) == ToRemove(p) \/ files[p].now \in Seq(RecordsOf(boot))

\* What p may hold, now or later, is no later than dispatch n of this boot.
NoLater(p, n) ==
  /\ \A c \in files[p].kept : c = <<>> \/ c[1].boot < boot \/ c[1].count \in 0 .. n
  /\ \A x \in Range(todo) : x.path = p /\ x.calls # Removal => x.rec.count \in 0 .. n

-----------------------------------------------------------------------------
(* The inductive invariant.                                                *)

Types ==
  /\ files \in [Paths -> [now : Seq(AllRecords), kept : SUBSET Seq(AllRecords)]]
  /\ \A p \in Paths : files[p].now \in files[p].kept
  /\ globals \in [reset : BOOLEAN, main : BOOLEAN, recorded : BOOLEAN, beaten : BOOLEAN,
                  count : Nat, post : Nat, entries : 0 .. MaxEntries]
  /\ globals.post <= globals.count
  /\ process \in {"off", "guest", "idle", "aborting"}
  /\ boot \in 0 .. MaxBoots
  /\ process # "off" => boot # 0
  /\ IsFiniteSet(failures) /\ failures \subseteq (1 .. MaxBoots) \X Paths
  /\ past \in Nat /\ Spent <= MaxDispatches
  /\ noted \in [{"first", "last", "trace"} -> Seq(Records)]

\* No content is of a later boot.
Old == \A p \in Paths : \A c \in files[p].kept : c # <<>> => c[1].boot <= boot

Left ==
  /\ Orderly(todo, boot)
  /\ todo # <<>> => process # "off"
  /\ \A x \in Range(todo) : x.path = "trace" /\ x.calls \in TraceWholes => globals.entries < MaxEntries

\* Before the first dispatch of a boot.
Unused ==
  /\ globals = FreshGlobals /\ noted = NothingNoted
  /\ \A x \in Range(todo) : x.path \in Marks \cup {"blocker", "exception"} /\ x.calls # Removal
  /\ \A p \in {"main", "first"} : \A c \in files[p].kept : c = <<>> \/ c[1].boot < boot

\* The statics and the history agree.
Agreement ==
  /\ globals.recorded <=> globals.post # 0
  /\ ~globals.main => globals.post = 0
  /\ globals.post = 0 => noted = NothingNoted
  /\ globals.post # 0 => noted["first"] # <<>>
  /\ globals.post <= Dense => Len(noted["trace"]) = globals.post
  /\ globals.post > Dense => Len(noted["trace"]) >= Dense
  /\ \A i \in 1 .. Len(noted["trace"]) : i > Dense => noted["trace"][i].target = "phase"

History ==
  /\ globals.beaten
  /\ Agreement
  /\ (\E x \in Range(todo) : x.calls = Removal) =>
       /\ globals.post = 0 /\ globals.entries = 0
       /\ \A x \in Range(todo) : x.path = "trace" => x.calls = Removal

MilestonesKept ==
  /\ noted["first"] # <<>> /\ "first" \notin Failed => Will("first", Head(noted["first"]))
  /\ noted["last"] # <<>> /\ "last" \notin Failed => Will("last", Last(noted["last"]))
  /\ globals.main /\ "main" \notin Failed =>
       \E r \in Records : r.boot = boot /\ r.target = "main" /\ r.post = 0 /\ Will("main", r)

HeartbeatKept ==
  "heartbeat" \notin Failed =>
    \E r \in Records : /\ Will("heartbeat", r) /\ r.count <= globals.count
                       /\ NoLater("main", r.count) /\ NoLater("first", r.count)

FilesKept ==
  /\ \A p \in Range(LivenessFiles) \ Failed : FileFresh(p)
  /\ MilestonesKept
  /\ HeartbeatKept
  /\ "trace" \notin Failed => TraceStory

IInv ==
  /\ Types /\ Old /\ Left
  /\ Running => IF globals.reset THEN History /\ FilesKept ELSE Unused

-----------------------------------------------------------------------------
(* Jobs.                                                                   *)

LEMMA ShapesOfCalls ==
  /\ \A calls \in TraceWholes \cup TraceRests \cup {RewriteWhole, MarkWhole} \cup RewriteRests :
       calls # Removal
  /\ \A calls \in TraceRests \cup RewriteRests : calls \notin Wholes
  /\ TraceWholes \cap {RewriteWhole, MarkWhole} = {} /\ RewriteWhole # MarkWhole
  /\ Write # Sync /\ WriteSync # Sync
BY DEF TraceWholes, TraceRests, RewriteWhole, MarkWhole, RewriteRests, Removal, Wholes,
       Line, SyncedLine, Write, WriteSync, Sync

LEMMA FilesArePaths ==
  /\ Range(LivenessFiles) = Rewritten \cup {"trace"}
  /\ Paths = Rewritten \cup {"trace"} \cup Marks
<1>1. Range(LivenessFiles) = Rewritten \cup {"trace"}
  BY DEF LivenessFiles, Range, Rewritten
<1> QED BY <1>1 DEF Paths, Marks

LEMMA JobFacts ==
  ASSUME NEW b, NEW x \in Jobs(b)
  PROVE  /\ x = Job(x.path, x.calls, x.rec)
         /\ x.path \in Paths
         /\ x.calls = Removal => x.path \in Range(LivenessFiles)
         /\ x.calls # Removal => x.rec \in RecordsOf(b)
         /\ x.calls # Removal /\ x.path = "trace" =>
              x.rec \in Records /\ x.calls \in TraceWholes \cup TraceRests
         /\ x.calls # Removal /\ x.path \in Rewritten =>
              x.rec \in Records /\ x.calls \in {RewriteWhole} \cup RewriteRests
         /\ x.path \in Marks =>
              x.rec \in StateRecords /\ x.calls \in {MarkWhole, Write} /\ x.calls # Removal
<1> USE FilesArePaths
<1> DEFINE R == {r \in Records : r.boot = b}
           S == {r \in StateRecords : r.boot = b}
<1>1. CASE x \in [path : Range(LivenessFiles), calls : {Removal}, rec : {<<>>}]
  <2>1. "trace" \notin Marks /\ Rewritten \cap Marks = {}
    BY DEF Marks, Rewritten
  <2> QED BY <1>1, <2>1 DEF Job
<1>2. CASE x \in [path : Marks, calls : {MarkWhole, Write}, rec : S]
  <2>1. x.path \notin Rewritten \cup {"trace"}
    BY <1>2 DEF Marks, Rewritten
  <2>2. x.calls # Removal
    BY <1>2, ShapesOfCalls DEF TraceRests
  <2> QED BY <1>2, <2>1, <2>2 DEF Job, RecordsOf, AllRecords
<1>3. CASE x \in [path : {"trace"}, calls : TraceWholes \cup TraceRests, rec : R]
  <2>1. "trace" \notin Rewritten \cup Marks
    BY DEF Marks, Rewritten
  <2> QED BY <1>3, <2>1, ShapesOfCalls DEF Job, RecordsOf, AllRecords
<1>4. CASE x \in [path : Rewritten, calls : {RewriteWhole} \cup RewriteRests, rec : R]
  <2>1. "trace" \notin Rewritten /\ Rewritten \cap Marks = {}
    BY DEF Marks, Rewritten
  <2> QED BY <1>4, <2>1, ShapesOfCalls DEF Job, RecordsOf, AllRecords
<1> QED BY <1>1, <1>2, <1>3, <1>4 DEF Jobs

LEMMA TraceJob ==
  ASSUME NEW b, NEW r \in Records, r.boot = b, NEW calls \in TraceWholes \cup TraceRests
  PROVE  Job("trace", calls, r) \in Jobs(b)
BY DEF Jobs, Job

LEMMA RewriteJob ==
  ASSUME NEW b, NEW r \in Records, r.boot = b, NEW p \in Rewritten,
         NEW calls \in {RewriteWhole} \cup RewriteRests
  PROVE  Job(p, calls, r) \in Jobs(b)
BY DEF Jobs, Job

LEMMA MarkJob ==
  ASSUME NEW b, NEW r \in StateRecords, r.boot = b, NEW p \in Marks,
         NEW calls \in {MarkWhole, Write}
  PROVE  Job(p, calls, r) \in Jobs(b)
BY DEF Jobs, Job

LEMMA InRange ==
  ASSUME NEW S, NEW s \in Seq(S)
  PROVE  /\ \A x : x \in Range(s) <=> \E i \in 1 .. Len(s) : s[i] = x
         /\ Range(s) \subseteq S
BY DEF Range

\* What is left behind the first file.
LEMMA Behind ==
  ASSUME NEW b, NEW s, Orderly(s, b), s # <<>>
  PROVE  /\ Head(s) \in Jobs(b) /\ Head(s) \in Range(s)
         /\ Orderly(Tail(s), b)
         /\ Range(s) = {Head(s)} \cup Range(Tail(s))
         /\ \A x \in Range(Tail(s)) :
              /\ x \in Jobs(b) /\ x.calls \in Wholes \cup {Removal} /\ x.path \notin Marks
              /\ Head(s).calls # Removal => x.calls # Removal /\ x.path # Head(s).path
              /\ x.path = Head(s).path => x.calls # Removal
         /\ Head(s).path \in Marks => Tail(s) = <<>>
<1> DEFINE J == Jobs(b)
           n == Len(s)
           t == Tail(s)
<1>1. s \in Seq(J)
  BY DEF Orderly
<1> HIDE DEF J
<1>2. /\ n \in Nat /\ n >= 1 /\ Head(s) = s[1] /\ t \in Seq(J) /\ Len(t) = n - 1
      /\ \A i \in 1 .. n - 1 : t[i] = s[i + 1]
      /\ \A i \in 1 .. n : s[i] \in J
  BY <1>1
<1> HIDE DEF n, t
<1>3. /\ \A i \in 1 .. n : i > 1 => s[i].calls \in Wholes \cup {Removal}
      /\ \A i, k \in 1 .. n : i < k =>
           /\ s[k].calls = Removal => s[i].calls = Removal
           /\ s[i].path = s[k].path => s[i].calls = Removal /\ s[k].calls # Removal
      /\ \A i \in 1 .. n : s[i].path \in Marks => n = 1
  BY DEF Orderly, n
<1>4. \A i \in 1 .. n - 1 : i + 1 \in 2 .. n /\ t[i] = s[i + 1]
  BY <1>2
<1>5. Orderly(t, b)
  <2>1. \A i \in 1 .. n - 1 : t[i].calls \in Wholes \cup {Removal} /\ t[i].path \notin Marks
    BY <1>2, <1>3, <1>4
  <2>2. \A i, k \in 1 .. n - 1 : i < k =>
           /\ t[k].calls = Removal => t[i].calls = Removal
           /\ t[i].path = t[k].path => t[i].calls = Removal /\ t[k].calls # Removal
    <3>1. SUFFICES ASSUME NEW i \in 1 .. n - 1, NEW k \in 1 .. n - 1, i < k
                   PROVE  /\ t[k].calls = Removal => t[i].calls = Removal
                          /\ t[i].path = t[k].path => t[i].calls = Removal /\ t[k].calls # Removal
      OBVIOUS
    <3>2. i + 1 \in 1 .. n /\ k + 1 \in 1 .. n /\ i + 1 < k + 1
      BY <1>2, <3>1
    <3>3. t[i] = s[i + 1] /\ t[k] = s[k + 1]
      BY <1>4
    <3> QED BY <1>3, <3>2, <3>3
  <2> QED BY <1>2, <2>1, <2>2 DEF Orderly, J
<1>6. \A x : x \in Range(s) <=> \E i \in 1 .. n : s[i] = x
  BY <1>1, InRange DEF n
<1>7. \A x : x \in Range(t) <=> \E i \in 1 .. n - 1 : t[i] = x
  BY <1>2, InRange
<1>8. Range(s) = {Head(s)} \cup Range(t)
  <2>1. ASSUME NEW x \in Range(s) PROVE x = Head(s) \/ x \in Range(t)
    <3>1. PICK i \in 1 .. n : s[i] = x
      BY <1>6
    <3>2. i = 1 \/ (i - 1 \in 1 .. n - 1 /\ t[i - 1] = s[i])
      BY <1>2
    <3> QED BY <1>2, <1>7, <3>1, <3>2
  <2>2. Head(s) \in Range(s)
    BY <1>2, <1>6
  <2>3. ASSUME NEW x \in Range(t) PROVE x \in Range(s)
    BY <1>4, <1>6, <1>7
  <2> QED BY <2>1, <2>2, <2>3
<1>9. ASSUME NEW x \in Range(t)
      PROVE  /\ x \in J /\ x.calls \in Wholes \cup {Removal} /\ x.path \notin Marks
             /\ Head(s).calls # Removal => x.calls # Removal /\ x.path # Head(s).path
             /\ x.path = Head(s).path => x.calls # Removal
  <2>1. PICK i \in 1 .. n - 1 : t[i] = x
    BY <1>7
  <2>2. i + 1 \in 1 .. n /\ 1 \in 1 .. n /\ 1 < i + 1 /\ x = s[i + 1] /\ n # 1
    BY <1>2, <2>1
  <2> QED BY <1>2, <1>3, <2>2
<1>10. Head(s).path \in Marks => t = <<>>
  BY <1>2, <1>3
<1> QED BY <1>2, <1>5, <1>8, <1>9, <1>10 DEF J, t

\* A file is put before others.
LEMMA Before ==
  ASSUME NEW b, NEW j \in Jobs(b), j.calls # Removal, NEW t, Orderly(t, b),
         \A x \in Range(t) : x.calls \in Wholes /\ x.path # j.path /\ x.path \notin Marks,
         j.path \in Marks => t = <<>>
  PROVE  /\ Orderly(<<j>> \o t, b) /\ Range(<<j>> \o t) = {j} \cup Range(t)
         /\ <<j>> \o t # <<>> /\ Head(<<j>> \o t) = j
<1> DEFINE J == Jobs(b)
           n == Len(t)
           s == <<j>> \o t
<1>1. t \in Seq(J) /\ j \in J
  BY DEF Orderly
<1> HIDE DEF J
<1>2. /\ n \in Nat /\ s \in Seq(J) /\ Len(s) = n + 1 /\ s[1] = j /\ Head(s) = j /\ s # <<>>
      /\ \A i \in 2 .. n + 1 : s[i] = t[i - 1]
  BY <1>1
<1> HIDE DEF n, s
<1>3. \A i \in 2 .. n + 1 : i - 1 \in 1 .. n /\ s[i] = t[i - 1] /\ t[i - 1] \in Range(t)
  BY <1>1, <1>2, InRange DEF n
<1>4. Orderly(s, b)
  <2>1. \A i \in 2 .. n + 1 : s[i].calls \in Wholes /\ s[i].path # j.path /\ s[i].path \notin Marks
    BY <1>3
  <2>2. Removal \notin Wholes
    BY ShapesOfCalls DEF Wholes
  <2>3. \A i \in 1 .. n + 1 : i = 1 \/ i \in 2 .. n + 1
    BY <1>2
  <2>4. ASSUME NEW i \in 2 .. n + 1, NEW k \in 2 .. n + 1, i < k
        PROVE  s[i].path # s[k].path
    <3>1. i - 1 \in 1 .. n /\ k - 1 \in 1 .. n /\ i - 1 < k - 1 /\ s[i] = t[i - 1] /\ s[k] = t[k - 1]
      BY <1>2, <1>3, <2>4
    <3>2. t[i - 1].calls # Removal
      BY <2>1, <2>2, <3>1
    <3> QED BY <3>1, <3>2 DEF Orderly, n
  <2>5. ASSUME NEW i \in 1 .. n + 1, NEW k \in 1 .. n + 1, i < k
        PROVE  s[k].calls # Removal /\ s[i].path # s[k].path
    <3>1. k \in 2 .. n + 1
      BY <1>2, <2>5
    <3> QED BY <1>2, <2>1, <2>2, <2>3, <2>4, <2>5, <3>1
  <2>6. s[1].path \in Marks => n = 0
    BY <1>2 DEF n
  <2>7. \A i \in 1 .. n + 1 : s[i].path \in Marks => n + 1 = 1
    BY <1>2, <2>1, <2>3, <2>6
  <2> QED BY <1>2, <2>1, <2>3, <2>5, <2>7 DEF Orderly, J
<1>5. \A x : x \in Range(s) <=> \E i \in 1 .. n + 1 : s[i] = x
  BY <1>2, InRange
<1>6. \A x : x \in Range(t) <=> \E i \in 1 .. n : t[i] = x
  BY <1>1, InRange DEF n
<1>7. Range(s) = {j} \cup Range(t)
  <2>1. ASSUME NEW x \in Range(s) PROVE x = j \/ x \in Range(t)
    BY <1>2, <1>3, <1>5
  <2>2. ASSUME NEW x \in Range(t) PROVE x \in Range(s)
    <3>1. PICK i \in 1 .. n : t[i] = x
      BY <1>6
    <3>2. i + 1 \in 2 .. n + 1 /\ i + 1 \in 1 .. n + 1 /\ (i + 1) - 1 = i
      BY <1>2
    <3> QED BY <1>2, <1>5, <3>1, <3>2
  <2>3. j \in Range(s)
    BY <1>2, <1>5
  <2> QED BY <2>1, <2>2, <2>3
<1> QED BY <1>2, <1>4, <1>7 DEF s

-----------------------------------------------------------------------------
(* What a system call leaves of the jobs.                                  *)

LEMMA CallByCall ==
  /\ ~(Len(Removal) > 1) /\ Head(Removal) = "unlink"
  /\ ~(Len(Write) > 1) /\ Head(Write) = "write"
  /\ ~(Len(Sync) > 1) /\ Head(Sync) = "fsync"
  /\ Len(WriteSync) > 1 /\ Head(WriteSync) = "write" /\ Tail(WriteSync) = Sync
  /\ Len(RewriteWhole) > 1 /\ Head(RewriteWhole) = "truncate" /\ Tail(RewriteWhole) = WriteSync
  /\ Len(MarkWhole) > 1 /\ Head(MarkWhole) = "truncate" /\ Tail(MarkWhole) = Write
  /\ Len(Line) > 1 /\ Head(Line) = "append" /\ Tail(Line) = Write
  /\ Len(SyncedLine) > 1 /\ Head(SyncedLine) = "append" /\ Tail(SyncedLine) = WriteSync
BY DEF Removal, RewriteWhole, MarkWhole, Line, SyncedLine, Write, WriteSync, Sync

LEMMA AdvancedJob ==
  ASSUME NEW b, NEW x \in Jobs(b), Len(x.calls) > 1
  PROVE  /\ Job(x.path, Tail(x.calls), x.rec) \in Jobs(b)
         /\ Tail(x.calls) # Removal /\ Tail(x.calls) \notin Wholes /\ x.calls # Removal
<1> DEFINE y == Job(x.path, Tail(x.calls), x.rec)
<1>1. x.calls # Removal
  BY CallByCall
<1>2. x.rec.boot = b
  BY <1>1, JobFacts DEF RecordsOf
<1>3. CASE x.path = "trace"
  <2>1. x.rec \in Records /\ Tail(x.calls) \in TraceRests
    BY <1>1, <1>3, JobFacts, CallByCall DEF TraceWholes, TraceRests
  <2> QED BY <1>1, <1>2, <1>3, <2>1, TraceJob, ShapesOfCalls
<1>4. CASE x.path \in Rewritten
  <2>1. x.rec \in Records /\ Tail(x.calls) \in RewriteRests
    BY <1>1, <1>4, JobFacts, CallByCall DEF RewriteRests
  <2> QED BY <1>1, <1>2, <1>4, <2>1, RewriteJob, ShapesOfCalls
<1>5. CASE x.path \in Marks
  <2>1. x.rec \in StateRecords /\ Tail(x.calls) = Write
    BY <1>1, <1>5, JobFacts, CallByCall
  <2>2. Write \in TraceRests
    BY DEF TraceRests
  <2> QED BY <1>1, <1>2, <1>5, <2>1, <2>2, MarkJob, ShapesOfCalls
<1> QED BY <1>3, <1>4, <1>5, JobFacts, FilesArePaths

LEMMA AfterOneCall ==
  ASSUME Orderly(todo, boot), todo # <<>>,
         NEW job, job = Head(todo), NEW rest, rest = Tail(todo)
  PROVE  /\ Orderly(AfterCall, boot)
         /\ ~(Len(job.calls) > 1) => AfterCall = rest
         /\ Len(job.calls) > 1 =>
              /\ AfterCall # <<>> /\ Head(AfterCall) = Job(job.path, Tail(job.calls), job.rec)
              /\ Range(AfterCall) = {Job(job.path, Tail(job.calls), job.rec)} \cup Range(rest)
<1>1. /\ job \in Jobs(boot) /\ Orderly(rest, boot)
      /\ \A x \in Range(rest) :
           /\ x.calls \in Wholes \cup {Removal} /\ x.path \notin Marks
           /\ job.calls # Removal => x.calls # Removal /\ x.path # job.path
      /\ job.path \in Marks => rest = <<>>
  BY Behind
<1>2. CASE Len(job.calls) > 1
  <2> DEFINE y == Job(job.path, Tail(job.calls), job.rec)
  <2>1. y \in Jobs(boot) /\ y.calls # Removal /\ job.calls # Removal /\ y.path = job.path
    BY <1>1, <1>2, AdvancedJob DEF Job
  <2>2. AfterCall = <<y>> \o rest
    BY <1>2 DEF AfterCall, If
  <2>3. /\ \A x \in Range(rest) : x.calls \in Wholes /\ x.path # y.path /\ x.path \notin Marks
        /\ y.path \in Marks => rest = <<>>
    BY <1>1, <2>1
  <2> HIDE DEF y
  <2>4. Orderly(<<y>> \o rest, boot) /\ Range(<<y>> \o rest) = {y} \cup Range(rest)
    <3>1. y \in Jobs(boot) /\ y.calls # Removal /\ Orderly(rest, boot)
      BY <1>1, <2>1
    <3> QED BY ONLY <2>3, <3>1, Before, Zenon
  <2>5. <<y>> \o rest # <<>> /\ Head(<<y>> \o rest) = y
    <3>1. rest \in Seq(Jobs(boot))
      BY <1>1 DEF Orderly
    <3> QED BY <2>1, <3>1
  <2> QED BY <1>2, <2>2, <2>4, <2>5 DEF y
<1>3. CASE ~(Len(job.calls) > 1)
  <2>1. rest \in Seq(Jobs(boot))
    BY <1>1 DEF Orderly
  <2>2. AfterCall = <<>> \o rest
    BY <1>3 DEF AfterCall, If
  <2>3. <<>> \o rest = rest
    BY <2>1
  <2> QED BY <1>1, <1>3, <2>2, <2>3
<1> QED BY <1>2, <1>3

\* A call that fails leaves the other files as they were to do.
LEMMA AfterFailedCall ==
  ASSUME Orderly(todo, boot), todo # <<>>,
         NEW job, job = Head(todo), NEW rest, rest = Tail(todo)
  PROVE  /\ Orderly(AfterFailure, boot) /\ Range(rest) \subseteq Range(AfterFailure)
         /\ \A x \in Range(AfterFailure) :
              \/ x \in Range(rest)
              \/ x.path = "fallback" /\ job.path = "progress" /\ x.calls = MarkWhole
              \/ /\ x.path = job.path /\ x.rec = job.rec /\ job.calls # Removal
                 /\ x.calls \notin Wholes \cup {Removal}
<1>1. /\ job \in Jobs(boot) /\ Orderly(rest, boot)
      /\ job.path \in Marks => rest = <<>>
  BY Behind
<1>2. rest \in Seq(Jobs(boot)) /\ <<>> \o rest = rest
  BY <1>1 DEF Orderly
<1>3. CASE Head(job.calls) \in {"truncate", "append"}
  <2>1. CASE job.path = "progress"
    <3> DEFINE y == Progress("fallback", job.rec)
    <3>1. job.rec \in StateRecords /\ job.calls # Removal /\ rest = <<>>
      BY <1>1, <2>1, JobFacts DEF Marks
    <3>2. job.rec.boot = boot
      BY <1>1, <3>1, JobFacts DEF RecordsOf
    <3>3. y = Job("fallback", MarkWhole, job.rec)
      BY DEF Progress, MarkWhole
    <3>4. y \in Jobs(boot) /\ y.calls = MarkWhole /\ y.path = "fallback" /\ MarkWhole # Removal
      <4>1. "fallback" \in Marks
        BY DEF Marks
      <4>2. Job("fallback", MarkWhole, job.rec) \in Jobs(boot)
        BY <3>1, <3>2, <4>1, MarkJob
      <4> QED BY <3>3, <4>2, ShapesOfCalls DEF Job
    <3>5. AfterFailure = <<y>> \o rest
      BY <1>3, <2>1 DEF AfterFailure, If
    <3> HIDE DEF y
    <3>6. Range(rest) = {}
      BY <3>1 DEF Range
    <3>7. Orderly(<<y>> \o rest, boot) /\ Range(<<y>> \o rest) = {y} \cup Range(rest)
      <4>1. /\ \A x \in Range(rest) : x.calls \in Wholes /\ x.path # y.path /\ x.path \notin Marks
            /\ y \in Jobs(boot) /\ y.calls # Removal /\ Orderly(rest, boot)
            /\ y.path \in Marks => rest = <<>>
        BY <1>1, <3>1, <3>4, <3>6
      <4> QED BY ONLY <4>1, Before
    <3> QED BY <2>1, <3>4, <3>5, <3>6, <3>7
  <2>2. CASE job.path # "progress"
    <3>1. AfterFailure = <<>> \o rest
      BY <1>3, <2>2 DEF AfterFailure, If
    <3> QED BY <1>1, <1>2, <3>1
  <2> QED BY <2>1, <2>2
<1>4. CASE Head(job.calls) \notin {"truncate", "append"}
  <2>1. AfterFailure = AfterCall
    BY <1>4 DEF AfterFailure
  <2>2. CASE Len(job.calls) > 1
    <3>1. Tail(job.calls) \notin Wholes \cup {Removal} /\ job.calls # Removal
      BY <1>1, <2>2, AdvancedJob
    <3> DEFINE y == Job(job.path, Tail(job.calls), job.rec)
    <3>2. Orderly(AfterCall, boot) /\ Range(AfterCall) = {y} \cup Range(rest)
      BY <2>2, AfterOneCall
    <3>3. y.path = job.path /\ y.calls = Tail(job.calls) /\ y.rec = job.rec
      BY DEF Job
    <3> HIDE DEF y
    <3> QED BY <2>1, <3>1, <3>2, <3>3
  <2>3. CASE ~(Len(job.calls) > 1)
    <3>1. AfterCall = rest
      BY <1>2, <2>3 DEF AfterCall, If
    <3> QED BY <1>1, <2>1, <3>1
  <2> QED BY <2>2, <2>3
<1> QED BY <1>3, <1>4

-----------------------------------------------------------------------------
(* What a system call does to the card.                                    *)

Contents == Seq(AllRecords)
Cards == [Paths -> [now : Contents, kept : SUBSET Contents]]

\* The call of a job is made, on a file that had now and kept.
Made(job, now, kept) ==
  /\ job \in Jobs(boot) /\ job.path \in Paths
  /\ files' \in Cards /\ \A q \in Paths : q # job.path => files'[q] = files[q]
  /\ job.calls \in {Removal, RewriteWhole, MarkWhole} =>
       files'[job.path] = [now |-> <<>>, kept |-> kept \cup {<<>>}]
  /\ job.calls \in {Write, WriteSync} =>
       /\ job.rec \in AllRecords
       /\ files'[job.path] = [now |-> Append(now, job.rec), kept |-> kept \cup {Append(now, job.rec)}]
  /\ job.calls = Sync => files'[job.path] = [now |-> now, kept |-> {now}]
  /\ job.calls \in TraceWholes => files' = files
  /\ globals' = IF job.calls \in TraceWholes THEN [globals EXCEPT !.entries = @ + 1] ELSE globals
  /\ job.calls \in {Removal, RewriteWhole, MarkWhole, Write, WriteSync, Sync} \cup TraceWholes

\* Each call does what its job has come to.
LEMMA EffectOfJob ==
  ASSUME Types, Left, CallSucceeds,
         NEW job, job = Head(todo), NEW now, now = files[job.path].now,
         NEW kept, kept = files[job.path].kept
  PROVE  Made(job, now, kept)
<1>1. /\ todo # <<>> /\ job \in Jobs(boot) /\ job.path \in Paths /\ files \in Cards
      /\ now \in Contents /\ kept \in SUBSET Contents
  <2>1. todo # <<>> /\ job \in Jobs(boot)
    BY Behind DEF CallSucceeds, Left
  <2>2. job.path \in Paths
    BY <2>1, JobFacts
  <2>3. files \in Cards
    BY DEF Types, Cards, Contents
  <2> QED BY <2>1, <2>2, <2>3 DEF Cards
<1>2. job.calls \in {Removal, RewriteWhole, MarkWhole, Write, WriteSync, Sync} \cup TraceWholes
  BY <1>1 DEF Jobs, TraceRests, RewriteRests
<1>3. job.calls # Removal => job.rec \in AllRecords
  BY <1>1, JobFacts DEF RecordsOf
<1>4. Removal \notin {Write, WriteSync, Sync, RewriteWhole, MarkWhole} \cup TraceWholes
  BY ShapesOfCalls DEF TraceRests
<1> DEFINE call == Head(job.calls)
<1>5. /\ call \in {"unlink", "truncate"} => Becomes(job.path, <<>>)
      /\ call = "write" => Becomes(job.path, Append(now, job.rec))
      /\ call = "fsync" => files' = [files EXCEPT ![job.path].kept = {now}]
      /\ call = "append" => files' = files
      /\ globals' = IF call = "append" THEN [globals EXCEPT !.entries = @ + 1] ELSE globals
  BY DEF CallSucceeds
<1>6. /\ job.calls \in {Removal, RewriteWhole, MarkWhole} => call \in {"unlink", "truncate"}
      /\ job.calls \in {Write, WriteSync} => call = "write"
      /\ job.calls = Sync => call = "fsync"
      /\ job.calls \in TraceWholes => call = "append"
  BY CallByCall DEF TraceWholes
<1> HIDE DEF call
<1>7. ASSUME job.calls \in {Removal, RewriteWhole, MarkWhole}
      PROVE  /\ files' \in Cards /\ \A q \in Paths : q # job.path => files'[q] = files[q]
             /\ files'[job.path] = [now |-> <<>>, kept |-> kept \cup {<<>>}]
  <2>1. files' = [files EXCEPT ![job.path] = [now |-> <<>>, kept |-> kept \cup {<<>>}]]
    BY <1>5, <1>6, <1>7 DEF Becomes
  <2>2. <<>> \in Contents
    BY DEF Contents
  <2>3. kept \cup {<<>>} \in SUBSET Contents
    BY <1>1, <2>2
  <2> QED BY <1>1, <2>1, <2>2, <2>3 DEF Cards
<1>8. ASSUME job.calls \in {Write, WriteSync}
      PROVE  /\ files' \in Cards /\ \A q \in Paths : q # job.path => files'[q] = files[q]
             /\ job.rec \in AllRecords
             /\ files'[job.path] = [now |-> Append(now, job.rec), kept |-> kept \cup {Append(now, job.rec)}]
  <2> DEFINE c == Append(now, job.rec)
  <2>1. files' = [files EXCEPT ![job.path] = [now |-> c, kept |-> kept \cup {c}]]
    BY <1>5, <1>6, <1>8 DEF Becomes
  <2>2. job.rec \in AllRecords
    BY <1>3, <1>4, <1>8
  <2>3. c \in Contents
    BY <1>1, <2>2 DEF Contents
  <2> HIDE DEF c
  <2>4. kept \cup {c} \in SUBSET Contents
    BY <1>1, <2>3
  <2>5. /\ files' \in Cards /\ \A q \in Paths : q # job.path => files'[q] = files[q]
        /\ files'[job.path] = [now |-> c, kept |-> kept \cup {c}]
    BY <1>1, <2>1, <2>3, <2>4 DEF Cards
  <2> QED BY <2>2, <2>5 DEF c
<1>9. ASSUME job.calls = Sync
      PROVE  /\ files' \in Cards /\ \A q \in Paths : q # job.path => files'[q] = files[q]
             /\ files'[job.path] = [now |-> now, kept |-> {now}]
  <2> DEFINE f == files[job.path]
  <2>1. f \in [now : Contents, kept : SUBSET Contents]
    BY <1>1 DEF Cards
  <2>2. files' = [files EXCEPT ![job.path] = [f EXCEPT !.kept = {now}]]
    BY <1>5, <1>6, <1>9
  <2>3. [f EXCEPT !.kept = {now}] = [now |-> now, kept |-> {now}]
    BY <2>1
  <2> HIDE DEF f
  <2>4. files' = [files EXCEPT ![job.path] = [now |-> now, kept |-> {now}]]
    BY <2>2, <2>3
  <2>5. {now} \in SUBSET Contents
    BY <1>1
  <2> QED BY <1>1, <2>4, <2>5 DEF Cards
<1>10. job.calls \in TraceWholes <=> call = "append"
  BY <1>2, <1>6
<1>11. globals' = IF job.calls \in TraceWholes THEN [globals EXCEPT !.entries = @ + 1] ELSE globals
  BY <1>5, <1>10
<1>12. job.calls \in TraceWholes => files' = files
  BY <1>5, <1>6
<1> QED BY <1>1, <1>2, <1>7, <1>8, <1>9, <1>11, <1>12 DEF Made

LEMMA Effect ==
  ASSUME Types, Left, CallSucceeds
  PROVE  Made(Head(todo), files[Head(todo).path].now, files[Head(todo).path].kept)
<1> DEFINE job == Head(todo)
           now == files[job.path].now
           kept == files[job.path].kept
<1>1. job = Head(todo) /\ now = files[job.path].now /\ kept = files[job.path].kept
  OBVIOUS
<1> HIDE DEF job, now, kept
<1>2. Made(job, now, kept)
  BY <1>1, EffectOfJob
<1> QED BY <1>2 DEF job, now, kept

LEMMA Progressed ==
  ASSUME Left, CallSucceeds,
         NEW job, job = Head(todo), NEW rest, rest = Tail(todo)
  PROVE  /\ job \in Jobs(boot) /\ todo # <<>> /\ Orderly(todo', boot) /\ Range(todo) = {job} \cup Range(rest)
         /\ Range(rest) \subseteq Range(todo')
         /\ \A x \in Range(rest) :
              /\ x \in Jobs(boot) /\ x.calls \in Wholes \cup {Removal}
              /\ job.calls # Removal => x.calls # Removal /\ x.path # job.path
              /\ x.path = job.path => x.calls # Removal
         /\ \A x \in Range(todo') :
              \/ x \in Range(rest)
              \/ /\ x.path = job.path /\ x.rec = job.rec /\ job.calls # Removal
                 /\ x.calls \notin Wholes \cup {Removal}
         /\ UNCHANGED <<process, boot, failures, noted, past>>
<1>1. todo # <<>> /\ todo' = AfterCall /\ UNCHANGED <<process, boot, failures, noted, past>>
  BY DEF CallSucceeds
<1>2. Orderly(todo, boot)
  BY DEF Left
<1>3. /\ job \in Jobs(boot) /\ Range(todo) = {job} \cup Range(rest)
      /\ \A x \in Range(rest) :
           /\ x \in Jobs(boot) /\ x.calls \in Wholes \cup {Removal}
           /\ job.calls # Removal => x.calls # Removal /\ x.path # job.path
           /\ x.path = job.path => x.calls # Removal
  BY <1>1, <1>2, Behind
<1>4. Orderly(todo', boot)
  BY <1>1, <1>2, AfterOneCall
<1>5. CASE Len(job.calls) > 1
  <2> DEFINE y == Job(job.path, Tail(job.calls), job.rec)
  <2>1. Range(todo') = {y} \cup Range(rest)
    BY <1>1, <1>2, <1>5, AfterOneCall
  <2>2. /\ y.path = job.path /\ y.rec = job.rec /\ job.calls # Removal
        /\ y.calls \notin Wholes \cup {Removal}
    BY <1>3, <1>5, AdvancedJob DEF Job
  <2> HIDE DEF y
  <2> QED BY <1>1, <1>3, <1>4, <2>1, <2>2
<1>6. CASE ~(Len(job.calls) > 1)
  <2>1. todo' = rest
    BY <1>1, <1>2, <1>6, AfterOneCall
  <2> QED BY <1>1, <1>3, <1>4, <2>1
<1> QED BY <1>5, <1>6

LEMMA Appended ==
  ASSUME NEW c \in Contents, NEW r \in AllRecords
  PROVE  /\ Append(c, r) \in Contents /\ Append(c, r) # <<>>
         /\ Append(c, r)[1] = IF c = <<>> THEN r ELSE c[1]
<1> HIDE DEF AllRecords
<1>1. Append(c, r) \in Contents /\ Len(Append(c, r)) = Len(c) + 1 /\ Len(c) \in Nat
  BY DEF Contents
<1>2. CASE c = <<>>
  BY <1>1, <1>2 DEF Contents
<1>3. CASE c # <<>>
  <2>1. 1 \in 1 .. Len(c)
    BY <1>3 DEF Contents
  <2> QED BY <1>1, <1>3, <2>1 DEF Contents
<1> QED BY <1>2, <1>3

\* A trace line is begun by nothing but the trace.
LEMMA LinesAreOfTheTrace ==
  ASSUME NEW b, NEW x \in Jobs(b), x.calls \in TraceWholes
  PROVE  x.path = "trace"
<1>1. x.calls # Removal /\ x.calls \notin {RewriteWhole, MarkWhole} \cup RewriteRests \cup TraceRests
  BY ShapesOfCalls DEF Wholes
<1> QED BY <1>1 DEF Jobs, TraceRests

LEMMA SuccessKeepsTypes ==
  ASSUME Types, Old, Left, CallSucceeds
  PROVE  Types' /\ Old' /\ Left'
<1> DEFINE job == Head(todo)
           rest == Tail(todo)
           p == job.path
           now == files[p].now
           kept == files[p].kept
<1>1. /\ job \in Jobs(boot) /\ p \in Paths
      /\ files' \in Cards /\ \A q \in Paths : q # p => files'[q] = files[q]
      /\ job.calls \in {Removal, RewriteWhole, MarkWhole} =>
           files'[p] = [now |-> <<>>, kept |-> kept \cup {<<>>}]
      /\ job.calls \in {Write, WriteSync} =>
           /\ job.rec \in AllRecords
           /\ files'[p] = [now |-> Append(now, job.rec), kept |-> kept \cup {Append(now, job.rec)}]
      /\ job.calls = Sync => files'[p] = [now |-> now, kept |-> {now}]
      /\ job.calls \in TraceWholes => files' = files
      /\ globals' = IF job.calls \in TraceWholes THEN [globals EXCEPT !.entries = @ + 1] ELSE globals
      /\ job.calls \in {Removal, RewriteWhole, MarkWhole, Write, WriteSync, Sync} \cup TraceWholes
  BY Effect DEF Made
<1>2. /\ todo # <<>> /\ Orderly(todo', boot) /\ Range(todo) = {job} \cup Range(rest)
      /\ Range(rest) \subseteq Range(todo')
      /\ \A x \in Range(rest) :
           /\ x \in Jobs(boot) /\ x.calls \in Wholes \cup {Removal}
           /\ job.calls # Removal => x.calls # Removal /\ x.path # p
      /\ \A x \in Range(todo') :
           \/ x \in Range(rest)
           \/ /\ x.path = p /\ x.rec = job.rec /\ job.calls # Removal
              /\ x.calls \notin Wholes \cup {Removal}
      /\ UNCHANGED <<process, boot, failures, noted, past>>
  BY Progressed
<1> HIDE DEF job, rest
<1>3. now \in Contents /\ now \in kept /\ \A c \in kept : c # <<>> => c[1].boot <= boot
  BY <1>1 DEF Types, Old, Contents
<1>4. /\ job.calls \in TraceWholes => p = "trace" /\ globals.entries < MaxEntries
      /\ job.calls \in TraceWholes => job.calls # Removal
  BY <1>1, <1>2, LinesAreOfTheTrace, ShapesOfCalls DEF Left
<1>5. job.calls \in {Write, WriteSync} =>
        /\ job.rec.boot = boot /\ Append(now, job.rec) # <<>>
        /\ Append(now, job.rec)[1] = IF now = <<>> THEN job.rec ELSE now[1]
  <2>1. job.calls \in {Write, WriteSync} => job.calls # Removal
    BY ShapesOfCalls DEF TraceRests
  <2> QED BY <1>1, <1>3, <2>1, Appended, JobFacts DEF RecordsOf
<1>6. \A q \in Paths : files'[q].now \in files'[q].kept
  <2>1. files'[p].now \in files'[p].kept
    BY <1>1, <1>3
  <2> QED BY <1>1, <2>1 DEF Types
<1>7. Old'
  <2>1. \A c \in files'[p].kept : c # <<>> => c[1].boot <= boot
    <3>1. CASE job.calls \in {Write, WriteSync}
      <4> DEFINE a == Append(now, job.rec)
      <4>1. a[1].boot <= boot
        <5>1. boot \in Nat
          BY DEF Types
        <5> QED BY <1>3, <1>5, <3>1, <5>1
      <4>2. files'[p].kept = kept \cup {a}
        BY <1>1, <3>1
      <4> HIDE DEF a
      <4> QED BY <1>3, <4>1, <4>2
    <3> QED BY <1>1, <1>3, <3>1
  <2>2. boot' = boot
    BY <1>2
  <2> QED BY <1>1, <2>1, <2>2 DEF Old
<1>8. globals' \in [reset : BOOLEAN, main : BOOLEAN, recorded : BOOLEAN, beaten : BOOLEAN,
                    count : Nat, post : Nat, entries : 0 .. MaxEntries]
      /\ globals'.count = globals.count /\ globals'.post = globals.post
  <2>1. globals \in [reset : BOOLEAN, main : BOOLEAN, recorded : BOOLEAN, beaten : BOOLEAN,
                     count : Nat, post : Nat, entries : 0 .. MaxEntries]
    BY DEF Types
  <2>2. CASE job.calls \in TraceWholes
    <3>1. globals.entries + 1 \in 0 .. MaxEntries
      <4>1. globals.entries \in Nat /\ MaxEntries \in Nat
        BY <2>1, DiagnosticsAssumption
      <4> QED BY ONLY <1>4, <2>2, <4>1
    <3>2. globals' = [globals EXCEPT !.entries = globals.entries + 1]
      BY <1>1, <2>2
    <3> QED BY <2>1, <3>1, <3>2
  <2> QED BY <1>1, <2>1, <2>2
<1>9. Types'
  <2>1. Spent' = Spent
    BY <1>2, <1>8 DEF Spent
  <2> QED BY <1>1, <1>2, <1>6, <1>8, <2>1 DEF Types, Cards, Contents
<1>10. Left'
  <2>1. ASSUME NEW x \in Range(todo'), x.path = "trace", x.calls \in TraceWholes
        PROVE  globals'.entries < MaxEntries
    <3>1. x \in Range(rest)
      BY <1>2, <2>1 DEF Wholes
    <3>2. job.calls \notin TraceWholes
      BY <1>2, <1>4, <2>1, <3>1
    <3> QED BY <1>1, <1>2, <2>1, <3>1, <3>2 DEF Left
  <2> QED BY <1>2, <2>1 DEF Left
<1> QED BY <1>7, <1>9, <1>10

-----------------------------------------------------------------------------
(* What a file comes to does not depend on how far the calls have come.    *)

LEMMA RewriteIsJob ==
  ASSUME NEW p, NEW r
  PROVE  Rewrite(p, r) = Job(p, RewriteWhole, r)
BY DEF Rewrite, RewriteWhole

LEMMA WillLasts ==
  ASSUME Types, Left, CallSucceeds, NEW p \in Rewritten, NEW r \in Records, Will(p, r)
  PROVE  Will(p, r)'
<1> DEFINE job == Head(todo)
           rest == Tail(todo)
<1>1. /\ job \in Jobs(boot) /\ p \in Paths
      /\ job.path # p => files'[p] = files[p]
      /\ job.path = p /\ job.calls = RewriteWhole => files'[p].now = <<>>
      /\ job.path = p /\ job.calls = WriteSync => files'[p].now = Append(files[p].now, job.rec)
      /\ job.path = p /\ job.calls = Sync =>
           files'[p] = [now |-> files[p].now, kept |-> {files[p].now}]
  <2> DEFINE now == files[job.path].now
             kept == files[job.path].kept
  <2>1. /\ job \in Jobs(boot) /\ \A q \in Paths : q # job.path => files'[q] = files[q]
        /\ job.calls \in {Removal, RewriteWhole, MarkWhole} =>
             files'[job.path] = [now |-> <<>>, kept |-> kept \cup {<<>>}]
        /\ job.calls \in {Write, WriteSync} =>
             files'[job.path] = [now |-> Append(now, job.rec), kept |-> kept \cup {Append(now, job.rec)}]
        /\ job.calls = Sync => files'[job.path] = [now |-> now, kept |-> {now}]
    BY Effect DEF Made
  <2>2. p \in Paths
    BY FilesArePaths
  <2> HIDE DEF job
  <2>3. job.path = p /\ job.calls = RewriteWhole => files'[p].now = <<>>
    BY <2>1
  <2>4. job.path = p /\ job.calls = WriteSync => files'[p].now = Append(files[p].now, job.rec)
    BY <2>1
  <2>5. job.path = p /\ job.calls = Sync =>
          files'[p] = [now |-> files[p].now, kept |-> {files[p].now}]
    BY <2>1
  <2>6. job.path # p => files'[p] = files[p]
    BY <2>1, <2>2
  <2> QED BY <2>1, <2>2, <2>3, <2>4, <2>5, <2>6
<1>2. /\ todo # <<>> /\ Range(todo) = {job} \cup Range(rest) /\ Range(rest) \subseteq Range(todo')
      /\ \A x \in Range(rest) : job.calls # Removal => x.path # job.path
      /\ \A x \in Range(todo') : x \in Range(rest) \/ x.path = job.path
  BY Progressed
<1>3. /\ Len(job.calls) > 1 =>
           todo' # <<>> /\ Head(todo') = Job(job.path, Tail(job.calls), job.rec)
      /\ ~(Len(job.calls) > 1) => todo' = rest
  <2>1. todo' = AfterCall /\ Orderly(todo, boot)
    BY DEF CallSucceeds, Left
  <2> QED BY <1>2, <2>1, AfterOneCall
<1>4. Rewrite(p, r)' = Rewrite(p, r) /\ Job(p, WriteSync, r)' = Job(p, WriteSync, r)
  OBVIOUS
<1> HIDE DEF job, rest
<1>5. CASE Rewrite(p, r) \in Range(todo)
  <2>1. CASE Rewrite(p, r) \in Range(rest)
    BY <1>2, <2>1 DEF Will
  <2>2. CASE Rewrite(p, r) = job
    <3>1. job.path = p /\ job.calls = RewriteWhole /\ job.rec = r
      BY <2>2, RewriteIsJob DEF Job
    <3>2. todo' # <<>> /\ Head(todo') = Job(p, WriteSync, r)
      BY <1>3, <3>1, CallByCall
    <3> QED BY <1>1, <3>1, <3>2 DEF Will
  <2> QED BY <1>2, <1>5, <2>1, <2>2
<1>6. CASE job = Job(p, WriteSync, r) /\ files[p].now = <<>>
  <2>1. job.path = p /\ job.calls = WriteSync /\ job.rec = r
    BY <1>6 DEF Job
  <2>2. todo' # <<>> /\ Head(todo') = Job(p, Sync, r)
    BY <1>3, <2>1, CallByCall
  <2>3. files'[p].now = <<r>>
    BY <1>1, <1>6, <2>1
  <2> QED BY <2>2, <2>3 DEF Will
<1>7. CASE job = Job(p, Sync, r) /\ files[p].now = <<r>>
  <2>1. job.path = p /\ job.calls = Sync /\ job.rec = r
    BY <1>7 DEF Job
  <2>2. todo' = rest /\ \A x \in Range(rest) : x.path # p
    BY <1>2, <1>3, <2>1, CallByCall, ShapesOfCalls DEF TraceRests
  <2>3. files'[p] = [now |-> <<r>>, kept |-> {<<r>>}]
    BY <1>1, <1>7, <2>1
  <2> QED BY <2>2, <2>3 DEF Will
<1>8. CASE /\ \A x \in Range(todo) : x.path # p
           /\ files[p] = [now |-> <<r>>, kept |-> {<<r>>}]
  BY <1>1, <1>2, <1>8 DEF Will
<1> QED BY <1>5, <1>6, <1>7, <1>8 DEF Will, job

\* Nor on the calls of other files that fail.
LEMMA WillLastsFailure ==
  ASSUME Left, CallFails, NEW p \in Rewritten, NEW r \in Records, Will(p, r),
         Head(todo).path # p
  PROVE  Will(p, r)'
<1> DEFINE job == Head(todo)
           rest == Tail(todo)
<1>1. /\ todo # <<>> /\ Orderly(todo, boot) /\ todo' = AfterFailure /\ files' = files
  BY DEF CallFails, Left
<1>2. Range(todo) = {job} \cup Range(rest)
  BY <1>1, Behind
<1>3. /\ Range(rest) \subseteq Range(todo')
      /\ \A x \in Range(todo') : x \in Range(rest) \/ x.path = "fallback" \/ x.path = job.path
  BY <1>1, AfterFailedCall
<1>4. p # "fallback"
  BY DEF Rewritten
<1>5. job.path # p
  OBVIOUS
<1> HIDE DEF job, rest
<1>6. CASE Rewrite(p, r) \in Range(todo)
  <2>1. Rewrite(p, r).path = p
    BY RewriteIsJob DEF Job
  <2> QED BY <1>2, <1>3, <1>5, <1>6, <2>1 DEF Will
<1>7. CASE job = Job(p, WriteSync, r) \/ job = Job(p, Sync, r)
  BY <1>5, <1>7 DEF Job
<1>8. CASE /\ \A x \in Range(todo) : x.path # p
           /\ files[p] = [now |-> <<r>>, kept |-> {<<r>>}]
  BY <1>1, <1>2, <1>3, <1>4, <1>5, <1>8 DEF Will
<1> QED BY <1>6, <1>7, <1>8 DEF Will, job

LEMMA FreshLasts ==
  ASSUME Types, Left, CallSucceeds, NEW p \in Range(LivenessFiles), FileFresh(p)
  PROVE  FileFresh(p)'
<1> DEFINE job == Head(todo)
           rest == Tail(todo)
           now == files[job.path].now
           kept == files[job.path].kept
<1>1. /\ job \in Jobs(boot) /\ p \in Paths /\ \A q \in Paths : q # job.path => files'[q] = files[q]
      /\ job.calls \in {Removal, RewriteWhole, MarkWhole} =>
           files'[job.path] = [now |-> <<>>, kept |-> kept \cup {<<>>}]
      /\ job.calls \in {Write, WriteSync} =>
           files'[job.path] = [now |-> Append(now, job.rec), kept |-> kept \cup {Append(now, job.rec)}]
      /\ job.calls = Sync => files'[job.path] = [now |-> now, kept |-> {now}]
      /\ job.calls \in TraceWholes => files' = files
      /\ job.calls \in {Removal, RewriteWhole, MarkWhole, Write, WriteSync, Sync} \cup TraceWholes
  BY Effect, FilesArePaths DEF Made
<1>2. /\ Range(todo) = {job} \cup Range(rest) /\ Range(rest) \subseteq Range(todo')
      /\ \A x \in Range(rest) : job.calls # Removal => x.calls # Removal
      /\ boot' = boot
  BY Progressed
<1>3. job.calls # Removal => job.rec \in RecordsOf(boot)
  BY <1>1, JobFacts
<1> HIDE DEF job, rest
<1>4. CASE job.path # p
  BY <1>1, <1>2, <1>4 DEF FileFresh, ToRemove
<1>5. CASE job.path = p /\ job.calls \in {Removal, RewriteWhole, MarkWhole}
  <2>1. files'[p].now = <<>>
    BY <1>1, <1>5
  <2>2. <<>> \in Seq(RecordsOf(boot))
    OBVIOUS
  <2> QED BY <1>2, <2>1, <2>2 DEF FileFresh
<1>6. CASE job.path = p /\ job.calls \notin {Removal, RewriteWhole, MarkWhole}
  <2>1. now \in Seq(RecordsOf(boot))
    BY <1>2, <1>6 DEF FileFresh, ToRemove
  <2>2. CASE job.calls \in {Write, WriteSync}
    <3>1. files'[p].now = Append(now, job.rec)
      BY <1>1, <1>6, <2>2
    <3>2. Append(now, job.rec) \in Seq(RecordsOf(boot))
      <4> HIDE DEF now
      <4> QED BY <1>3, <1>6, <2>1
    <3> QED BY <1>2, <3>1, <3>2 DEF FileFresh
  <2>3. CASE job.calls = Sync \/ job.calls \in TraceWholes
    <3>1. files'[p].now = now
      BY <1>1, <1>6, <2>3
    <3> QED BY <1>2, <2>1, <3>1 DEF FileFresh
  <2> QED BY <1>1, <1>6, <2>2, <2>3
<1> QED BY <1>4, <1>5, <1>6

LEMMA NoLaterLasts ==
  ASSUME Types, Left, CallSucceeds, NEW p \in {"main", "first"}, NEW n \in Nat, NoLater(p, n)
  PROVE  NoLater(p, n)'
<1> DEFINE job == Head(todo)
           rest == Tail(todo)
           now == files[job.path].now
           kept == files[job.path].kept
<1>1. /\ job \in Jobs(boot) /\ p \in Paths /\ \A q \in Paths : q # job.path => files'[q] = files[q]
      /\ job.calls \in {Removal, RewriteWhole, MarkWhole} =>
           files'[job.path] = [now |-> <<>>, kept |-> kept \cup {<<>>}]
      /\ job.calls \in {Write, WriteSync} =>
           /\ job.rec \in AllRecords
           /\ files'[job.path] = [now |-> Append(now, job.rec), kept |-> kept \cup {Append(now, job.rec)}]
      /\ job.calls = Sync => files'[job.path] = [now |-> now, kept |-> {now}]
      /\ job.calls \in TraceWholes => files' = files
      /\ job.calls \in {Removal, RewriteWhole, MarkWhole, Write, WriteSync, Sync} \cup TraceWholes
  BY Effect, FilesArePaths DEF Made, Rewritten
<1>2. /\ Range(todo) = {job} \cup Range(rest)
      /\ \A x \in Range(todo') :
           x \in Range(rest) \/ (x.path = job.path /\ x.rec = job.rec /\ job.calls # Removal)
      /\ boot' = boot
  BY Progressed
<1>3. job.calls \in {Write, WriteSync} => job.calls # Removal
  BY ShapesOfCalls DEF TraceRests
<1>4. now \in Contents /\ now \in kept
  BY <1>1, JobFacts DEF Types, Contents
<1> HIDE DEF job, rest
<1>5. \A x \in Range(todo') : x.path = p /\ x.calls # Removal => x.rec.count \in 0 .. n
  BY <1>2 DEF NoLater
<1>6. \A c \in files'[p].kept : c = <<>> \/ c[1].boot < boot \/ c[1].count \in 0 .. n
  <2>1. CASE job.path # p
    BY <1>1, <2>1 DEF NoLater
  <2>2. CASE job.path = p /\ job.calls \in {Write, WriteSync}
    <3> DEFINE a == Append(now, job.rec)
    <3>1. a[1] = IF now = <<>> THEN job.rec ELSE now[1]
      BY <1>1, <1>4, <2>2, Appended
    <3>2. job.rec.count \in 0 .. n
      BY <1>2, <1>3, <2>2 DEF NoLater
    <3>3. now = <<>> \/ now[1].boot < boot \/ now[1].count \in 0 .. n
      BY <1>4, <2>2 DEF NoLater
    <3>4. files'[p].kept = kept \cup {a}
      BY <1>1, <2>2
    <3>5. a[1].boot < boot \/ a[1].count \in 0 .. n
      BY <3>1, <3>2, <3>3
    <3> HIDE DEF a
    <3> QED BY <2>2, <3>4, <3>5 DEF NoLater
  <2>3. CASE job.path = p /\ job.calls \notin {Write, WriteSync}
    <3>1. files'[p].kept \subseteq kept \cup {<<>>}
      BY <1>1, <1>4, <2>3
    <3> QED BY <2>3, <3>1 DEF NoLater
  <2> QED BY <2>1, <2>2, <2>3
<1> QED BY <1>2, <1>5, <1>6 DEF NoLater

-----------------------------------------------------------------------------
(* The trace.                                                              *)

LEMMA ExpectedIsTrace ==
  ASSUME Types
  PROVE  /\ noted["trace"] \in Seq(Records) /\ ExpectedTrace \in Seq(Records)
         /\ Len(ExpectedTrace) = IF Len(noted["trace"]) < MaxEntries THEN Len(noted["trace"]) ELSE MaxEntries
         /\ \A i \in 1 .. Len(ExpectedTrace) : ExpectedTrace[i] = noted["trace"][i]
<1> DEFINE all == noted["trace"]
           m == IF Len(all) < MaxEntries THEN Len(all) ELSE MaxEntries
<1>1. all \in Seq(Records) /\ Len(all) \in Nat /\ MaxEntries \in Nat
  BY DiagnosticsAssumption DEF Types
<1>2. m \in 0 .. Len(all)
  BY <1>1
<1>3. ExpectedTrace = SubSeq(all, 1, m)
  BY DEF ExpectedTrace
<1> HIDE DEF all, m
<1>4. /\ SubSeq(all, 1, m) \in Seq(Records) /\ Len(SubSeq(all, 1, m)) = m
      /\ \A i \in 1 .. m : SubSeq(all, 1, m)[i] = all[i]
  BY <1>1, <1>2
<1> QED BY <1>1, <1>3, <1>4 DEF all, m

LEMMA WholeTraceOutlives ==
  ASSUME NEW T \in Seq(Records)
  PROVE  Outlives(T, T)
BY DEF Outlives

\* What outlived the trace before outlives it with a line that is not awaited.
LEMMA UnawaitedLine ==
  ASSUME NEW U \in Seq(Records), NEW r \in Records, NEW T, T = Append(U, r),
         ~Awaited(T, Len(T))
  PROVE  /\ U # <<>>
         /\ \A c : Outlives(c, U) => Outlives(c, T)
<1>1. /\ T \in Seq(Records) /\ Len(U) \in Nat /\ Len(T) = Len(U) + 1
      /\ \A i \in 1 .. Len(U) : T[i] = U[i]
  BY AppendProperties
<1>2. U # <<>>
  BY <1>1 DEF Awaited
<1>3. ASSUME NEW c, Outlives(c, U) PROVE Outlives(c, T)
  <2>1. Len(c) \in Nat /\ c \in Seq(Records) /\ Len(c) <= Len(U)
    BY <1>3 DEF Outlives
  <2>2. \A i \in 1 .. Len(c) : i \in 1 .. Len(U) /\ c[i] = U[i]
    BY <1>1, <1>3, <2>1 DEF Outlives
  <2>3. ASSUME NEW i \in 1 .. Len(T), Awaited(T, i) PROVE i <= Len(c)
    <3>1. i \in 1 .. Len(U)
      <4>1. i # Len(T)
        BY <2>3
      <4> QED BY <1>1, <4>1
    <3>2. Awaited(U, i)
      BY <1>1, <2>3, <3>1 DEF Awaited
    <3> QED BY <1>3, <3>1, <3>2 DEF Outlives
  <2>4. Len(c) <= Len(T) /\ \A i \in 1 .. Len(c) : c[i] = T[i]
    BY <1>1, <2>1, <2>2
  <2> QED BY ONLY <2>1, <2>3, <2>4 DEF Outlives
<1> QED BY <1>2, <1>3

LEMMA LastCalls ==
  /\ Line[Len(Line)] # "fsync" /\ Write[Len(Write)] # "fsync"
  /\ SyncedLine[Len(SyncedLine)] = "fsync" /\ WriteSync[Len(WriteSync)] = "fsync"
BY DEF Line, Write, SyncedLine, WriteSync

LEMMA TraceLasts ==
  ASSUME Types, Left, History, CallSucceeds, TraceStory
  PROVE  TraceStory'
<1> DEFINE job == Head(todo)
           rest == Tail(todo)
           f == files["trace"]
           T == ExpectedTrace
<1>1. /\ job \in Jobs(boot) /\ (job.path # "trace" => files'["trace"] = f)
      /\ job.path = "trace" /\ job.calls = Removal => files'["trace"].now = <<>>
      /\ job.path = "trace" /\ job.calls \in {Write, WriteSync} =>
           files'["trace"] = [now |-> Append(f.now, job.rec), kept |-> f.kept \cup {Append(f.now, job.rec)}]
      /\ job.path = "trace" /\ job.calls = Sync => files'["trace"] = [now |-> f.now, kept |-> {f.now}]
      /\ job.calls \in TraceWholes => files' = files
      /\ globals' = IF job.calls \in TraceWholes THEN [globals EXCEPT !.entries = @ + 1] ELSE globals
  <2> DEFINE now == files[job.path].now
             kept == files[job.path].kept
  <2>1. /\ job \in Jobs(boot) /\ \A q \in Paths : q # job.path => files'[q] = files[q]
        /\ job.calls \in {Removal, RewriteWhole, MarkWhole} =>
             files'[job.path] = [now |-> <<>>, kept |-> kept \cup {<<>>}]
        /\ job.calls \in {Write, WriteSync} =>
             files'[job.path] = [now |-> Append(now, job.rec), kept |-> kept \cup {Append(now, job.rec)}]
        /\ job.calls = Sync => files'[job.path] = [now |-> now, kept |-> {now}]
        /\ job.calls \in TraceWholes => files' = files
        /\ globals' = IF job.calls \in TraceWholes THEN [globals EXCEPT !.entries = @ + 1] ELSE globals
    BY Effect DEF Made
  <2>2. "trace" \in Paths
    BY FilesArePaths
  <2> HIDE DEF job
  <2>3. job.path = "trace" /\ job.calls = Removal => files'["trace"].now = <<>>
    BY <2>1
  <2>4. job.path # "trace" => files'["trace"] = f
    BY <2>1, <2>2
  <2> QED BY <2>1, <2>3, <2>4
<1>2. /\ todo # <<>> /\ Range(todo) = {job} \cup Range(rest) /\ Range(rest) \subseteq Range(todo')
      /\ \A x \in Range(rest) :
           /\ job.calls # Removal => x.calls # Removal /\ x.path # job.path
           /\ x.path = job.path => x.calls # Removal
      /\ \A x \in Range(todo') :
           x \in Range(rest) \/ (x.path = job.path /\ job.calls # Removal)
      /\ boot' = boot /\ noted' = noted
  BY Progressed
<1>3. /\ Len(job.calls) > 1 =>
           todo' # <<>> /\ Head(todo') = Job(job.path, Tail(job.calls), job.rec)
      /\ ~(Len(job.calls) > 1) => todo' = rest
  <2>1. todo' = AfterCall /\ Orderly(todo, boot)
    BY DEF CallSucceeds, Left
  <2> QED BY <1>2, <2>1, AfterOneCall
<1>4. /\ T \in Seq(Records) /\ ExpectedTrace' = T
      /\ globals \in [reset : BOOLEAN, main : BOOLEAN, recorded : BOOLEAN, beaten : BOOLEAN,
                      count : Nat, post : Nat, entries : 0 .. MaxEntries]
      /\ noted["trace"] \in Seq(Records)
  BY <1>2, ExpectedIsTrace DEF ExpectedTrace, Types
<1>5. /\ job.calls \in TraceWholes => job.path = "trace" /\ job.calls # Removal
      /\ job.calls \notin TraceWholes => globals' = globals
      /\ job.calls \in TraceWholes => globals'.entries = globals.entries + 1
  BY <1>1, <1>4, LinesAreOfTheTrace, ShapesOfCalls
<1>6. job.calls \in {Write, WriteSync, Sync} => job.calls # Removal /\ job.calls \notin TraceWholes
  BY ShapesOfCalls DEF TraceRests, Wholes
<1> HIDE DEF job, rest, T
<1>7. CASE job.path # "trace"
  <2>1. /\ files'["trace"] = f /\ globals' = globals
        /\ \A x \in Range(todo) : x.path = "trace" => x \in Range(todo')
        /\ (\A x \in Range(todo) : x.path # "trace") => \A x \in Range(todo') : x.path # "trace"
    BY <1>1, <1>2, <1>5, <1>7
  <2>2. CASE TraceToRemove
    BY <2>1, <2>2 DEF TraceToRemove, TraceStory
  <2>3. CASE TraceToBegin
    <3>1. PICK x \in Range(todo) :
             /\ x.path = "trace" /\ x.calls \in TraceWholes /\ LastLine(x)
             /\ globals.entries = Len(f.now)
      BY <2>3 DEF TraceToBegin
    <3>2. LastLine(x)'
      BY <1>4, <2>1, <3>1 DEF LastLine, Lasting, T
    <3> QED BY <2>1, <3>1, <3>2 DEF TraceToBegin, TraceStory
  <2>4. CASE TraceToWrite \/ TraceToSync
    BY <1>7, <2>4 DEF TraceToWrite, TraceToSync, job
  <2>5. CASE TraceDone
    BY <1>4, <2>1, <2>5 DEF TraceDone, TraceStory, Lasting, T
  <2> QED BY <2>2, <2>3, <2>4, <2>5 DEF TraceStory
<1>8. CASE job.path = "trace" /\ job.calls = Removal
  <2>1. /\ globals.post = 0 /\ globals.entries = 0
        /\ \A x \in Range(todo) : x.path = "trace" => x.calls = Removal
    BY <1>2, <1>8 DEF History, Agreement
  <2>2. \A x \in Range(todo') : x.path # "trace"
    BY <1>2, <1>8, <2>1
  <2>3. T = <<>>
    <3>1. noted = NothingNoted
      BY <2>1 DEF History, Agreement
    <3>2. noted["trace"] = <<>>
      BY <3>1 DEF NothingNoted
    <3>3. Len(noted["trace"]) = 0
      BY <3>2
    <3>4. Len(T) = 0
      BY <3>3, ExpectedIsTrace, DiagnosticsAssumption DEF T
    <3> QED BY <1>4, <3>4, EmptySeq
  <2>4. files'["trace"].now = T /\ globals'.entries = Len(T)
    BY <1>1, <1>5, <1>8, <2>1, <2>3
  <2> QED BY <1>4, <2>2, <2>3, <2>4 DEF TraceStory, TraceDone, Lasting, T
<1>9. ASSUME job.path = "trace", job.calls # Removal
      PROVE  /\ \A x \in Range(rest) : x.path # "trace" /\ x.calls # Removal
             /\ ~TraceToRemove /\ ~TraceDone
  BY <1>2, <1>9 DEF TraceToRemove, TraceDone
<1>10. CASE job.path = "trace" /\ job.calls # Removal /\ TraceToBegin
  <2>1. /\ job.calls \in TraceWholes /\ LastLine(job) /\ globals.entries = Len(f.now)
    BY <1>2, <1>9, <1>10 DEF TraceToBegin
  <2>2. /\ files' = files /\ globals'.entries = globals.entries + 1
    BY <1>1, <1>5, <2>1
  <2>3. /\ todo' # <<>> /\ Head(todo') = Job("trace", Tail(job.calls), job.rec)
        /\ Tail(job.calls) \in {Write, WriteSync}
        /\ job.calls[Len(job.calls)] = "fsync" =>
             Tail(job.calls)[Len(Tail(job.calls))] = "fsync"
    BY <1>3, <1>10, <2>1, CallByCall, LastCalls DEF TraceWholes
  <2>4. Len(T) = Len(f.now) + 1
    <3>1. T = Append(f.now, job.rec)
      BY <2>1 DEF LastLine, T
    <3>2. f.now \in Contents /\ job.rec \in AllRecords
      BY <1>1, <1>10, JobFacts, FilesArePaths DEF Types, Contents, RecordsOf
    <3> QED BY <3>1, <3>2 DEF Contents
  <2>5. LastLine(Head(todo))'
    <3>1. Head(todo').calls = Tail(job.calls) /\ Head(todo').rec = job.rec
      BY <2>3 DEF Job
    <3> QED BY <1>4, <2>1, <2>2, <2>3, <3>1 DEF LastLine, Lasting, T
  <2>6. Head(todo').path = "trace" /\ Head(todo').calls = Tail(job.calls)
    BY <2>3 DEF Job
  <2> QED BY <1>4, <2>1, <2>2, <2>3, <2>4, <2>5, <2>6 DEF TraceStory, TraceToWrite, T
<1>11. CASE job.path = "trace" /\ job.calls # Removal /\ TraceToWrite
  <2>1. /\ job.calls \in {Write, WriteSync} /\ T = Append(f.now, job.rec)
        /\ Awaited(T, Len(T)) => job.calls[Len(job.calls)] = "fsync"
        /\ Lasting(f.now) /\ globals.entries = Len(T)
    BY <1>11 DEF TraceToWrite, LastLine, job, T
  <2>2. files'["trace"] = [now |-> T, kept |-> f.kept \cup {T}] /\ globals' = globals
    BY <1>1, <1>5, <1>6, <1>11, <2>1
  <2>3. CASE job.calls = Write
    <3>1. todo' = rest /\ \A x \in Range(todo') : x.path # "trace"
      BY <1>3, <1>9, <1>11, <2>3, CallByCall
    <3>2. ~Awaited(T, Len(T))
      BY <2>1, <2>3, LastCalls
    <3>3. f.now \in Seq(Records) /\ job.rec \in Records
      <4>1. job.rec \in Records
        BY <1>1, <1>11, JobFacts
      <4>2. f.now \in Seq(AllRecords)
        BY FilesArePaths DEF Types
      <4>3. /\ Len(T) = Len(f.now) + 1 /\ Len(f.now) \in Nat
            /\ \A i \in 1 .. Len(f.now) : T[i] = f.now[i]
        <5>1. job.rec \in AllRecords
          BY <4>1 DEF AllRecords
        <5> HIDE DEF f
        <5> QED BY <2>1, <4>2, <5>1, AppendProperties
      <4>4. \A i \in 1 .. Len(f.now) : f.now[i] \in Records
        <5>1. \A i \in 1 .. Len(f.now) : i \in 1 .. Len(T) /\ T[i] = f.now[i]
          BY <4>3
        <5>2. \A i \in 1 .. Len(T) : T[i] \in Records
          BY <1>4
        <5> QED BY ONLY <5>1, <5>2
      <4>5. f.now \in Seq(Records)
        <5> HIDE DEF f
        <5> QED BY <4>2, <4>4, SeqDef
      <4> QED BY <4>1, <4>5
    <3>4. f.now # <<>> /\ \A c : Outlives(c, f.now) => Outlives(c, T)
      <4> DEFINE U == f.now
                 r == job.rec
      <4>1. U \in Seq(Records) /\ r \in Records /\ T = Append(U, r) /\ ~Awaited(T, Len(T))
        BY <2>1, <3>2, <3>3
      <4> HIDE DEF U, r
      <4>2. U # <<>> /\ \A c : Outlives(c, U) => Outlives(c, T)
        BY ONLY <4>1, UnawaitedLine
      <4> QED BY <4>2 DEF U
    <3>5. Outlives(T, T)
      BY <1>4, WholeTraceOutlives
    <3>6. Lasting(T)'
      <4>1. files'["trace"].kept = f.kept \cup {T}
        BY <2>2
      <4>2. \A c \in f.kept : Outlives(c, T)
        BY <2>1, <3>4 DEF Lasting
      <4>3. \A c \in files'["trace"].kept : Outlives(c, T)
        BY <3>5, <4>1, <4>2
      <4> QED BY <1>4, <4>3 DEF Lasting, T
    <3>7. files'["trace"].now = T
      BY <2>2
    <3> QED BY <1>4, <2>1, <2>2, <3>1, <3>6, <3>7 DEF TraceStory, TraceDone, T
  <2>4. CASE job.calls = WriteSync
    <3>1. todo' # <<>> /\ Head(todo') = Job("trace", Sync, job.rec)
      BY <1>3, <1>11, <2>4, CallByCall
    <3>2. files'["trace"].now = T
      BY <2>2
    <3>3. Head(todo').path = "trace" /\ Head(todo').calls = Sync
      BY <3>1 DEF Job
    <3>4. globals'.entries = Len(T)
      BY <2>1, <2>2
    <3>5. TraceToSync'
      BY <1>4, <3>1, <3>2, <3>3, <3>4 DEF TraceToSync, T
    <3> QED BY <3>5 DEF TraceStory
  <2> QED BY <2>1, <2>3, <2>4
<1>12. CASE job.path = "trace" /\ job.calls # Removal /\ TraceToSync
  <2>1. job.calls = Sync /\ f.now = T /\ globals.entries = Len(T)
    BY <1>12 DEF TraceToSync, job, T
  <2>2. files'["trace"] = [now |-> T, kept |-> {T}] /\ globals' = globals
    BY <1>1, <1>5, <1>6, <1>12, <2>1
  <2>3. todo' = rest /\ \A x \in Range(todo') : x.path # "trace"
    BY <1>3, <1>9, <1>12, <2>1, CallByCall
  <2>4. Lasting(T)'
    BY <1>4, <2>2, WholeTraceOutlives DEF Lasting, T
  <2>5. files'["trace"].now = T
    BY <2>2
  <2> QED BY <1>4, <2>1, <2>2, <2>3, <2>4, <2>5 DEF TraceStory, TraceDone, T
<1> QED BY <1>7, <1>8, <1>9, <1>10, <1>11, <1>12 DEF TraceStory

-----------------------------------------------------------------------------
(* A system call keeps the invariant.                                      *)

LEMMA HistoryLasts ==
  ASSUME Types, Left, History, CallSucceeds
  PROVE  History'
<1> DEFINE job == Head(todo)
           rest == Tail(todo)
<1>1. /\ job \in Jobs(boot)
      /\ globals' = IF job.calls \in TraceWholes THEN [globals EXCEPT !.entries = @ + 1] ELSE globals
  BY Effect DEF Made
<1>2. /\ Range(todo) = {job} \cup Range(rest)
      /\ \A x \in Range(todo') :
           \/ x \in Range(rest)
           \/ /\ x.path = job.path /\ job.calls # Removal
              /\ x.calls \notin Wholes \cup {Removal}
      /\ noted' = noted
  BY Progressed
<1>3. /\ globals'.beaten = globals.beaten /\ globals'.recorded = globals.recorded
      /\ globals'.post = globals.post /\ globals'.main = globals.main
      /\ job.calls \notin TraceWholes => globals'.entries = globals.entries
  <2>1. globals \in [reset : BOOLEAN, main : BOOLEAN, recorded : BOOLEAN, beaten : BOOLEAN,
                     count : Nat, post : Nat, entries : 0 .. MaxEntries]
    BY DEF Types
  <2> HIDE DEF job
  <2> QED BY <1>1, <2>1
<1>4. job.calls \in TraceWholes => job.path = "trace" /\ job.calls # Removal
  BY <1>1, LinesAreOfTheTrace, ShapesOfCalls
<1> HIDE DEF job, rest
<1>5. ASSUME NEW y \in Range(todo'), y.calls = Removal
      PROVE  /\ globals'.post = 0 /\ globals'.entries = 0
             /\ \A x \in Range(todo') : x.path = "trace" => x.calls = Removal
  <2>1. y \in Range(todo)
    BY <1>2, <1>5
  <2>2. /\ globals.post = 0 /\ globals.entries = 0
        /\ \A x \in Range(todo) : x.path = "trace" => x.calls = Removal
    BY <1>5, <2>1 DEF History, Agreement
  <2>3. \A x \in Range(todo') : x.path = "trace" => x.calls = Removal
    BY <1>2, <2>2
  <2> QED BY <1>2, <1>3, <1>4, <2>2, <2>3
<1>6. (\E x \in Range(todo') : x.calls = Removal) =>
        /\ globals'.post = 0 /\ globals'.entries = 0
        /\ \A x \in Range(todo') : x.path = "trace" => x.calls = Removal
  BY <1>5
<1> QED BY <1>2, <1>3, <1>6 DEF History, Agreement

LEMMA SuccessKeeps ==
  ASSUME IInv, CallSucceeds
  PROVE  IInv'
<1> DEFINE job == Head(todo)
           rest == Tail(todo)
<1>1. Types' /\ Old' /\ Left'
  BY SuccessKeepsTypes DEF IInv
<1>2. /\ Running /\ Running' /\ Failed' = Failed /\ noted' = noted /\ boot' = boot
      /\ \A q \in Paths : q # job.path => files'[q] = files[q]
      /\ globals' = IF job.calls \in TraceWholes THEN [globals EXCEPT !.entries = @ + 1] ELSE globals
      /\ job \in Jobs(boot)
  BY Effect DEF Made, IInv, Left, CallSucceeds, Running, Failed
<1>3. /\ globals \in [reset : BOOLEAN, main : BOOLEAN, recorded : BOOLEAN, beaten : BOOLEAN,
                      count : Nat, post : Nat, entries : 0 .. MaxEntries]
      /\ globals'.reset = globals.reset /\ globals'.main = globals.main /\ globals'.count = globals.count
  <2>1. globals \in [reset : BOOLEAN, main : BOOLEAN, recorded : BOOLEAN, beaten : BOOLEAN,
                      count : Nat, post : Nat, entries : 0 .. MaxEntries]
    BY DEF IInv, Types
  <2> HIDE DEF job
  <2> QED BY <1>2, <2>1
<1>4. Types /\ Old /\ Left
  BY DEF IInv
<1>5. CASE globals.reset
  <2>1. History /\ FilesKept
    BY <1>2, <1>5 DEF IInv
  <2>2. History'
    BY <1>4, <2>1, HistoryLasts
  <2>3. \A p \in Range(LivenessFiles) \ Failed' : FileFresh(p)'
    BY <1>2, <1>4, <2>1, FreshLasts DEF FilesKept
  <2>4. \A p \in Rewritten : \A r \in Records : Will(p, r) => Will(p, r)'
    BY <1>4, WillLasts
  <2>5. MilestonesKept'
    <3>1. /\ noted["first"] # <<>> => Head(noted["first"]) \in Records
          /\ noted["last"] # <<>> => Last(noted["last"]) \in Records
      <4>1. noted["first"] \in Seq(Records) /\ noted["last"] \in Seq(Records)
        BY <1>4 DEF Types
      <4>2. noted["last"] # <<>> => Len(noted["last"]) \in 1 .. Len(noted["last"])
        BY <4>1
      <4> QED BY <4>1, <4>2 DEF Last
    <3>2. {"first", "last", "main"} \subseteq Rewritten
      BY DEF Rewritten
    <3>3. MilestonesKept
      BY <2>1 DEF FilesKept
    <3>4. noted["first"] # <<>> /\ "first" \notin Failed => Will("first", Head(noted["first"]))'
      BY <1>2, <2>4, <3>1, <3>2, <3>3 DEF MilestonesKept
    <3>5. noted["last"] # <<>> /\ "last" \notin Failed => Will("last", Last(noted["last"]))'
      BY <1>2, <2>4, <3>1, <3>2, <3>3 DEF MilestonesKept
    <3>6. globals.main /\ "main" \notin Failed =>
            \E r \in Records : r.boot = boot /\ r.target = "main" /\ r.post = 0 /\ Will("main", r)'
      BY <1>2, <2>4, <3>2, <3>3 DEF MilestonesKept
    <3> QED BY <1>2, <1>3, <3>4, <3>5, <3>6 DEF MilestonesKept
  <2>6. HeartbeatKept'
    <3>1. SUFFICES ASSUME "heartbeat" \notin Failed
                   PROVE  \E r \in Records : /\ Will("heartbeat", r)' /\ r.count <= globals'.count
                                             /\ NoLater("main", r.count)' /\ NoLater("first", r.count)'
      BY <1>2 DEF HeartbeatKept
    <3>2. PICK r \in Records : /\ Will("heartbeat", r) /\ r.count <= globals.count
                               /\ NoLater("main", r.count) /\ NoLater("first", r.count)
      BY <2>1, <3>1 DEF FilesKept, HeartbeatKept
    <3>3. r.count \in Nat
      BY DEF Records
    <3>4. Will("heartbeat", r)'
      BY <2>4, <3>2 DEF Rewritten
    <3>5. \A p \in {"main", "first"} : NoLater(p, r.count) => NoLater(p, r.count)'
      BY <1>4, <3>3, NoLaterLasts
    <3> QED BY <1>3, <3>2, <3>4, <3>5
  <2>7. "trace" \notin Failed' => TraceStory'
    BY <1>2, <1>4, <2>1, TraceLasts DEF FilesKept
  <2> QED BY <1>1, <1>3, <1>5, <2>2, <2>3, <2>5, <2>6, <2>7 DEF IInv, FilesKept
<1>6. CASE ~globals.reset
  <2>1. Unused
    BY <1>2, <1>6 DEF IInv
  <2>2. /\ Range(todo) = {job} \cup Range(rest)
        /\ \A x \in Range(todo') :
             x \in Range(rest) \/ (x.path = job.path /\ x.calls \notin Wholes \cup {Removal})
    BY <1>4, Progressed
  <2>3. job.path \in Marks \cup {"blocker", "exception"}
    BY <2>1, <2>2 DEF Unused
  <2>4. job.calls \notin TraceWholes
    BY <1>2, <2>3, LinesAreOfTheTrace DEF Marks
  <2>5. \A x \in Range(todo') : x.path \in Marks \cup {"blocker", "exception"} /\ x.calls # Removal
    BY <2>1, <2>2, <2>3 DEF Unused
  <2>6. \A p \in {"main", "first"} : files'[p] = files[p]
    BY <1>2, <2>3, FilesArePaths DEF Marks, Rewritten
  <2> QED BY <1>1, <1>2, <1>3, <1>6, <2>1, <2>4, <2>5, <2>6 DEF IInv, Unused
<1> QED BY <1>5, <1>6

LEMMA FailureKeeps ==
  ASSUME IInv, CallFails
  PROVE  IInv'
<1> DEFINE job == Head(todo)
           rest == Tail(todo)
<1>1. /\ todo # <<>> /\ todo' = AfterFailure
      /\ Cardinality(failures) < MaxFailures /\ Spent + 2 <= MaxDispatches
      /\ failures' = failures \cup {<<boot, job.path>>}
      /\ UNCHANGED <<files, globals, process, boot, noted, past>>
  BY DEF CallFails
<1>2. Types /\ Old /\ Left /\ Orderly(todo, boot)
  BY DEF IInv, Left
<1>3. /\ job \in Jobs(boot) /\ Range(todo) = {job} \cup Range(rest) /\ Running
      /\ \A x \in Range(rest) : job.calls # Removal => x.calls # Removal
  BY <1>1, <1>2, Behind DEF Left, Running
<1>4. /\ Orderly(todo', boot) /\ Range(rest) \subseteq Range(todo')
      /\ \A x \in Range(todo') :
           \/ x \in Range(rest)
           \/ x.path = "fallback" /\ job.path = "progress" /\ x.calls = MarkWhole
           \/ /\ x.path = job.path /\ x.rec = job.rec /\ job.calls # Removal
              /\ x.calls \notin Wholes \cup {Removal}
  BY <1>1, <1>2, AfterFailedCall
<1>5. job.path \in Paths /\ Failed' = Failed \cup {job.path}
  <2>1. job.path \in Paths
    BY <1>3, JobFacts
  <2> HIDE DEF job
  <2>2. ASSUME NEW p \in Paths
        PROVE  <<boot, p>> \in failures' <=> (<<boot, p>> \in failures \/ p = job.path)
    BY <1>1
  <2> QED BY <1>1, <2>1, <2>2 DEF Failed
<1>6. MarkWhole # Removal
  BY ShapesOfCalls
<1> HIDE DEF job, rest
<1>7. Types'
  <2>1. IsFiniteSet(failures') /\ Cardinality(failures') \in Nat /\ Cardinality(failures') <= Cardinality(failures) + 1
    <3>1. IsFiniteSet(failures) /\ Cardinality(failures) \in Nat
      BY <1>2, FS_CardinalityType DEF Types
    <3> DEFINE x == <<boot, job.path>>
    <3>2. failures' = failures \cup {x}
      BY <1>1
    <3> HIDE DEF x
    <3>3. /\ IsFiniteSet(failures \cup {x})
          /\ Cardinality(failures \cup {x}) = IF x \in failures THEN Cardinality(failures) ELSE Cardinality(failures) + 1
      BY ONLY <3>1, FS_AddElement
    <3> QED BY <3>1, <3>2, <3>3
  <2>2. failures' \subseteq (1 .. MaxBoots) \X Paths
    <3>1. boot \in 1 .. MaxBoots
      BY <1>2, <1>3, DiagnosticsAssumption DEF Types, Running
    <3> QED BY <1>1, <1>2, <1>5, <3>1 DEF Types
  <2>3. Spent' <= MaxDispatches
    <3>1. /\ past \in Nat /\ globals.count \in Nat /\ Cardinality(failures) \in Nat
          /\ MaxDispatches \in Nat
      BY <1>2, FS_CardinalityType, DiagnosticsAssumption DEF Types
    <3>2. past + globals.count + 2 * Cardinality(failures) + 2 <= MaxDispatches
      BY <1>1 DEF Spent
    <3>3. past + globals.count + 2 * Cardinality(failures') <= MaxDispatches
      BY ONLY <2>1, <3>1, <3>2
    <3> QED BY <1>1, <3>3 DEF Spent
  <2> QED BY <1>1, <1>2, <2>1, <2>2, <2>3 DEF Types
<1>8. Old'
  BY <1>1, <1>2 DEF Old
<1>9. Left'
  BY <1>1, <1>2, <1>3, <1>4 DEF Left, Running, Wholes, TraceWholes
<1>10. CASE globals.reset
  <2>1. History /\ FilesKept
    BY <1>3, <1>10 DEF IInv
  <2>2. History'
    <3>1. ASSUME NEW y \in Range(todo'), y.calls = Removal
          PROVE  \A x \in Range(todo') : x.path = "trace" => x.calls = Removal
      <4>1. \A x \in Range(todo) : x.path = "trace" => x.calls = Removal
        BY <1>3, <1>4, <1>6, <3>1, <2>1 DEF History, Agreement
      <4> QED BY <1>3, <1>4, <4>1
    <3>2. (\E y \in Range(todo') : y.calls = Removal) =>
            /\ globals.post = 0 /\ globals.entries = 0
            /\ \A x \in Range(todo') : x.path = "trace" => x.calls = Removal
      <4>1. (\E y \in Range(todo') : y.calls = Removal) => \E y \in Range(todo) : y.calls = Removal
        BY <1>3, <1>4, <1>6
      <4> QED BY <2>1, <3>1, <4>1 DEF History, Agreement
    <3> QED BY <1>1, <2>1, <3>2 DEF History, Agreement
  <2>3. ASSUME NEW p \in Range(LivenessFiles) \ Failed'
        PROVE  FileFresh(p)'
    BY <1>1, <1>3, <1>4, <1>5, <2>1, <2>3 DEF FilesKept, FileFresh, ToRemove
  <2>4. \A p \in Rewritten : p \notin Failed' => \A r \in Records : Will(p, r) => Will(p, r)'
    BY <1>2, <1>5, WillLastsFailure DEF job
  <2>5. MilestonesKept'
    <3>1. /\ noted["first"] # <<>> => Head(noted["first"]) \in Records
          /\ noted["last"] # <<>> => Last(noted["last"]) \in Records
      <4>1. noted["first"] \in Seq(Records) /\ noted["last"] \in Seq(Records)
        BY <1>2 DEF Types
      <4>2. noted["last"] # <<>> => Len(noted["last"]) \in 1 .. Len(noted["last"])
        BY <4>1
      <4> QED BY <4>1, <4>2 DEF Last
    <3>2. {"first", "last", "main"} \subseteq Rewritten
      BY DEF Rewritten
    <3>3. MilestonesKept
      BY <2>1 DEF FilesKept
    <3>4. noted["first"] # <<>> /\ "first" \notin Failed' => Will("first", Head(noted["first"]))'
      BY <1>1, <1>5, <2>4, <3>1, <3>2, <3>3 DEF MilestonesKept
    <3>5. noted["last"] # <<>> /\ "last" \notin Failed' => Will("last", Last(noted["last"]))'
      BY <1>1, <1>5, <2>4, <3>1, <3>2, <3>3 DEF MilestonesKept
    <3>6. globals.main /\ "main" \notin Failed' =>
            \E r \in Records : r.boot = boot /\ r.target = "main" /\ r.post = 0 /\ Will("main", r)'
      BY <1>5, <2>4, <3>2, <3>3 DEF MilestonesKept
    <3> QED BY <1>1, <3>4, <3>5, <3>6 DEF MilestonesKept
  <2>6. HeartbeatKept'
    <3>1. SUFFICES ASSUME "heartbeat" \notin Failed'
                   PROVE  \E r \in Records : /\ Will("heartbeat", r)' /\ r.count <= globals'.count
                                             /\ NoLater("main", r.count)' /\ NoLater("first", r.count)'
      BY DEF HeartbeatKept
    <3>2. PICK r \in Records : /\ Will("heartbeat", r) /\ r.count <= globals.count
                               /\ NoLater("main", r.count) /\ NoLater("first", r.count)
      BY <1>5, <2>1, <3>1 DEF FilesKept, HeartbeatKept
    <3>3. Will("heartbeat", r)'
      BY <2>4, <3>1, <3>2 DEF Rewritten
    <3>4. \A p \in {"main", "first"} : NoLater(p, r.count) => NoLater(p, r.count)'
      BY <1>1, <1>3, <1>4 DEF NoLater
    <3> QED BY <1>1, <3>2, <3>3, <3>4
  <2>7. ASSUME "trace" \notin Failed'
        PROVE  TraceStory'
    <3>1. job.path # "trace" /\ TraceStory
      BY <1>5, <2>1, <2>7 DEF FilesKept
    <3>2. /\ \A x \in Range(todo) : x.path = "trace" => x \in Range(todo')
          /\ (\A x \in Range(todo) : x.path # "trace") => \A x \in Range(todo') : x.path # "trace"
      BY <1>3, <1>4, <3>1
    <3>3. ExpectedTrace' = ExpectedTrace
      BY <1>1 DEF ExpectedTrace
    <3>4. CASE TraceToRemove
      BY <3>2, <3>4 DEF TraceToRemove, TraceStory
    <3>5. CASE TraceToBegin
      <4>1. PICK x \in Range(todo) :
               /\ x.path = "trace" /\ x.calls \in TraceWholes /\ LastLine(x)
               /\ globals.entries = Len(files["trace"].now)
        BY <3>5 DEF TraceToBegin
      <4>2. LastLine(x)'
        BY <1>1, <3>3, <4>1 DEF LastLine, Lasting
      <4> QED BY <1>1, <3>2, <4>1, <4>2 DEF TraceToBegin, TraceStory
    <3>6. CASE TraceToWrite \/ TraceToSync
      BY <3>1, <3>6 DEF TraceToWrite, TraceToSync, job
    <3>7. CASE TraceDone
      BY <1>1, <3>2, <3>3, <3>7 DEF TraceDone, TraceStory, Lasting
    <3> QED BY <3>1, <3>4, <3>5, <3>6, <3>7 DEF TraceStory
  <2> QED BY <1>1, <1>7, <1>8, <1>9, <1>10, <2>2, <2>3, <2>5, <2>6, <2>7 DEF IInv, FilesKept
<1>11. CASE ~globals.reset
  <2>1. Unused
    BY <1>3, <1>11 DEF IInv
  <2>2. \A x \in Range(todo') : x.path \in Marks \cup {"blocker", "exception"} /\ x.calls # Removal
    BY <1>3, <1>4, <1>6, <2>1 DEF Unused, Marks
  <2> QED BY <1>1, <1>7, <1>8, <1>9, <1>11, <2>1, <2>2 DEF IInv, Unused
<1> QED BY <1>10, <1>11

-----------------------------------------------------------------------------
(* Handlers that write one file.                                           *)

LEMMA NothingLeft ==
  ASSUME todo = <<>>
  PROVE  /\ Range(todo) = {}
         /\ \A p, r : Will(p, r) => files[p] = [now |-> <<r>>, kept |-> {<<r>>}]
         /\ \A p : FileFresh(p) => files[p].now \in Seq(RecordsOf(boot))
         /\ TraceStory => TraceDone
<1>1. Range(todo) = {}
  BY DEF Range
<1> QED BY <1>1 DEF Will, FileFresh, ToRemove, TraceStory, TraceToRemove, TraceToBegin,
                    TraceToWrite, TraceToSync

LEMMA OneJob ==
  ASSUME NEW b, NEW x \in Jobs(b), x.calls # Removal, x.calls \in Wholes
  PROVE  /\ Orderly(<<x>>, b) /\ Range(<<x>>) = {x}
<1> DEFINE J == Jobs(b)
<1>1. <<x>> \in Seq(J) /\ Len(<<x>>) = 1 /\ <<x>>[1] = x
  OBVIOUS
<1>2. Range(<<x>>) = {x}
  BY DEF Range
<1> HIDE DEF J
<1> DEFINE s == <<x>>
<1>3. s \in Seq(J) /\ Len(s) = 1
  BY <1>1
<1> HIDE DEF s
<1>4. Orderly(s, b)
  BY <1>3 DEF Orderly, J
<1> QED BY <1>2, <1>4 DEF s

LEMMA SnapshotIsRecord ==
  ASSUME Types, boot # 0, NEW g, g.count \in 0 .. MaxDispatches, g.post \in 0 .. MaxDispatches,
         NEW target \in Targets
  PROVE  Snapshot(g, target) \in Records /\ Snapshot(g, target).boot = boot
<1>1. boot \in 1 .. MaxBoots
  BY DiagnosticsAssumption DEF Types
<1> QED BY <1>1 DEF Snapshot, Records

LEMMA CountsAreBounded ==
  ASSUME Types
  PROVE  /\ globals.count \in 0 .. MaxDispatches /\ globals.post \in 0 .. MaxDispatches
         /\ Spent < MaxDispatches => globals.count + 1 \in 0 .. MaxDispatches
<1>1. /\ past \in Nat /\ globals.count \in Nat /\ globals.post \in Nat /\ Cardinality(failures) \in Nat
      /\ MaxDispatches \in Nat /\ globals.post <= globals.count
  BY FS_CardinalityType, DiagnosticsAssumption DEF Types
<1>2. past + globals.count + 2 * Cardinality(failures) <= MaxDispatches
  BY DEF Types, Spent
<1>3. Spent < MaxDispatches => past + globals.count + 2 * Cardinality(failures) < MaxDispatches
  BY DEF Spent
<1> QED BY ONLY <1>1, <1>2, <1>3

LEMMA ReportKeeps ==
  ASSUME IInv, todo = <<>>, process # "off", process' \in {"guest", "idle", "aborting"},
         NEW x \in Jobs(boot), x.calls \in {RewriteWhole, MarkWhole},
         x.path \in Marks \cup {"blocker", "exception"}, todo' = <<x>>,
         UNCHANGED <<files, globals, boot, failures, noted, past>>
  PROVE  IInv'
<1>1. x.calls # Removal /\ x.calls \in Wholes /\ x.calls \notin TraceWholes
  BY ShapesOfCalls DEF Wholes
<1>2. Orderly(todo', boot) /\ Range(todo') = {x} /\ Range(todo) = {}
  BY <1>1, OneJob, NothingLeft
<1>3. x.path \notin {"main", "first", "last", "heartbeat", "trace"}
  BY DEF Marks
<1>4. Types' /\ Old' /\ Left'
  <2>1. Types'
    BY DEF IInv, Types, Spent
  <2>2. Old'
    BY DEF IInv, Old
  <2>3. Left'
    BY <1>2, <1>3 DEF Left
  <2> QED BY <2>1, <2>2, <2>3
<1>5. Running /\ Failed' = Failed /\ ExpectedTrace' = ExpectedTrace
  BY DEF Running, Failed, ExpectedTrace
<1>6. CASE globals.reset
  <2>1. History /\ FilesKept
    BY <1>5, <1>6 DEF IInv
  <2>2. History'
    BY <1>1, <1>2, <2>1 DEF History, Agreement
  <2>3. \A p \in Range(LivenessFiles) \ Failed' : FileFresh(p)'
    BY <1>5, <2>1, NothingLeft DEF FilesKept, FileFresh
  <2>4. \A p \in {"main", "first", "last", "heartbeat"} : \A r : Will(p, r) => Will(p, r)'
    BY <1>2, <1>3, NothingLeft DEF Will
  <2>5. MilestonesKept'
    BY <1>5, <2>1, <2>4 DEF FilesKept, MilestonesKept
  <2>6. HeartbeatKept'
    <3>1. \A p \in {"main", "first"} : \A n : NoLater(p, n) => NoLater(p, n)'
      BY <1>2, <1>3 DEF NoLater
    <3> QED BY <1>5, <2>1, <2>4, <3>1 DEF FilesKept, HeartbeatKept
  <2>7. TraceStory => TraceStory'
    BY <1>2, <1>3, <1>5, NothingLeft DEF TraceStory, TraceDone, Lasting
  <2> QED BY <1>4, <1>5, <1>6, <2>1, <2>2, <2>3, <2>5, <2>6, <2>7 DEF IInv, FilesKept
<1>7. CASE ~globals.reset
  <2>1. Unused
    BY <1>5, <1>7 DEF IInv
  <2> QED BY <1>1, <1>2, <1>4, <1>7, <2>1 DEF IInv, Unused
<1> QED BY <1>6, <1>7

LEMMA ReportsKeep ==
  ASSUME IInv, ReportUnsupported \/ LibnxException \/ StartReturns
  PROVE  IInv'
<1>1. /\ process = "guest" /\ todo = <<>> /\ Types
      /\ UNCHANGED <<files, globals, boot, failures, noted, past>>
  BY DEF IInv, ReportUnsupported, LibnxException, StartReturns
<1> DEFINE s == Snapshot(globals, "plain")
           e(outcome) == [boot |-> boot, state |-> outcome]
<1>2. boot # 0
  BY <1>1 DEF Types
<1>3. s \in Records /\ s.boot = boot
  BY <1>1, <1>2, SnapshotIsRecord, CountsAreBounded DEF Targets
<1>4. \A outcome \in {"returned", "std_exception", "unknown_exception"} :
         e(outcome) \in StateRecords /\ e(outcome).boot = boot
  BY <1>1, <1>2, DiagnosticsAssumption DEF StateRecords, Types
<1> HIDE DEF s, e
<1>5. CASE ReportUnsupported
  <2>1. todo' = <<Job("blocker", RewriteWhole, s)>> /\ process' = "aborting"
    BY <1>5 DEF ReportUnsupported, Rewrite, RewriteWhole, s
  <2>2. Job("blocker", RewriteWhole, s) \in Jobs(boot)
    BY <1>3, RewriteJob DEF Rewritten
  <2> QED BY <1>1, <2>1, <2>2, ReportKeeps DEF Job
<1>6. CASE LibnxException
  <2>1. todo' = <<Job("exception", RewriteWhole, s)>> /\ process' = "aborting"
    BY <1>6 DEF LibnxException, Rewrite, RewriteWhole, s
  <2>2. Job("exception", RewriteWhole, s) \in Jobs(boot)
    BY <1>3, RewriteJob DEF Rewritten
  <2> QED BY <1>1, <2>1, <2>2, ReportKeeps DEF Job
<1>7. CASE StartReturns
  <2>1. PICK outcome \in {"returned", "std_exception", "unknown_exception"} :
          todo' = <<Job("progress", MarkWhole, e(outcome))>> /\ process' = "idle"
    BY <1>7 DEF StartReturns, Progress, MarkWhole, e
  <2>2. Job("progress", MarkWhole, e(outcome)) \in Jobs(boot) /\ "progress" \in Marks
    BY <1>4, MarkJob DEF Marks
  <2> QED BY <1>1, <2>1, <2>2, ReportKeeps DEF Job
<1> QED BY <1>5, <1>6, <1>7

LEMMA BootKeeps ==
  ASSUME IInv, Boot
  PROVE  IInv'
<1>1. /\ process = "off" /\ boot < MaxBoots /\ boot' = boot + 1 /\ process' = "guest"
      /\ globals' = FreshGlobals /\ noted' = NothingNoted /\ past' = past + globals.count
      /\ UNCHANGED <<files, failures>>
  BY DEF Boot
<1>2. Types /\ Old /\ boot \in Nat
  BY DEF IInv, Types
<1> DEFINE e == [boot |-> boot', state |-> "entering"]
           x == Job("progress", MarkWhole, e)
<1>3. todo' = <<x>>
  BY <1>1 DEF Boot, Progress, MarkWhole
<1>4. e \in StateRecords /\ e.boot = boot'
  BY <1>1, <1>2, DiagnosticsAssumption DEF StateRecords
<1> HIDE DEF e
<1>5. x \in Jobs(boot') /\ x.path = "progress" /\ x.calls = MarkWhole /\ "progress" \in Marks
  BY <1>4, MarkJob DEF Marks, Job
<1> HIDE DEF x
<1>6. x.calls # Removal /\ x.calls \in Wholes /\ x.calls \notin TraceWholes
  BY <1>5, ShapesOfCalls DEF Wholes
<1>7. Orderly(todo', boot') /\ Range(todo') = {x}
  BY <1>3, <1>5, <1>6, OneJob
<1>8. Types'
  <2>1. Spent' = Spent
    <3>1. globals'.count = 0
      BY <1>1 DEF FreshGlobals
    <3>2. past \in Nat /\ globals.count \in Nat /\ Cardinality(failures) \in Nat
      BY <1>2, FS_CardinalityType DEF Types
    <3> QED BY <1>1, <3>1, <3>2 DEF Spent
  <2>2. NothingNoted \in [{"first", "last", "trace"} -> Seq(Records)]
    BY DEF NothingNoted
  <2>3. /\ FreshGlobals \in [reset : BOOLEAN, main : BOOLEAN, recorded : BOOLEAN, beaten : BOOLEAN,
                             count : Nat, post : Nat, entries : 0 .. MaxEntries]
        /\ FreshGlobals.post <= FreshGlobals.count
    BY DiagnosticsAssumption DEF FreshGlobals
  <2>4. boot' \in 0 .. MaxBoots /\ boot' # 0 /\ past' \in Nat
    <3>1. MaxBoots \in Nat /\ boot \in Nat /\ past \in Nat /\ globals.count \in Nat
      BY <1>2, DiagnosticsAssumption DEF Types
    <3> QED BY ONLY <1>1, <3>1
  <2> QED BY <1>1, <1>2, <2>1, <2>2, <2>3, <2>4 DEF Types
<1>9. Old' /\ \A p \in {"main", "first"} : \A c \in files'[p].kept : c = <<>> \/ c[1].boot < boot'
  <2>1. ASSUME NEW p \in Paths, NEW c \in files[p].kept, c # <<>>
        PROVE  c[1].boot < boot'
    <3>1. c[1] \in AllRecords
      <4>1. c \in Seq(AllRecords)
        BY <1>2, <2>1 DEF Types
      <4> QED BY <2>1, <4>1
    <3>2. c[1].boot \in Nat
      BY <3>1 DEF AllRecords, Records, StateRecords
    <3>3. c[1].boot <= boot
      BY <1>2, <2>1 DEF Old
    <3> QED BY <1>1, <1>2, <3>2, <3>3
  <2>2. ASSUME NEW p \in Paths, NEW c \in files[p].kept, c # <<>>
        PROVE  c[1].boot <= boot'
    <3>1. c[1].boot <= boot
      BY <1>2, <2>2 DEF Old
    <3>2. c[1] \in AllRecords
      <4>1. c \in Seq(AllRecords)
        BY <1>2, <2>2 DEF Types
      <4> QED BY <2>2, <4>1
    <3>3. c[1].boot \in Nat
      BY <3>2 DEF AllRecords, Records, StateRecords
    <3> QED BY <1>1, <1>2, <3>1, <3>3
  <2> QED BY <1>1, <2>1, <2>2, FilesArePaths DEF Old, Rewritten
<1>10. Left'
  BY <1>1, <1>5, <1>7 DEF Left
<1>11. ~globals'.reset /\ Unused'
  BY <1>1, <1>5, <1>6, <1>7, <1>9 DEF Unused, FreshGlobals
<1> QED BY <1>8, <1>9, <1>10, <1>11 DEF IInv

\* The process ends with no call left, whatever the card holds then.
LEMMA EndKeeps ==
  ASSUME IInv, Aborts \/ Closed \/ PowerLost
  PROVE  IInv'
<1>1. /\ process' = "off" /\ todo' = <<>>
      /\ UNCHANGED <<globals, boot, failures, noted, past>>
  BY DEF Aborts, Closed, PowerLost
<1>2. Left'
  <2>1. Orderly(<<>>, boot)
    BY DEF Orderly
  <2>2. Range(<<>>) = {}
    BY DEF Range
  <2> QED BY <1>1, <2>1, <2>2 DEF Left
<1>3. CASE Aborts \/ Closed
  <2>1. files' = files
    BY <1>3 DEF Aborts, Closed
  <2>2. Types'
    BY <1>1, <2>1 DEF IInv, Types, Spent
  <2>3. Old'
    BY <1>1, <2>1 DEF IInv, Old
  <2> QED BY <1>1, <1>2, <2>2, <2>3 DEF IInv, Running
<1>4. CASE PowerLost
  <2>1. PICK card \in Survivals :
          files' = [p \in Paths |-> [now |-> card[p], kept |-> {card[p]}]]
    BY <1>4 DEF PowerLost
  <2>2. ASSUME NEW p \in Paths PROVE card[p] \in files[p].kept
    <3>1. p \in {"blocker", "exception", "heartbeat", "main", "first", "last", "trace",
                 "progress", "fallback"}
      BY <2>2, FilesArePaths DEF Rewritten, Marks
    <3> QED BY <2>1, <3>1 DEF Survivals
  <2>3. ASSUME NEW p \in Paths PROVE card[p] \in Contents
    BY <2>2 DEF IInv, Types, Contents
  <2>4. files' \in Cards
    <3> HIDE DEF Contents
    <3> QED BY <2>1, <2>3 DEF Cards
  <2>5. \A p \in Paths : files'[p].now \in files'[p].kept /\ files'[p].kept \subseteq files[p].kept
    BY <2>1, <2>2
  <2>6. Types'
    BY <1>1, <2>4, <2>5 DEF IInv, Types, Spent, Cards, Contents
  <2>7. Old'
    BY <1>1, <2>5 DEF IInv, Old
  <2> QED BY <1>1, <1>2, <2>6, <2>7 DEF IInv, Running
<1> QED BY <1>3, <1>4

-----------------------------------------------------------------------------
(* What a dispatch writes.                                                 *)

\* Files of K that are still untouched, none twice.
Batch(s, b, K) ==
  /\ s \in Seq(Jobs(b))
  /\ \A i \in 1 .. Len(s) : s[i].calls \in Wholes /\ s[i].path \in K
  /\ \A i, k \in 1 .. Len(s) : i < k => s[i].path # s[k].path

\* x is the last of s.
Ends(s, x) == Len(s) \in Nat \ {0} /\ s[Len(s)] = x

LEMMA EndsWithOne ==
  ASSUME NEW S, NEW s \in Seq(S), NEW x
  PROVE  Ends(s \o <<x>>, x)
<1>1. Len(s) \in Nat /\ Len(<<x>>) = 1 /\ <<x>>[1] = x
  OBVIOUS
<1>2. /\ Len(s \o <<x>>) = Len(s) + 1
      /\ (s \o <<x>>)[Len(s) + 1] = <<x>>[(Len(s) + 1) - Len(s)]
  BY <1>1
<1>3. (Len(s) + 1) - Len(s) = 1 /\ Len(s) + 1 \in Nat \ {0}
  BY <1>1
<1> QED BY <1>1, <1>2, <1>3 DEF Ends

LEMMA BatchOfOne ==
  ASSUME NEW b, NEW x \in Jobs(b), x.calls \in Wholes, NEW K, x.path \in K, NEW c
  PROVE  /\ Batch(If(c, <<x>>), b, K)
         /\ \A y : y \in Range(If(c, <<x>>)) <=> c /\ y = x
<1> DEFINE J == Jobs(b)
<1>1. <<x>> \in Seq(J) /\ Len(<<x>>) = 1 /\ <<x>>[1] = x /\ Range(<<x>>) = {x}
  BY DEF Range
<1>2. <<>> \in Seq(J) /\ Len(<<>>) = 0 /\ Range(<<>>) = {}
  BY DEF Range
<1> HIDE DEF J
<1>3. CASE c
  <2> DEFINE s == <<x>>
  <2>1. If(c, s) = s
    BY <1>3 DEF If
  <2>2. s \in Seq(J) /\ Len(s) = 1 /\ s[1] = x /\ Range(s) = {x}
    BY <1>1
  <2> HIDE DEF s
  <2>3. Batch(s, b, K)
    BY <2>2 DEF Batch, J
  <2>4. Batch(If(c, s), b, K) /\ Range(If(c, s)) = {x}
    BY <2>1, <2>2, <2>3
  <2> QED BY <1>3, <2>4 DEF s
<1>4. CASE ~c
  <2>1. If(c, <<x>>) = <<>>
    BY <1>4 DEF If
  <2>2. Batch(<<>>, b, K)
    BY <1>2 DEF Batch, J
  <2> QED BY <1>2, <1>4, <2>1, <2>2
<1> QED BY <1>3, <1>4

LEMMA Batches ==
  ASSUME NEW b, NEW K, NEW L, K \cap L = {}, NEW s, NEW t, Batch(s, b, K), Batch(t, b, L)
  PROVE  /\ Batch(s \o t, b, K \cup L)
         /\ \A y : y \in Range(s \o t) <=> y \in Range(s) \/ y \in Range(t)
<1> DEFINE J == Jobs(b)
           u == s \o t
<1>1. s \in Seq(J) /\ t \in Seq(J)
  BY DEF Batch
<1> HIDE DEF J
<1>2. /\ u \in Seq(J) /\ Len(u) = Len(s) + Len(t) /\ Len(s) \in Nat /\ Len(t) \in Nat
      /\ \A i \in 1 .. Len(s) : u[i] = s[i]
      /\ \A i \in Len(s) + 1 .. Len(s) + Len(t) : u[i] = t[i - Len(s)]
  BY <1>1
<1> HIDE DEF u
<1>3. /\ \A i \in 1 .. Len(u) : i \in 1 .. Len(s) \/ (i \in Len(s) + 1 .. Len(s) + Len(t) /\ i - Len(s) \in 1 .. Len(t))
      /\ \A i \in 1 .. Len(s) : i \in 1 .. Len(u)
      /\ \A i \in 1 .. Len(t) : i + Len(s) \in Len(s) + 1 .. Len(s) + Len(t) /\ (i + Len(s)) - Len(s) = i
      /\ \A i \in Len(s) + 1 .. Len(s) + Len(t) : i \in 1 .. Len(u)
  BY ONLY <1>2
<1>4. \A i \in 1 .. Len(u) : u[i].calls \in Wholes /\ u[i].path \in K \cup L
  BY <1>2, <1>3 DEF Batch
<1>5. ASSUME NEW i \in 1 .. Len(u), NEW k \in 1 .. Len(u), i < k
      PROVE  u[i].path # u[k].path
  <2>1. CASE k \in 1 .. Len(s)
    <3>1. i \in 1 .. Len(s)
      BY <1>2, <1>5, <2>1
    <3>2. s[i].path # s[k].path
      BY <1>5, <2>1, <3>1 DEF Batch
    <3> QED BY <1>2, <2>1, <3>1, <3>2
  <2>2. CASE k \in Len(s) + 1 .. Len(s) + Len(t) /\ k - Len(s) \in 1 .. Len(t)
    <3>1. u[k] = t[k - Len(s)] /\ u[k].path \in L
      BY <1>2, <2>2 DEF Batch
    <3>2. CASE i \in 1 .. Len(s)
      BY <1>2, <3>1, <3>2 DEF Batch
    <3>3. CASE i \in Len(s) + 1 .. Len(s) + Len(t) /\ i - Len(s) \in 1 .. Len(t)
      <4>1. i - Len(s) < k - Len(s) /\ u[i] = t[i - Len(s)]
        BY <1>2, <1>5, <2>2, <3>3
      <4> QED BY <2>2, <3>1, <3>3, <4>1 DEF Batch
    <3> QED BY <1>3, <3>2, <3>3
  <2> QED BY <1>3, <2>1, <2>2
<1>6. Batch(u, b, K \cup L)
  BY <1>2, <1>4, <1>5 DEF Batch, J
<1>7. ASSUME NEW y PROVE y \in Range(u) <=> y \in Range(s) \/ y \in Range(t)
  <2>1. /\ y \in Range(u) <=> \E i \in 1 .. Len(u) : u[i] = y
        /\ y \in Range(s) <=> \E i \in 1 .. Len(s) : s[i] = y
        /\ y \in Range(t) <=> \E i \in 1 .. Len(t) : t[i] = y
    <3>1. \A x, v : v \in Seq(J) => (x \in Range(v) <=> \E i \in 1 .. Len(v) : v[i] = x)
      BY InRange
    <3> QED BY ONLY <1>1, <1>2, <3>1
  <2>2. ASSUME NEW i \in 1 .. Len(u), u[i] = y
        PROVE  y \in Range(s) \/ y \in Range(t)
    BY <1>2, <1>3, <2>1, <2>2
  <2>3. ASSUME NEW i \in 1 .. Len(s), s[i] = y PROVE y \in Range(u)
    BY <1>2, <1>3, <2>1, <2>3
  <2>4. ASSUME NEW i \in 1 .. Len(t), t[i] = y PROVE y \in Range(u)
    <3>1. i + Len(s) \in 1 .. Len(u) /\ u[i + Len(s)] = t[i]
      BY <1>2, <1>3
    <3> QED BY <2>1, <2>4, <3>1
  <2> QED BY <2>1, <2>2, <2>3, <2>4
<1> QED BY <1>6, <1>7 DEF u

FilesIf(cm, m, cf, f, cl, l, cx, x, ch, h) ==
  If(cm, <<m>>) \o If(cf, <<f>>) \o If(cl, <<l>>) \o If(cx, <<x>>) \o If(ch, <<h>>)

LEMMA FiveFiles ==
  ASSUME NEW b,
         NEW m \in Jobs(b), NEW f \in Jobs(b), NEW l \in Jobs(b), NEW x \in Jobs(b), NEW h \in Jobs(b),
         m.calls \in Wholes, f.calls \in Wholes, l.calls \in Wholes, x.calls \in Wholes,
         h.calls \in Wholes,
         m.path = "main", f.path = "first", l.path = "last", x.path = "trace", h.path = "heartbeat",
         NEW cm, NEW cf, NEW cl, NEW cx, NEW ch,
         NEW s, s = FilesIf(cm, m, cf, f, cl, l, cx, x, ch, h)
  PROVE  /\ Batch(s, b, {"main", "first", "last", "trace", "heartbeat"})
         /\ \A y : y \in Range(s) <=>
              (cm /\ y = m) \/ (cf /\ y = f) \/ (cl /\ y = l) \/ (cx /\ y = x) \/ (ch /\ y = h)
         /\ ch => Ends(s, h)
<1> DEFINE A == If(cm, <<m>>)
           B == If(cf, <<f>>)
           C == If(cl, <<l>>)
           D == If(cx, <<x>>)
           E == If(ch, <<h>>)
           Two == A \o B
           Three == Two \o C
           Four == Three \o D
           Five == Four \o E
<1>1. /\ Batch(A, b, {"main"})
      /\ \A y : y \in Range(A) <=> cm /\ y = m
  BY BatchOfOne
<1>2. /\ Batch(B, b, {"first"})
      /\ \A y : y \in Range(B) <=> cf /\ y = f
  BY BatchOfOne
<1>3. /\ Batch(C, b, {"last"})
      /\ \A y : y \in Range(C) <=> cl /\ y = l
  BY BatchOfOne
<1>4. /\ Batch(D, b, {"trace"})
      /\ \A y : y \in Range(D) <=> cx /\ y = x
  BY BatchOfOne
<1>5. /\ Batch(E, b, {"heartbeat"})
      /\ \A y : y \in Range(E) <=> ch /\ y = h
      /\ ch => E = <<h>>
  <2>1. /\ Batch(E, b, {"heartbeat"})
        /\ \A y : y \in Range(E) <=> ch /\ y = h
    BY BatchOfOne
  <2> QED BY <2>1 DEF If
<1>6. s = Five
  BY DEF FilesIf
<1> HIDE DEF A, B, C, D, E
<1>7. /\ Batch(Two, b, {"main", "first"})
      /\ \A y : y \in Range(Two) <=> y \in Range(A) \/ y \in Range(B)
  <2>1. {"main"} \cap {"first"} = {} /\ {"main"} \cup {"first"} = {"main", "first"}
    OBVIOUS
  <2>2. /\ Batch(Two, b, {"main"} \cup {"first"})
        /\ \A y : y \in Range(Two) <=> y \in Range(A) \/ y \in Range(B)
    BY <1>1, <1>2, <2>1, Batches
  <2> QED BY ONLY <2>1, <2>2
<1> HIDE DEF Two
<1>8. /\ Batch(Three, b, {"main", "first", "last"})
      /\ \A y : y \in Range(Three) <=> y \in Range(Two) \/ y \in Range(C)
  <2>1. {"main", "first"} \cap {"last"} = {} /\ {"main", "first"} \cup {"last"} = {"main", "first", "last"}
    OBVIOUS
  <2> DEFINE K == {"main", "first"}
             L == {"last"}
  <2>2. K \cap L = {} /\ Batch(Two, b, K) /\ Batch(C, b, L)
    BY <1>3, <1>7, <2>1
  <2> HIDE DEF K, L
  <2>3. /\ Batch(Two \o C, b, K \cup L)
        /\ \A y : y \in Range(Two \o C) <=> y \in Range(Two) \/ y \in Range(C)
    BY ONLY <2>2, Batches
  <2> QED BY <2>1, <2>3 DEF Three, K, L
<1> HIDE DEF Three
<1>9. /\ Batch(Four, b, {"main", "first", "last", "trace"})
      /\ \A y : y \in Range(Four) <=> y \in Range(Three) \/ y \in Range(D)
  <2>1. /\ {"main", "first", "last"} \cap {"trace"} = {}
        /\ {"main", "first", "last"} \cup {"trace"} = {"main", "first", "last", "trace"}
    OBVIOUS
  <2> DEFINE K == {"main", "first", "last"}
             L == {"trace"}
  <2>2. K \cap L = {} /\ Batch(Three, b, K) /\ Batch(D, b, L)
    BY <1>4, <1>8, <2>1
  <2> HIDE DEF K, L
  <2>3. /\ Batch(Three \o D, b, K \cup L)
        /\ \A y : y \in Range(Three \o D) <=> y \in Range(Three) \/ y \in Range(D)
    BY ONLY <2>2, Batches
  <2> QED BY <2>1, <2>3 DEF Four, K, L
<1> HIDE DEF Four
<1>10. /\ Batch(Five, b, {"main", "first", "last", "trace", "heartbeat"})
       /\ \A y : y \in Range(Five) <=> y \in Range(Four) \/ y \in Range(E)
  <2>1. /\ {"main", "first", "last", "trace"} \cap {"heartbeat"} = {}
        /\ {"main", "first", "last", "trace"} \cup {"heartbeat"}
             = {"main", "first", "last", "trace", "heartbeat"}
    OBVIOUS
  <2> DEFINE K == {"main", "first", "last", "trace"}
             L == {"heartbeat"}
  <2>2. K \cap L = {} /\ Batch(Four, b, K) /\ Batch(E, b, L)
    BY <1>5, <1>9, <2>1
  <2> HIDE DEF K, L
  <2>3. /\ Batch(Four \o E, b, K \cup L)
        /\ \A y : y \in Range(Four \o E) <=> y \in Range(Four) \/ y \in Range(E)
    BY ONLY <2>2, Batches
  <2> QED BY <2>1, <2>3 DEF Five, K, L
<1>12. ch => Ends(Five, h)
  <2>1. Four \in Seq(Jobs(b))
    BY <1>9 DEF Batch
  <2>2. Ends(Four \o <<h>>, h)
    BY ONLY <2>1, EndsWithOne
  <2> QED BY <1>5, <2>2
<1> HIDE DEF Five
<1>11. \A y : y \in Range(Five) <=>
         (cm /\ y = m) \/ (cf /\ y = f) \/ (cl /\ y = l) \/ (cx /\ y = x) \/ (ch /\ y = h)
  BY ONLY <1>1, <1>2, <1>3, <1>4, <1>5, <1>7, <1>8, <1>9, <1>10
<1> QED BY <1>6, <1>10, <1>11, <1>12

LEMMA WhatADispatchWrites ==
  ASSUME NEW g, NEW target \in Targets, NEW first, NEW heartbeat, NEW r, NEW line,
         r = Snapshot(g, target), r \in Records, r.boot = boot,
         line = TraceLine(g, target),
         NEW s, s = DispatchWrites(g, target, first, heartbeat)
  PROVE  /\ Batch(s, boot, {"main", "first", "last", "trace", "heartbeat"})
         /\ \A y : y \in Range(s) <=>
              \/ (g.main /\ ~globals.main) /\ y = Rewrite("main", r)
              \/ first /\ y = Rewrite("first", r)
              \/ (g.post > globals.post /\ (g.post <= Early \/ target = "phase")) /\ y = Rewrite("last", r)
              \/ (g.post > globals.post /\ Traced(g, target)) /\ y = line
              \/ heartbeat /\ y = Rewrite("heartbeat", r)
         /\ heartbeat => Ends(s, Rewrite("heartbeat", r))
<1> DEFINE m == Rewrite("main", r)
           f == Rewrite("first", r)
           l == Rewrite("last", r)
           h == Rewrite("heartbeat", r)
           cm == g.main /\ ~globals.main
           cl == g.post > globals.post /\ (g.post <= Early \/ target = "phase")
           cx == g.post > globals.post /\ Traced(g, target)
<1>1. \A p \in Rewritten :
        /\ Rewrite(p, r) \in Jobs(boot) /\ Rewrite(p, r).calls \in Wholes
        /\ Rewrite(p, r).path = p
  <2>1. \A p \in Rewritten : Job(p, RewriteWhole, r) \in Jobs(boot)
    BY RewriteJob
  <2> QED BY <2>1, RewriteIsJob DEF Job, Wholes
<1>2. line \in Jobs(boot) /\ line.calls \in Wholes /\ line.path = "trace"
  <2>1. line = Job("trace", IF DurableNow(g, target) THEN SyncedLine ELSE Line, r)
    BY DEF TraceLine, SyncedLine, Line
  <2>2. (IF DurableNow(g, target) THEN SyncedLine ELSE Line) \in TraceWholes
    BY DEF TraceWholes
  <2> QED BY <2>1, <2>2, TraceJob DEF Job, Wholes
<1>3. {"main", "first", "last", "heartbeat"} \subseteq Rewritten
  BY DEF Rewritten
<1>4. /\ m \in Jobs(boot) /\ f \in Jobs(boot) /\ l \in Jobs(boot) /\ h \in Jobs(boot)
      /\ m.path = "main" /\ f.path = "first" /\ l.path = "last" /\ h.path = "heartbeat"
      /\ m.calls \in Wholes /\ f.calls \in Wholes /\ l.calls \in Wholes /\ h.calls \in Wholes
  BY <1>1, <1>2, <1>3
<1>5. s = FilesIf(cm, m, first, f, cl, l, cx, line, heartbeat, h)
  BY Zenon DEF DispatchWrites, FilesIf
<1> HIDE DEF m, f, l, h, cm, cl, cx
<1>6. /\ Batch(s, boot, {"main", "first", "last", "trace", "heartbeat"})
      /\ \A y : y \in Range(s) <=>
           (cm /\ y = m) \/ (first /\ y = f) \/ (cl /\ y = l) \/ (cx /\ y = line) \/ (heartbeat /\ y = h)
      /\ heartbeat => Ends(s, h)
  BY ONLY <1>2, <1>4, <1>5, FiveFiles
<1> QED BY <1>6, Zenon DEF m, f, l, h, cm, cl, cx

LEMMA UnlinksBefore ==
  ASSUME NEW b, NEW K, NEW s, Batch(s, b, K), K \cap Marks = {}, NEW c
  PROVE  /\ Orderly(If(c, Unlinks) \o s, b)
         /\ \A y : y \in Range(If(c, Unlinks) \o s) <=>
              \/ c /\ \E p \in Range(LivenessFiles) : y = Job(p, Removal, <<>>)
              \/ y \in Range(s)
         /\ \A x : Ends(s, x) => Ends(If(c, Unlinks) \o s, x)
<1> DEFINE J == Jobs(b)
           u == If(c, Unlinks)
           n == Len(u)
           t == u \o s
<1>1. /\ LivenessFiles \in Seq(Paths) /\ Len(LivenessFiles) = 7
      /\ \A i, k \in 1 .. 7 : i < k => LivenessFiles[i] # LivenessFiles[k]
  BY DEF LivenessFiles, Paths, Range
<1>2. Unlinks = [i \in 1 .. 7 |-> Job(LivenessFiles[i], Removal, <<>>)]
  BY <1>1 DEF Unlinks, Removal
<1>3. /\ \A i \in 1 .. 7 : LivenessFiles[i] \in Range(LivenessFiles)
      /\ \A p \in Range(LivenessFiles) : \E i \in 1 .. 7 : LivenessFiles[i] = p
  BY <1>1 DEF Range
<1>4. \A p \in Range(LivenessFiles) : Job(p, Removal, <<>>) \in J /\ p \notin Marks
  <2>1. Range(LivenessFiles) \cap Marks = {}
    BY FilesArePaths DEF Rewritten, Marks
  <2> QED BY <2>1 DEF Jobs, Job
<1>5. /\ Unlinks \in Seq(J) /\ Len(Unlinks) = 7
      /\ \A i \in 1 .. 7 : Unlinks[i] = Job(LivenessFiles[i], Removal, <<>>)
  <2> HIDE DEF J
  <2> QED BY <1>2, <1>3, <1>4
<1>6. \A i \in 1 .. 7 :
        /\ Unlinks[i].calls = Removal /\ Unlinks[i].path = LivenessFiles[i]
        /\ Unlinks[i].path \notin Marks
  BY <1>3, <1>4, <1>5 DEF Job
<1>7. s \in Seq(J)
  BY DEF Batch
<1> HIDE DEF J
<1>8. <<>> \in Seq(J) /\ Len(<<>>) = 0
  OBVIOUS
<1>9. u \in Seq(J) /\ n = IF c THEN 7 ELSE 0
  <2>1. u = IF c THEN Unlinks ELSE <<>>
    BY DEF If
  <2> HIDE DEF u
  <2>2. CASE c
    BY <1>5, <2>1, <2>2
  <2>3. CASE ~c
    BY <1>8, <2>1, <2>3
  <2> QED BY <2>2, <2>3
<1>10. \A i \in 1 .. n : i \in 1 .. 7 /\ c /\ u[i] = Unlinks[i]
  BY <1>9 DEF If
<1> HIDE DEF u, n
<1>11. /\ t \in Seq(J) /\ Len(t) = n + Len(s) /\ Len(s) \in Nat /\ n \in Nat
       /\ \A i \in 1 .. n : t[i] = u[i]
       /\ \A i \in n + 1 .. n + Len(s) : t[i] = s[i - n]
  <2> DEFINE k == Len(s)
  <2>1. k \in Nat /\ Len(u) = n /\ n \in Nat
    BY <1>7, <1>9 DEF n
  <2>2. /\ t \in Seq(J) /\ Len(t) = Len(u) + Len(s)
        /\ \A i \in 1 .. Len(u) : t[i] = u[i]
        /\ \A i \in Len(u) + 1 .. Len(u) + Len(s) : t[i] = s[i - Len(u)]
    BY <1>7, <1>9
  <2> QED BY <2>1, <2>2 DEF n
<1> HIDE DEF t
<1>12. /\ \A i \in 1 .. Len(t) : i \in 1 .. n \/ (i \in n + 1 .. n + Len(s) /\ i - n \in 1 .. Len(s))
       /\ \A i \in 1 .. n : i \in 1 .. Len(t)
       /\ \A i \in 1 .. Len(s) : /\ i + n \in n + 1 .. n + Len(s) /\ (i + n) - n = i
                                 /\ i + n \in 1 .. Len(t)
  BY ONLY <1>11
<1>13. Removal \notin Wholes
  BY ShapesOfCalls DEF Wholes
<1>14. \A i \in 1 .. n :
         /\ i \in 1 .. 7 /\ c /\ t[i] = Unlinks[i] /\ t[i].calls = Removal
         /\ t[i].path = LivenessFiles[i] /\ t[i].path \notin Marks
  BY <1>6, <1>10, <1>11
<1>15. \A i \in n + 1 .. n + Len(s) : i - n \in 1 .. Len(s) =>
         /\ t[i] = s[i - n] /\ t[i].calls \in Wholes /\ t[i].calls # Removal /\ t[i].path \notin Marks
  BY <1>11, <1>13 DEF Batch
<1>16. Orderly(t, b)
  <2>1. \A i \in 1 .. Len(t) : t[i].calls \in Wholes \cup {Removal} /\ t[i].path \notin Marks
    BY <1>12, <1>14, <1>15
  <2>2. ASSUME NEW i \in 1 .. Len(t), NEW k \in 1 .. Len(t), i < k
        PROVE  /\ t[k].calls = Removal => t[i].calls = Removal
               /\ t[i].path = t[k].path => t[i].calls = Removal /\ t[k].calls # Removal
    <3>1. CASE k \in 1 .. n
      <4>1. i \in 1 .. n
        BY <1>11, <2>2, <3>1
      <4>2. LivenessFiles[i] # LivenessFiles[k]
        BY <1>1, <1>14, <2>2, <3>1, <4>1
      <4> QED BY <1>14, <3>1, <4>1, <4>2
    <3>2. CASE k \in n + 1 .. n + Len(s) /\ k - n \in 1 .. Len(s)
      <4>1. CASE i \in 1 .. n
        BY <1>14, <1>15, <3>2, <4>1
      <4>2. CASE i \in n + 1 .. n + Len(s) /\ i - n \in 1 .. Len(s)
        <5>1. i - n < k - n
          BY <1>11, <2>2, <3>2, <4>2
        <5>2. t[i].path # t[k].path
          BY <1>15, <3>2, <4>2, <5>1 DEF Batch
        <5> QED BY <1>15, <3>2, <5>2
      <4> QED BY <1>12, <4>1, <4>2
    <3> QED BY <1>12, <3>1, <3>2
  <2> QED BY <1>11, <2>1, <2>2 DEF Orderly, J
<1>17. ASSUME NEW y
       PROVE  y \in Range(t) <=> \/ c /\ \E p \in Range(LivenessFiles) : y = Job(p, Removal, <<>>)
                                 \/ y \in Range(s)
  <2>1. /\ y \in Range(t) <=> \E i \in 1 .. Len(t) : t[i] = y
        /\ y \in Range(s) <=> \E i \in 1 .. Len(s) : s[i] = y
    BY <1>7, <1>11, InRange
  <2>2. ASSUME NEW i \in 1 .. Len(t), t[i] = y
        PROVE  \/ c /\ \E p \in Range(LivenessFiles) : y = Job(p, Removal, <<>>)
               \/ y \in Range(s)
    <3>1. CASE i \in 1 .. n
      BY <1>3, <1>5, <1>14, <2>2, <3>1
    <3>2. CASE i \in n + 1 .. n + Len(s) /\ i - n \in 1 .. Len(s)
      BY <1>11, <2>1, <2>2, <3>2
    <3> QED BY <1>12, <3>1, <3>2
  <2>3. ASSUME NEW i \in 1 .. Len(s), s[i] = y PROVE y \in Range(t)
    <3>1. i + n \in 1 .. Len(t) /\ t[i + n] = s[i]
      BY <1>11, <1>12
    <3> QED BY <2>1, <2>3, <3>1
  <2>4. ASSUME c, NEW p \in Range(LivenessFiles), y = Job(p, Removal, <<>>)
        PROVE  y \in Range(t)
    <3>1. n = 7
      BY <1>9, <2>4
    <3>2. PICK i \in 1 .. 7 : LivenessFiles[i] = p
      BY <1>3
    <3>3. i \in 1 .. Len(t) /\ t[i] = Unlinks[i] /\ Unlinks[i] = y
      BY <1>5, <1>12, <1>14, <2>4, <3>1, <3>2
    <3> QED BY <2>1, <3>3
  <2> QED BY <2>1, <2>2, <2>3, <2>4
<1>18. ASSUME NEW x, Ends(s, x) PROVE Ends(t, x)
  <2>1. Len(s) \in 1 .. Len(s) /\ s[Len(s)] = x
    BY <1>11, <1>18 DEF Ends
  <2>2. /\ Len(s) + n \in n + 1 .. n + Len(s) /\ (Len(s) + n) - n = Len(s)
        /\ Len(s) + n = Len(t) /\ Len(t) \in Nat \ {0}
    <3>1. Len(s) \in Nat /\ n \in Nat /\ Len(t) = n + Len(s)
      BY <1>11
    <3> QED BY ONLY <2>1, <3>1
  <2>3. t[Len(s) + n] = s[(Len(s) + n) - n]
    BY <1>11, <2>2
  <2> QED BY <2>1, <2>2, <2>3 DEF Ends
<1> QED BY <1>16, <1>17, <1>18 DEF t, u

\* One dispatch, with r what it writes, line the line of the trace it comes to and
\* post whether it is one after main.
Dispatch(target, post, r, line, heartbeat) ==
  /\ process = "guest" /\ todo = <<>> /\ Spent < MaxDispatches
  /\ UNCHANGED <<files, process, boot, failures, past>>
  /\ post <=> globals.main /\ target # "main"
  /\ ~globals.beaten \/ target = "main" \/ (post /\ ~globals.recorded) => heartbeat
  /\ globals'.reset /\ globals'.beaten
  /\ globals'.main <=> globals.main \/ target = "main"
  /\ globals'.recorded <=> globals.recorded \/ post
  /\ globals'.count = globals.count + 1
  /\ globals'.post = IF post THEN globals.post + 1 ELSE globals.post
  /\ globals'.entries = globals.entries
  /\ r \in Records /\ r.boot = boot /\ r.target = target
  /\ r.count = globals'.count /\ r.post = globals'.post
  /\ line.path = "trace" /\ line.rec = r /\ line.calls \in TraceWholes
  /\ DurableNow(globals', target) => line.calls = SyncedLine
  /\ Types'
  /\ \A p \in {"first", "last", "trace"} :
       noted'[p] = IF post /\ Noteworthy(p, r) THEN Append(noted[p], r) ELSE noted[p]
  /\ Orderly(todo', boot)
  /\ \A y : y \in Range(todo') <=>
       \/ ~globals.reset /\ \E p \in Range(LivenessFiles) : y = Job(p, Removal, <<>>)
       \/ (target = "main" /\ ~globals.main) /\ y = Rewrite("main", r)
       \/ (post /\ ~globals.recorded) /\ y = Rewrite("first", r)
       \/ (post /\ (r.post <= Early \/ target = "phase")) /\ y = Rewrite("last", r)
       \/ (post /\ globals.entries < MaxEntries /\ Noteworthy("trace", r)) /\ y = line
       \/ heartbeat /\ y = Rewrite("heartbeat", r)
  /\ heartbeat => Ends(todo', Rewrite("heartbeat", r))

LEMMA ADispatch ==
  ASSUME IInv, NEW target \in Targets, NoteTranslatedDispatch(target)
  PROVE  \E post, r, line, heartbeat : Dispatch(target, post, r, line, heartbeat)
<1>1. /\ process = "guest" /\ todo = <<>> /\ Spent < MaxDispatches
      /\ UNCHANGED <<files, process, boot, failures, past>>
      /\ Types /\ boot # 0
  BY DEF NoteTranslatedDispatch, IInv, Types
<1> DEFINE post == globals.main /\ target # "main"
           first == globals.main /\ target # "main" /\ ~globals.recorded
<1>2. PICK heartbeat \in BOOLEAN :
        /\ ~globals.beaten \/ target = "main" \/ first => heartbeat
        /\ globals' = Counted(globals, target, heartbeat)
        /\ todo' = If(~globals.reset, Unlinks) \o DispatchWrites(globals', target, first, heartbeat)
        /\ noted' = [p \in DOMAIN noted |->
             noted[p] \o If(globals'.post > globals.post /\ Noteworthy(p, Snapshot(globals', target)),
                            <<Snapshot(globals', target)>>)]
  <2>1. PICK second \in BOOLEAN :
          LET beat == ~globals.beaten \/ second \/ target = "main" \/ first
              g == Counted(globals, target, beat)
          IN  /\ todo' = If(~globals.reset, Unlinks) \o DispatchWrites(g, target, first, beat)
              /\ globals' = g
              /\ noted' = [p \in DOMAIN noted |->
                   noted[p] \o If(g.post > globals.post /\ Noteworthy(p, Snapshot(g, target)),
                                  <<Snapshot(g, target)>>)]
    BY DEF NoteTranslatedDispatch
  <2> DEFINE beat == ~globals.beaten \/ second \/ target = "main" \/ first
  <2>2. beat \in BOOLEAN /\ (~globals.beaten \/ target = "main" \/ first => beat)
    OBVIOUS
  <2> QED BY <2>1, <2>2
<1> DEFINE r == Snapshot(globals', target)
           line == TraceLine(globals', target)
<1>3. /\ globals \in [reset : BOOLEAN, main : BOOLEAN, recorded : BOOLEAN, beaten : BOOLEAN,
                      count : Nat, post : Nat, entries : 0 .. MaxEntries]
      /\ globals.post <= globals.count /\ globals.count + 1 \in 0 .. MaxDispatches
      /\ globals.count \in Nat /\ globals.post \in Nat
  BY <1>1, CountsAreBounded DEF Types
<1>4. /\ globals'.reset /\ globals'.beaten = (globals.beaten \/ heartbeat)
      /\ globals'.main = (globals.main \/ target = "main")
      /\ globals'.recorded = (globals.recorded \/ post)
      /\ globals'.count = globals.count + 1
      /\ globals'.post = IF post THEN globals.post + 1 ELSE globals.post
      /\ globals'.entries = globals.entries
      /\ globals' = [reset |-> TRUE, main |-> globals'.main, recorded |-> globals'.recorded,
                     beaten |-> globals'.beaten, count |-> globals'.count,
                     post |-> globals'.post, entries |-> globals'.entries]
  <2>1. globals' = [reset |-> TRUE, main |-> globals.main \/ target = "main",
                    recorded |-> globals.recorded \/ ((globals.main \/ target = "main") /\ target # "main"),
                    beaten |-> globals.beaten \/ heartbeat, count |-> globals.count + 1,
                    post |-> IF (globals.main \/ target = "main") /\ target # "main"
                             THEN globals.post + 1 ELSE globals.post,
                    entries |-> globals.entries]
    BY <1>2 DEF Counted
  <2>2. ((globals.main \/ target = "main") /\ target # "main") = post
    OBVIOUS
  <2> QED BY <2>1, <2>2
<1>5. /\ globals' \in [reset : BOOLEAN, main : BOOLEAN, recorded : BOOLEAN, beaten : BOOLEAN,
                       count : Nat, post : Nat, entries : 0 .. MaxEntries]
      /\ globals'.post <= globals'.count
      /\ globals'.count \in 0 .. MaxDispatches /\ globals'.post \in 0 .. MaxDispatches
  <2>1. globals'.post \in Nat /\ globals'.post <= globals'.count /\ globals'.count \in Nat
    BY <1>3, <1>4
  <2>2. globals'.count \in 0 .. MaxDispatches /\ globals'.post \in 0 .. MaxDispatches
    BY <1>3, <1>4, <2>1, DiagnosticsAssumption
  <2>3. /\ globals'.main \in BOOLEAN /\ globals'.recorded \in BOOLEAN /\ globals'.beaten \in BOOLEAN
        /\ globals'.entries \in 0 .. MaxEntries
    BY <1>3, <1>4
  <2> QED BY <1>4, <2>1, <2>2, <2>3
<1>6. globals'.post > globals.post <=> post
  BY <1>3, <1>4
<1>7. r \in Records /\ r.boot = boot
  BY <1>1, <1>5, SnapshotIsRecord
<1>8. r.target = target /\ r.count = globals'.count /\ r.post = globals'.post
  BY DEF Snapshot
<1>9. /\ line.path = "trace" /\ line.rec = r /\ line.calls \in TraceWholes
      /\ DurableNow(globals', target) => line.calls = SyncedLine
  BY DEF TraceLine, Job, TraceWholes, Line, SyncedLine
<1> DEFINE w == DispatchWrites(globals', target, first, heartbeat)
           K == {"main", "first", "last", "trace", "heartbeat"}
<1>10. /\ Batch(w, boot, K)
       /\ \A y : y \in Range(w) <=>
            \/ (globals'.main /\ ~globals.main) /\ y = Rewrite("main", r)
            \/ first /\ y = Rewrite("first", r)
            \/ (globals'.post > globals.post /\ (globals'.post <= Early \/ target = "phase")) /\ y = Rewrite("last", r)
            \/ (globals'.post > globals.post /\ Traced(globals', target)) /\ y = line
            \/ heartbeat /\ y = Rewrite("heartbeat", r)
       /\ heartbeat => Ends(w, Rewrite("heartbeat", r))
  <2>1. /\ r = Snapshot(globals', target) /\ r \in Records /\ r.boot = boot
        /\ line = TraceLine(globals', target)
        /\ w = DispatchWrites(globals', target, first, heartbeat)
    BY <1>7
  <2> HIDE DEF r, line, w, first
  <2> QED BY ONLY <2>1, WhatADispatchWrites, target \in Targets
<1>11. /\ (globals'.main /\ ~globals.main) <=> (target = "main" /\ ~globals.main)
       /\ first <=> post /\ ~globals.recorded
       /\ (globals'.post > globals.post /\ (globals'.post <= Early \/ target = "phase"))
            <=> (post /\ (r.post <= Early \/ target = "phase"))
       /\ (globals'.post > globals.post /\ Traced(globals', target))
            <=> (post /\ globals.entries < MaxEntries /\ Noteworthy("trace", r))
  BY <1>4, <1>6, <1>8 DEF Traced, Noteworthy
<1>12. /\ Orderly(todo', boot)
       /\ \A y : y \in Range(todo') <=>
            \/ ~globals.reset /\ \E p \in Range(LivenessFiles) : y = Job(p, Removal, <<>>)
            \/ y \in Range(w)
       /\ \A x : Ends(w, x) => Ends(todo', x)
  <2>1. K \cap Marks = {}
    BY DEF Marks
  <2>2. todo' = If(~globals.reset, Unlinks) \o w
    BY <1>2
  <2> HIDE DEF w, K
  <2> QED BY <1>10, <2>1, <2>2, UnlinksBefore
<1>13. \A p \in {"first", "last", "trace"} :
         noted'[p] = IF post /\ Noteworthy(p, r) THEN Append(noted[p], r) ELSE noted[p]
  <2>1. DOMAIN noted = {"first", "last", "trace"} /\ \A p \in {"first", "last", "trace"} : noted[p] \in Seq(Records)
    BY <1>1 DEF Types
  <2> DEFINE more(p) == If(globals'.post > globals.post /\ Noteworthy(p, r), <<r>>)
  <2>2. \A p \in {"first", "last", "trace"} : noted'[p] = noted[p] \o more(p)
    BY <1>2, <2>1
  <2>3. \A p : more(p) = IF post /\ Noteworthy(p, r) THEN <<r>> ELSE <<>>
    BY <1>6 DEF If
  <2> HIDE DEF r, more
  <2>4. \A p \in {"first", "last", "trace"} : noted[p] \o <<>> = noted[p] /\ noted[p] \o <<r>> = Append(noted[p], r)
    BY <1>7, <2>1
  <2> QED BY <2>2, <2>3, <2>4
<1>14. noted' \in [{"first", "last", "trace"} -> Seq(Records)]
  <2>1. DOMAIN noted = {"first", "last", "trace"} /\ \A p \in {"first", "last", "trace"} : noted[p] \in Seq(Records)
    BY <1>1 DEF Types
  <2>2. \A p \in {"first", "last", "trace"} : noted'[p] \in Seq(Records)
    <3> HIDE DEF r
    <3>1. ASSUME NEW p \in {"first", "last", "trace"} PROVE noted'[p] \in Seq(Records)
      <4>1. noted[p] \in Seq(Records) /\ Append(noted[p], r) \in Seq(Records)
        BY <1>7, <2>1
      <4>2. noted'[p] = Append(noted[p], r) \/ noted'[p] = noted[p]
        BY <1>13
      <4> QED BY <4>1, <4>2
    <3> QED BY <3>1
  <2>3. noted' = [p \in {"first", "last", "trace"} |-> noted'[p]]
    BY <1>2, <2>1
  <2> QED BY <2>2, <2>3
<1>15. Types'
  <2>1. Spent' = Spent + 1
    <3>1. past \in Nat /\ globals.count \in Nat /\ Cardinality(failures) \in Nat
      BY <1>1, FS_CardinalityType DEF Types
    <3>2. past' = past /\ failures' = failures /\ globals'.count = globals.count + 1
      BY <1>1, <1>4
    <3> QED BY <3>1, <3>2 DEF Spent
  <2>2. Spent \in Nat
    <3>1. past \in Nat /\ globals.count \in Nat /\ Cardinality(failures) \in Nat
      BY <1>1, FS_CardinalityType DEF Types
    <3> QED BY <3>1 DEF Spent
  <2>3. Spent' <= MaxDispatches
    BY <1>1, <2>1, <2>2, DiagnosticsAssumption
  <2> QED BY <1>1, <1>5, <1>14, <2>3 DEF Types
<1> HIDE DEF w, r, line, first
<1>16. \A y : y \in Range(todo') <=>
         \/ ~globals.reset /\ \E p \in Range(LivenessFiles) : y = Job(p, Removal, <<>>)
         \/ (target = "main" /\ ~globals.main) /\ y = Rewrite("main", r)
         \/ (post /\ ~globals.recorded) /\ y = Rewrite("first", r)
         \/ (post /\ (r.post <= Early \/ target = "phase")) /\ y = Rewrite("last", r)
         \/ (post /\ globals.entries < MaxEntries /\ Noteworthy("trace", r)) /\ y = line
         \/ heartbeat /\ y = Rewrite("heartbeat", r)
  BY ONLY <1>10, <1>11, <1>12
<1>17. ~globals.beaten \/ target = "main" \/ (post /\ ~globals.recorded) => heartbeat
  BY <1>2, <1>11
<1>18. globals'.beaten /\ (globals'.main <=> globals.main \/ target = "main")
       /\ (globals'.recorded <=> globals.recorded \/ post)
  BY <1>2, <1>4
<1>20. heartbeat => Ends(todo', Rewrite("heartbeat", r))
  BY <1>10, <1>12
<1>19. Dispatch(target, post, r, line, heartbeat)
  BY <1>20, <1>1, <1>4, <1>7, <1>8, <1>9, <1>12, <1>13, <1>15, <1>16, <1>17, <1>18 DEF Dispatch
<1> HIDE DEF post
<1> QED BY ONLY <1>19

LEMMA DispatchJobs ==
  ASSUME NEW target, NEW post, NEW r, NEW line, NEW heartbeat,
         Dispatch(target, post, r, line, heartbeat)
  PROVE  /\ globals.reset => \A x \in Range(todo') : x.calls # Removal
         /\ ~globals.reset => \A p \in Range(LivenessFiles) : ToRemove(p)'
         /\ \A x \in Range(todo') : x.calls # Removal =>
              /\ x.rec = r
              /\ x.path = "main" => target = "main" /\ ~globals.main
              /\ x.path = "first" => post /\ ~globals.recorded
              /\ x.path = "last" => post /\ (r.post <= Early \/ target = "phase")
              /\ x.path = "trace" =>
                   x = line /\ post /\ globals.entries < MaxEntries /\ Noteworthy("trace", r)
              /\ x.path = "heartbeat" => heartbeat
         /\ target = "main" /\ ~globals.main => Rewrite("main", r) \in Range(todo')
         /\ post /\ ~globals.recorded => Rewrite("first", r) \in Range(todo')
         /\ post /\ (r.post <= Early \/ target = "phase") => Rewrite("last", r) \in Range(todo')
         /\ post /\ globals.entries < MaxEntries /\ Noteworthy("trace", r) => line \in Range(todo')
         /\ heartbeat => Rewrite("heartbeat", r) \in Range(todo')
         /\ line.calls # Removal
<1>1. \A y : y \in Range(todo') <=>
        \/ ~globals.reset /\ \E p \in Range(LivenessFiles) : y = Job(p, Removal, <<>>)
        \/ (target = "main" /\ ~globals.main) /\ y = Rewrite("main", r)
        \/ (post /\ ~globals.recorded) /\ y = Rewrite("first", r)
        \/ (post /\ (r.post <= Early \/ target = "phase")) /\ y = Rewrite("last", r)
        \/ (post /\ globals.entries < MaxEntries /\ Noteworthy("trace", r)) /\ y = line
        \/ heartbeat /\ y = Rewrite("heartbeat", r)
  BY DEF Dispatch
<1>2. line.path = "trace" /\ line.rec = r /\ line.calls # Removal
  BY ShapesOfCalls DEF Dispatch
<1>3. \A p : /\ Rewrite(p, r).path = p /\ Rewrite(p, r).rec = r /\ Rewrite(p, r).calls # Removal
             /\ Job(p, Removal, <<>>).path = p /\ Job(p, Removal, <<>>).calls = Removal
  BY RewriteIsJob, ShapesOfCalls DEF Job
<1>4. ASSUME globals.reset, NEW x \in Range(todo') PROVE x.calls # Removal
  BY <1>1, <1>2, <1>3, <1>4
<1>5. ASSUME ~globals.reset, NEW p \in Range(LivenessFiles) PROVE ToRemove(p)'
  <2>1. Job(p, Removal, <<>>) \in Range(todo')
    BY <1>1, <1>5
  <2> QED BY <1>3, <2>1 DEF ToRemove
<1>6. ASSUME NEW x \in Range(todo'), x.calls # Removal
      PROVE  /\ x.rec = r
             /\ x.path = "main" => target = "main" /\ ~globals.main
             /\ x.path = "first" => post /\ ~globals.recorded
             /\ x.path = "last" => post /\ (r.post <= Early \/ target = "phase")
             /\ x.path = "trace" =>
                  x = line /\ post /\ globals.entries < MaxEntries /\ Noteworthy("trace", r)
             /\ x.path = "heartbeat" => heartbeat
  BY <1>1, <1>2, <1>3, <1>6
<1> QED BY <1>1, <1>2, <1>4, <1>5, <1>6

\* Before a dispatch the statics and the history agree, and nothing is left to remove.
LEMMA BeforeADispatch ==
  ASSUME IInv, process = "guest", todo = <<>>
  PROVE  /\ Agreement /\ Types /\ Old
         /\ ~globals.reset => globals = FreshGlobals /\ noted = NothingNoted /\ Unused
         /\ globals.reset => History /\ FilesKept
<1>1. Types /\ Old /\ Running
  BY DEF IInv, Running
<1>2. CASE globals.reset
  BY <1>1, <1>2 DEF IInv, History
<1>3. CASE ~globals.reset
  <2>1. Unused /\ globals = FreshGlobals /\ noted = NothingNoted
    BY <1>1, <1>3 DEF IInv, Unused
  <2>2. Agreement
    <3>1. noted["trace"] = <<>> /\ Len(noted["trace"]) = 0
      BY <2>1 DEF NothingNoted
    <3>2. ~globals.recorded /\ globals.post = 0 /\ ~(globals.post > Dense)
      BY <2>1, DiagnosticsAssumption DEF FreshGlobals
    <3> QED BY <2>1, <3>1, <3>2 DEF Agreement
  <2> QED BY <1>1, <1>3, <2>1, <2>2
<1> QED BY <1>2, <1>3

LEMMA DispatchAgrees ==
  ASSUME Types, Agreement, NEW target, NEW post, NEW r, NEW line, NEW heartbeat,
         Dispatch(target, post, r, line, heartbeat)
  PROVE  Agreement'
<1>1. /\ Types' /\ globals.post \in Nat /\ Dense \in Nat /\ r \in Records
      /\ globals'.post = IF post THEN globals.post + 1 ELSE globals.post
      /\ globals'.recorded <=> globals.recorded \/ post
      /\ globals'.main <=> globals.main \/ target = "main"
      /\ post <=> globals.main /\ target # "main"
      /\ r.post = globals'.post /\ r.target = target
  BY DiagnosticsAssumption DEF Types, Dispatch
<1>2. \A p \in {"first", "last", "trace"} :
        /\ noted'[p] = IF post /\ Noteworthy(p, r) THEN Append(noted[p], r) ELSE noted[p]
        /\ noted[p] \in Seq(Records)
  BY DEF Dispatch, Types
<1> DEFINE all == noted["trace"]
<1>3. /\ globals.recorded <=> globals.post # 0
      /\ ~globals.main => globals.post = 0
      /\ globals.post = 0 => noted = NothingNoted
      /\ globals.post # 0 => noted["first"] # <<>>
      /\ globals.post <= Dense => Len(all) = globals.post
      /\ globals.post > Dense => Len(all) >= Dense
      /\ \A i \in 1 .. Len(all) : i > Dense => all[i].target = "phase"
  BY DEF Agreement
<1>4. CASE ~post
  <2>1. noted' = noted
    <3>1. \A p \in {"first", "last", "trace"} : noted'[p] = noted[p]
      BY <1>2, <1>4
    <3>2. noted \in [{"first", "last", "trace"} -> Seq(Records)]
          /\ noted' \in [{"first", "last", "trace"} -> Seq(Records)]
      BY <1>1 DEF Types
    <3> QED BY <3>1, <3>2
  <2> QED BY <1>1, <1>3, <1>4, <2>1 DEF Agreement
<1>5. CASE post
  <2>1. globals.main /\ globals'.main /\ globals'.recorded /\ globals'.post = globals.post + 1
        /\ r.post = globals.post + 1
    BY <1>1, <1>5
  <2>2. globals'.post # 0 /\ globals'.post \in Nat
    BY <1>1, <2>1
  <2>3. noted'["first"] # <<>>
    <3>1. noted'["first"] = Append(noted["first"], r)
      BY <1>2, <1>5 DEF Noteworthy
    <3>2. noted["first"] \in Seq(Records) /\ r \in Records
      BY <1>1, <1>2
    <3> QED BY ONLY <3>1, <3>2, AppendProperties
  <2> DEFINE new == noted'["trace"]
  <2>4. /\ Noteworthy("trace", r) <=> r.post <= Dense \/ target = "phase"
        /\ new = IF Noteworthy("trace", r) THEN Append(all, r) ELSE all
        /\ all \in Seq(Records) /\ Len(all) \in Nat
    BY <1>1, <1>2, <1>5 DEF Noteworthy
  <2>5. CASE Noteworthy("trace", r)
    <3>1. /\ Len(new) = Len(all) + 1 /\ new[Len(all) + 1] = r
          /\ \A i \in 1 .. Len(all) : new[i] = all[i]
      BY <1>1, <2>4, <2>5
    <3> HIDE DEF all, new
    <3>2. globals'.post <= Dense => Len(new) = globals'.post
      BY <1>1, <1>3, <2>1, <3>1
    <3>3. globals'.post > Dense => Len(new) >= Dense
      BY <1>1, <1>3, <2>1, <2>4, <3>1
    <3>4. ASSUME NEW i \in 1 .. Len(new), i > Dense PROVE new[i].target = "phase"
      <4>1. CASE i \in 1 .. Len(all)
        BY <1>3, <3>1, <3>4, <4>1
      <4>2. CASE i = Len(all) + 1
        <5>1. ~(r.post <= Dense)
          BY <1>1, <1>3, <2>1, <2>4, <3>4, <4>2
        <5> QED BY <1>1, <2>4, <2>5, <3>1, <4>2, <5>1
      <4> QED BY <2>4, <3>1, <4>1, <4>2
    <3> QED BY <2>1, <2>2, <2>3, <3>2, <3>3, <3>4 DEF Agreement, new
  <2>6. CASE ~Noteworthy("trace", r)
    <3>1. new = all /\ globals'.post > Dense
      BY <1>1, <2>1, <2>4, <2>6
    <3> HIDE DEF all
    <3>2. Len(new) >= Dense
      BY <1>1, <1>3, <2>1, <3>1
    <3>3. ~(globals'.post <= Dense)
      BY <1>1, <2>2, <3>1
    <3>4. \A i \in 1 .. Len(new) : i > Dense => new[i].target = "phase"
      BY <1>3, <3>1
    <3> HIDE DEF new
    <3> QED BY <2>1, <2>2, <2>3, <3>2, <3>3, <3>4 DEF Agreement, new
  <2> QED BY <2>5, <2>6
<1> QED BY <1>4, <1>5

LEMMA DispatchKeepsMilestones ==
  ASSUME IInv, NEW target, NEW post, NEW r, NEW line, NEW heartbeat,
         Dispatch(target, post, r, line, heartbeat)
  PROVE  /\ MilestonesKept' /\ HeartbeatKept'
         /\ \A p \in Range(LivenessFiles) \ Failed' : FileFresh(p)'
<1>1. /\ process = "guest" /\ todo = <<>> /\ UNCHANGED <<files, process, boot, failures, past>>
      /\ Failed' = Failed
  BY DEF Dispatch, Failed
<1>2. /\ Agreement /\ Types /\ Old
      /\ ~globals.reset => globals = FreshGlobals /\ noted = NothingNoted /\ Unused
      /\ globals.reset => History /\ FilesKept
  BY <1>1, BeforeADispatch
<1>3. /\ globals.reset => \A x \in Range(todo') : x.calls # Removal
      /\ ~globals.reset => \A p \in Range(LivenessFiles) : ToRemove(p)'
      /\ \A x \in Range(todo') : x.calls # Removal =>
           /\ x.rec = r
           /\ x.path = "main" => target = "main" /\ ~globals.main
           /\ x.path = "first" => post /\ ~globals.recorded
           /\ x.path = "last" => post /\ (r.post <= Early \/ target = "phase")
           /\ x.path = "heartbeat" => heartbeat
      /\ target = "main" /\ ~globals.main => Rewrite("main", r) \in Range(todo')
      /\ post /\ ~globals.recorded => Rewrite("first", r) \in Range(todo')
      /\ post /\ (r.post <= Early \/ target = "phase") => Rewrite("last", r) \in Range(todo')
      /\ heartbeat => Rewrite("heartbeat", r) \in Range(todo')
  BY DispatchJobs
<1>4. \A p : Rewrite(p, r) \in Range(todo') => Will(p, r)'
  BY DEF Will
<1>5. ASSUME globals.reset, NEW p, NEW e, Will(p, e), \A x \in Range(todo') : x.path # p
      PROVE  Will(p, e)'
  BY <1>1, <1>5, NothingLeft DEF Will
<1>6. /\ post <=> globals.main /\ target # "main"
      /\ globals'.post = IF post THEN globals.post + 1 ELSE globals.post
      /\ globals'.main <=> globals.main \/ target = "main"
      /\ globals'.count = globals.count + 1
      /\ r \in Records /\ r.boot = boot /\ r.target = target
      /\ r.post = globals'.post /\ r.count = globals'.count
      /\ ~globals.beaten \/ target = "main" \/ (post /\ ~globals.recorded) => heartbeat
  BY DEF Dispatch
<1>7. \A p \in {"first", "last"} :
        /\ noted'[p] = IF post /\ Noteworthy(p, r) THEN Append(noted[p], r) ELSE noted[p]
        /\ noted[p] \in Seq(Records)
  BY <1>2 DEF Dispatch, Types
<1>8. \A p \in {"first", "last"} : noted[p] # <<>> => globals.reset
  BY <1>2 DEF NothingNoted
<1>9. ASSUME NEW s \in Seq(Records)
      PROVE  /\ Append(s, r) # <<>> /\ Last(Append(s, r)) = r
             /\ Head(Append(s, r)) = IF s = <<>> THEN r ELSE Head(s)
  <2>1. /\ Append(s, r) \in Seq(Records) /\ Len(Append(s, r)) = Len(s) + 1
        /\ Append(s, r)[Len(s) + 1] = r
        /\ \A i \in 1 .. Len(s) : Append(s, r)[i] = s[i]
    BY <1>6, AppendProperties
  <2>2. Append(s, r) # <<>> /\ Last(Append(s, r)) = r /\ Head(Append(s, r)) = Append(s, r)[1]
    BY <2>1 DEF Last
  <2> QED BY <2>1, <2>2
<1>10. ASSUME noted'["first"] # <<>>, "first" \notin Failed' PROVE Will("first", Head(noted["first"]))'
  <2>1. noted'["first"] = IF post THEN Append(noted["first"], r) ELSE noted["first"]
    BY <1>7 DEF Noteworthy
  <2>2. CASE post /\ ~globals.recorded
    <3>1. noted["first"] = <<>>
      BY <1>2, <2>2 DEF Agreement, NothingNoted
    <3>2. Head(noted'["first"]) = r
      BY <1>7, <1>9, <2>1, <2>2, <3>1
    <3> QED BY <1>3, <1>4, <2>2, <3>2
  <2>3. CASE ~(post /\ ~globals.recorded)
    <3>1. noted["first"] # <<>>
      BY <1>2, <1>10, <2>1, <2>3 DEF Agreement
    <3>2. Head(noted'["first"]) = Head(noted["first"])
      BY <1>7, <1>9, <2>1, <3>1
    <3>3. globals.reset /\ Will("first", Head(noted["first"]))
      BY <1>1, <1>2, <1>8, <1>10, <3>1 DEF FilesKept, MilestonesKept
    <3>4. \A x \in Range(todo') : x.path # "first"
      BY <1>3, <2>3, <3>3
    <3> QED BY <1>5, <3>2, <3>3, <3>4
  <2> QED BY <2>2, <2>3
<1>11. ASSUME noted'["last"] # <<>>, "last" \notin Failed' PROVE Will("last", Last(noted["last"]))'
  <2>1. Noteworthy("last", r) <=> r.post <= Early \/ target = "phase"
    BY <1>6 DEF Noteworthy
  <2>2. CASE post /\ Noteworthy("last", r)
    <3>1. Last(noted'["last"]) = r
      BY <1>7, <1>9, <2>2
    <3> QED BY <1>3, <1>4, <2>1, <2>2, <3>1
  <2>3. CASE ~(post /\ Noteworthy("last", r))
    <3>1. noted'["last"] = noted["last"]
      BY <1>7, <2>3
    <3>2. globals.reset /\ Will("last", Last(noted["last"]))
      BY <1>1, <1>2, <1>8, <1>11, <3>1 DEF FilesKept, MilestonesKept
    <3>3. \A x \in Range(todo') : x.path # "last"
      BY <1>3, <2>1, <2>3, <3>2
    <3> QED BY <1>5, <3>1, <3>2, <3>3
  <2> QED BY <2>2, <2>3
<1>12. ASSUME globals'.main, "main" \notin Failed'
       PROVE  \E e \in Records : e.boot = boot' /\ e.target = "main" /\ e.post = 0 /\ Will("main", e)'
  <2>1. CASE target = "main" /\ ~globals.main
    <3>1. r.post = 0
      BY <1>2, <1>6, <2>1 DEF Agreement
    <3> QED BY <1>1, <1>3, <1>4, <1>6, <2>1, <3>1
  <2>2. CASE globals.main
    <3>1. globals.reset
      BY <1>2, <2>2 DEF FreshGlobals
    <3>2. PICK e \in Records : e.boot = boot /\ e.target = "main" /\ e.post = 0 /\ Will("main", e)
      BY <1>1, <1>2, <1>12, <2>2, <3>1 DEF FilesKept, MilestonesKept
    <3>3. \A x \in Range(todo') : x.path # "main"
      BY <1>3, <2>2, <3>1
    <3> QED BY <1>1, <1>5, <3>1, <3>2, <3>3
  <2> QED BY <1>6, <1>12, <2>1, <2>2
<1>13. MilestonesKept'
  BY <1>10, <1>11, <1>12 DEF MilestonesKept
<1>14. ASSUME "heartbeat" \notin Failed'
       PROVE  \E e \in Records : /\ Will("heartbeat", e)' /\ e.count <= globals'.count
                                 /\ NoLater("main", e.count)' /\ NoLater("first", e.count)'
  <2>1. globals.count \in Nat /\ globals'.count \in Nat /\ r.count \in Nat
    BY <1>2, <1>6 DEF Types
  <2>2. globals.reset =>
          \E e \in Records : /\ Will("heartbeat", e) /\ e.count <= globals.count
                             /\ NoLater("main", e.count) /\ NoLater("first", e.count)
    BY <1>1, <1>2, <1>14 DEF FilesKept, HeartbeatKept
  <2>3. \A e \in Records : e.count \in Nat
    BY DEF Records
  <2>4. CASE heartbeat
    <3>1. ASSUME NEW p \in {"main", "first"} PROVE NoLater(p, r.count)'
      <4>1. \A x \in Range(todo') : x.path = p /\ x.calls # Removal => x.rec.count \in 0 .. r.count
        BY <1>3, <2>1
      <4>2. ASSUME NEW c \in files[p].kept
            PROVE  c = <<>> \/ c[1].boot < boot \/ c[1].count \in 0 .. r.count
        <5>1. CASE ~globals.reset
          BY <1>2, <3>1, <4>2, <5>1 DEF Unused
        <5>2. CASE globals.reset
          <6>1. PICK e \in Records : e.count <= globals.count /\ NoLater("main", e.count) /\ NoLater("first", e.count)
            BY <2>2, <5>2
          <6>2. c = <<>> \/ c[1].boot < boot \/ c[1].count \in 0 .. e.count
            BY <3>1, <4>2, <6>1 DEF NoLater
          <6>3. e.count \in Nat /\ e.count <= r.count
            BY <1>6, <2>1, <2>3, <6>1
          <6> QED BY <2>1, <6>2, <6>3
        <5> QED BY <5>1, <5>2
      <4> QED BY <1>1, <4>1, <4>2 DEF NoLater
    <3>2. Will("heartbeat", r)'
      BY <1>3, <1>4, <2>4
    <3> QED BY <1>6, <2>1, <3>1, <3>2
  <2>5. CASE ~heartbeat
    <3>1. globals.beaten /\ target # "main" /\ ~(post /\ ~globals.recorded)
      BY <1>6, <2>5
    <3>2. globals.reset
      BY <1>2, <3>1 DEF FreshGlobals
    <3>3. PICK e \in Records : /\ Will("heartbeat", e) /\ e.count <= globals.count
                               /\ NoLater("main", e.count) /\ NoLater("first", e.count)
      BY <2>2, <3>2
    <3>4. \A x \in Range(todo') : x.path \notin {"main", "first", "heartbeat"}
      BY <1>3, <2>5, <3>1, <3>2
    <3>5. NoLater("main", e.count)' /\ NoLater("first", e.count)'
      BY <1>1, <3>3, <3>4 DEF NoLater
    <3>6. e.count <= globals'.count
      BY <1>6, <2>1, <2>3, <3>3
    <3> QED BY <1>5, <3>2, <3>3, <3>4, <3>5, <3>6
  <2> QED BY <2>4, <2>5
<1>15. HeartbeatKept'
  BY <1>14 DEF HeartbeatKept
<1>16. ASSUME NEW p \in Range(LivenessFiles) \ Failed' PROVE FileFresh(p)'
  <2>1. CASE ~globals.reset
    BY <1>3, <1>16, <2>1 DEF FileFresh
  <2>2. CASE globals.reset
    <3>1. files[p].now \in Seq(RecordsOf(boot))
      BY <1>1, <1>2, <1>16, <2>2, NothingLeft DEF FilesKept
    <3> QED BY <1>1, <3>1 DEF FileFresh
  <2> QED BY <2>1, <2>2
<1> QED BY <1>13, <1>15, <1>16

LEMMA DispatchKeepsTrace ==
  ASSUME IInv, NEW target, NEW post, NEW r, NEW line, NEW heartbeat,
         Dispatch(target, post, r, line, heartbeat), Agreement', "trace" \notin Failed'
  PROVE  TraceStory'
<1>1. /\ process = "guest" /\ todo = <<>> /\ UNCHANGED <<files, process, boot, failures, past>>
      /\ Failed' = Failed /\ Types'
  BY DEF Dispatch, Failed
<1>2. /\ Agreement /\ Types
      /\ globals.reset => History /\ FilesKept
  BY <1>1, BeforeADispatch
<1>3. /\ globals.reset => \A x \in Range(todo') : x.calls # Removal
      /\ ~globals.reset => ToRemove("trace")'
      /\ \A x \in Range(todo') : x.calls # Removal /\ x.path = "trace" =>
                x = line /\ post /\ globals.entries < MaxEntries /\ Noteworthy("trace", r)
      /\ post /\ globals.entries < MaxEntries /\ Noteworthy("trace", r) => line \in Range(todo')
  BY DispatchJobs, FilesArePaths
<1>4. CASE ~globals.reset
  BY <1>3, <1>4 DEF TraceStory, TraceToRemove, ToRemove
<1>5. CASE globals.reset
  <2> DEFINE all == noted["trace"]
             new == noted'["trace"]
             T == ExpectedTrace
             U == ExpectedTrace'
  <2>1. /\ files["trace"].now = T /\ globals.entries = Len(T) /\ Lasting(T)
    BY <1>1, <1>2, <1>5, NothingLeft DEF FilesKept, TraceDone
  <2>2. /\ all \in Seq(Records) /\ T \in Seq(Records)
        /\ Len(T) = IF Len(all) < MaxEntries THEN Len(all) ELSE MaxEntries
        /\ \A i \in 1 .. Len(T) : T[i] = all[i]
    BY <1>2, ExpectedIsTrace
  <2>3. /\ new \in Seq(Records) /\ U \in Seq(Records)
        /\ Len(U) = IF Len(new) < MaxEntries THEN Len(new) ELSE MaxEntries
        /\ \A i \in 1 .. Len(U) : U[i] = new[i]
    <3> DEFINE m == IF Len(new) < MaxEntries THEN Len(new) ELSE MaxEntries
    <3>1. new \in Seq(Records) /\ U = SubSeq(new, 1, m)
      BY <1>1 DEF Types, ExpectedTrace
    <3> HIDE DEF new, U
    <3>2. m \in 0 .. Len(new)
      BY <3>1, DiagnosticsAssumption
    <3> HIDE DEF m
    <3>3. /\ SubSeq(new, 1, m) \in Seq(Records) /\ Len(SubSeq(new, 1, m)) = m
          /\ \A i \in 1 .. m : SubSeq(new, 1, m)[i] = new[i]
      BY <3>1, <3>2
    <3> QED BY <3>1, <3>3 DEF m
  <2>4. /\ new = IF post /\ Noteworthy("trace", r) THEN Append(all, r) ELSE all
        /\ r \in Records /\ r.target = target /\ r.post = globals'.post
        /\ line.path = "trace" /\ line.rec = r /\ line.calls \in TraceWholes
        /\ DurableNow(globals', target) => line.calls = SyncedLine
        /\ globals'.entries = globals.entries
        /\ Noteworthy("trace", r) <=> r.post <= Dense \/ target = "phase"
    BY DEF Dispatch, Noteworthy
  <2>5. MaxEntries \in Nat /\ Len(all) \in Nat /\ Len(T) \in Nat /\ Len(U) \in Nat /\ Len(new) \in Nat
    BY <2>2, <2>3, DiagnosticsAssumption
  <2> HIDE DEF T, U, all, new
  <2>6. T # <<>> => \A c \in files'["trace"].kept : Outlives(c, T)
    BY <1>1, <2>1 DEF Lasting
  <2>7. post /\ Noteworthy("trace", r) =>
          /\ Len(new) = Len(all) + 1 /\ new[Len(all) + 1] = r
          /\ \A i \in 1 .. Len(all) : new[i] = all[i]
    BY <2>2, <2>4
  <2>8. CASE post /\ globals.entries < MaxEntries /\ Noteworthy("trace", r)
    <3>1. Len(T) = Len(all) /\ Len(U) = Len(T) + 1
      BY <2>1, <2>2, <2>3, <2>5, <2>7, <2>8
    <3>2. /\ U[Len(T) + 1] = r
          /\ \A i \in 1 .. Len(T) : U[i] = T[i]
      BY <2>2, <2>3, <2>5, <2>7, <2>8, <3>1
    <3>3. U = Append(T, r)
      <4>1. /\ Append(T, r) \in Seq(Records) /\ Len(Append(T, r)) = Len(T) + 1
            /\ Append(T, r)[Len(T) + 1] = r /\ \A i \in 1 .. Len(T) : Append(T, r)[i] = T[i]
        BY <2>2, <2>4, AppendProperties
      <4>2. \A i \in 1 .. Len(T) + 1 : i \in 1 .. Len(T) \/ i = Len(T) + 1
        BY <2>5
      <4>3. \A i \in 1 .. Len(U) : U[i] = Append(T, r)[i]
        BY <3>1, <3>2, <4>1, <4>2
      <4> QED BY <2>3, <3>1, <4>1, <4>3, SeqEqual
    <3>4. ASSUME Awaited(U, Len(U)) PROVE DurableNow(globals', target)
      <4>1. U[Len(U)].target = target
        BY <2>4, <3>1, <3>2
      <4>2. target = "phase" \/ (globals'.post <= Dense /\ Len(U) = globals'.post)
        <5>1. Len(new) = Len(U)
          BY <2>7, <2>8, <3>1
        <5>2. globals'.post <= Dense => Len(new) = globals'.post
          BY DEF Agreement, new
        <5> QED BY <2>4, <2>8, <5>1, <5>2
      <4>3. Len(U) = globals'.entries + 1
        BY <2>1, <2>4, <3>1
      <4>4. CASE Len(U) = 1
        BY <4>3, <4>4 DEF DurableNow
      <4>5. CASE target = "phase"
        BY <4>5 DEF DurableNow
      <4>6. CASE target # "phase" /\ Len(U) # 1
        <5>1. globals'.post = Dense \/ (globals'.post < Dense /\ globals'.post % Stride = 0)
          BY <3>4, <4>1, <4>2, <4>6 DEF Awaited
        <5>2. globals'.post <= Dense
          BY <4>2, <4>6
        <5> QED BY <5>1, <5>2 DEF DurableNow
      <4> QED BY <4>4, <4>5, <4>6
    <3>5. LastLine(line)'
      <4>1. U = Append(files'["trace"].now, line.rec)
        BY <1>1, <2>1, <2>4, <3>3
      <4>2. Awaited(U, Len(U)) => line.calls[Len(line.calls)] = "fsync"
        BY <2>4, <3>4, LastCalls
      <4>3. Lasting(files["trace"].now)'
        BY <1>1, <2>1, <2>6 DEF Lasting
      <4> QED BY <4>1, <4>2, <4>3 DEF LastLine, U
    <3>6. globals'.entries = Len(files'["trace"].now)
      BY <1>1, <2>1, <2>4
    <3> QED BY <1>3, <2>4, <2>8, <3>5, <3>6 DEF TraceStory, TraceToBegin
  <2>9. CASE ~(post /\ globals.entries < MaxEntries /\ Noteworthy("trace", r))
    <3>1. Len(U) = Len(T) /\ \A i \in 1 .. Len(T) : U[i] = T[i]
      <4>1. CASE post /\ Noteworthy("trace", r)
        <5>1. ~(Len(all) < MaxEntries)
          BY <2>1, <2>2, <2>5, <2>9, <4>1
        <5>2. Len(T) = MaxEntries /\ Len(U) = MaxEntries /\ \A i \in 1 .. MaxEntries : i \in 1 .. Len(all)
          BY <2>2, <2>3, <2>5, <2>7, <4>1, <5>1
        <5> QED BY <2>2, <2>3, <2>7, <4>1, <5>2
      <4>2. CASE ~(post /\ Noteworthy("trace", r))
        BY <2>2, <2>3, <2>4, <4>2
      <4> QED BY <4>1, <4>2
    <3>2. U = T
      BY <2>2, <2>3, <3>1, SeqEqual
    <3>3. \A x \in Range(todo') : x.path # "trace"
      BY <1>3, <1>5, <2>9
    <3>4. Lasting(ExpectedTrace)'
      BY <2>6, <3>2 DEF Lasting, U
    <3> QED BY <1>1, <2>1, <2>4, <3>2, <3>3, <3>4 DEF TraceStory, TraceDone, U
  <2> QED BY <2>8, <2>9
<1> QED BY <1>4, <1>5

LEMMA NoteKeeps ==
  ASSUME IInv, NEW target \in Targets, NoteTranslatedDispatch(target)
  PROVE  IInv'
<1>1. PICK post, r, line, heartbeat : Dispatch(target, post, r, line, heartbeat)
  BY ADispatch
<1>2. /\ process = "guest" /\ todo = <<>> /\ UNCHANGED <<files, process, boot, failures, past>>
      /\ Types' /\ Orderly(todo', boot) /\ globals'.entries = globals.entries
      /\ globals'.reset /\ globals'.beaten
      /\ globals'.main <=> globals.main \/ target = "main"
      /\ globals'.post = IF post THEN globals.post + 1 ELSE globals.post
      /\ post <=> globals.main /\ target # "main"
  BY <1>1 DEF Dispatch
<1>3. /\ Agreement /\ Types /\ Old
      /\ ~globals.reset => globals = FreshGlobals /\ noted = NothingNoted /\ Unused
  BY <1>2, BeforeADispatch
<1>4. /\ globals.reset => \A x \in Range(todo') : x.calls # Removal
      /\ \A x \in Range(todo') : x.calls # Removal /\ x.path = "trace" =>
                x = line /\ post /\ globals.entries < MaxEntries /\ Noteworthy("trace", r)
      /\ line.calls # Removal
  BY <1>1, DispatchJobs
<1>5. Old' /\ Left'
  <2>1. Old'
    BY <1>2, <1>3 DEF Old
  <2>2. Removal \notin TraceWholes
    BY ShapesOfCalls
  <2> QED BY <1>2, <1>4, <2>1, <2>2 DEF Left
<1>6. Agreement'
  BY <1>1, <1>3, DispatchAgrees
<1>7. History'
  <2>1. ASSUME NEW y \in Range(todo'), y.calls = Removal
        PROVE  /\ globals'.post = 0 /\ globals'.entries = 0
               /\ \A x \in Range(todo') : x.path = "trace" => x.calls = Removal
    <3>1. ~globals.reset /\ ~globals.main /\ globals.entries = 0 /\ globals.post = 0
      BY <1>3, <1>4, <2>1 DEF FreshGlobals
    <3>2. ~post
      BY <1>2, <3>1
    <3> QED BY <1>2, <1>4, <3>1, <3>2
  <2>2. (\E x \in Range(todo') : x.calls = Removal) =>
          /\ globals'.post = 0 /\ globals'.entries = 0
          /\ \A x \in Range(todo') : x.path = "trace" => x.calls = Removal
    BY <2>1
  <2> QED BY <1>2, <1>6, <2>2 DEF History
<1>8. MilestonesKept' /\ HeartbeatKept' /\ \A p \in Range(LivenessFiles) \ Failed' : FileFresh(p)'
  BY <1>1, DispatchKeepsMilestones
<1>9. "trace" \notin Failed' => TraceStory'
  BY <1>1, <1>6, DispatchKeepsTrace
<1>10. FilesKept'
  BY <1>8, <1>9 DEF FilesKept
<1> QED BY <1>2, <1>5, <1>7, <1>10 DEF IInv

-----------------------------------------------------------------------------
(* The theorems.                                                           *)

LEMMA Starts == Init => IInv
<1> SUFFICES ASSUME Init PROVE IInv
  OBVIOUS
<1>1. /\ files = [p \in Paths |-> [now |-> <<>>, kept |-> {<<>>}]]
      /\ globals = FreshGlobals /\ todo = <<>> /\ process = "off" /\ boot = 0
      /\ failures = {} /\ noted = NothingNoted /\ past = 0
  BY DEF Init
<1>2. Types
  <2> DEFINE C == Contents
  <2>1. <<>> \in C
    BY DEF Contents
  <2>2. [now |-> <<>>, kept |-> {<<>>}] \in [now : C, kept : SUBSET C]
    <3> HIDE DEF C
    <3> QED BY <2>1
  <2> DEFINE e == [now |-> <<>>, kept |-> {<<>>}]
  <2>3. files \in [Paths -> [now : Contents, kept : SUBSET Contents]]
    <3>1. files = [p \in Paths |-> e] /\ e \in [now : C, kept : SUBSET C]
      BY <1>1, <2>2
    <3> HIDE DEF C, e
    <3>2. files \in [Paths -> [now : C, kept : SUBSET C]]
      BY <3>1
    <3> QED BY <3>2 DEF C
  <2>4. \A p \in Paths : files[p].now \in files[p].kept
    BY <1>1
  <2>5. /\ FreshGlobals \in [reset : BOOLEAN, main : BOOLEAN, recorded : BOOLEAN, beaten : BOOLEAN,
                             count : Nat, post : Nat, entries : 0 .. MaxEntries]
        /\ FreshGlobals.post <= FreshGlobals.count /\ FreshGlobals.count = 0
    BY DiagnosticsAssumption DEF FreshGlobals
  <2>6. NothingNoted \in [{"first", "last", "trace"} -> Seq(Records)]
    BY DEF NothingNoted
  <2>7. IsFiniteSet(failures) /\ Cardinality(failures) = 0
    BY <1>1, FS_EmptySet
  <2>8. Spent <= MaxDispatches
    BY <1>1, <2>5, <2>7, DiagnosticsAssumption DEF Spent
  <2>9. boot \in 0 .. MaxBoots
    BY <1>1, DiagnosticsAssumption
  <2> QED BY <1>1, <2>3, <2>4, <2>5, <2>6, <2>7, <2>8, <2>9 DEF Types, Contents
<1>3. Old
  BY <1>1 DEF Old
<1>4. Left
  <2>1. Range(todo) = {} /\ Orderly(<<>>, boot)
    BY <1>1, NothingLeft DEF Orderly
  <2> QED BY <1>1, <2>1 DEF Left
<1> QED BY <1>1, <1>2, <1>3, <1>4 DEF IInv, Running

LEMMA StepKeeps == IInv /\ [Next]_vars => IInv'
<1> SUFFICES ASSUME IInv, [Next]_vars PROVE IInv'
  OBVIOUS
<1>1. CASE CallSucceeds
  BY <1>1, SuccessKeeps
<1>2. CASE CallFails
  BY <1>2, FailureKeeps
<1>3. CASE \E target \in Targets : NoteTranslatedDispatch(target)
  BY <1>3, NoteKeeps
<1>4. CASE ReportUnsupported \/ LibnxException \/ StartReturns
  BY <1>4, ReportsKeep
<1>5. CASE Boot
  BY <1>5, BootKeeps
<1>6. CASE Aborts \/ Closed \/ PowerLost
  BY <1>6, EndKeeps
<1>7. CASE UNCHANGED vars
  <2>1. /\ UNCHANGED <<files, globals, todo, process, boot, failures, noted, past>>
    BY <1>7 DEF vars
  <2>2. Types' /\ Old' /\ Left'
    BY <2>1 DEF IInv, Types, Old, Left, Spent
  <2>3. Running' = Running /\ Failed' = Failed /\ ExpectedTrace' = ExpectedTrace
    BY <2>1 DEF Running, Failed, ExpectedTrace
  <2>4. History => History'
    BY <2>1 DEF History, Agreement
  <2>5. Unused => Unused'
    BY <2>1 DEF Unused
  <2>6. \A p, r : /\ Will(p, r) => Will(p, r)'
                  /\ NoLater(p, r) => NoLater(p, r)'
                  /\ FileFresh(p) => FileFresh(p)'
    BY <2>1 DEF Will, NoLater, FileFresh, ToRemove
  <2>7. TraceStory => TraceStory'
    BY <2>1, <2>3 DEF TraceStory, TraceToRemove, TraceToBegin, TraceToWrite, TraceToSync, TraceDone,
                      LastLine, Lasting
  <2>8. FilesKept => FilesKept'
    BY <2>1, <2>3, <2>6, <2>7 DEF FilesKept, MilestonesKept, HeartbeatKept
  <2> QED BY <2>1, <2>2, <2>3, <2>4, <2>5, <2>8 DEF IInv
<1> QED BY <1>1, <1>2, <1>3, <1>4, <1>5, <1>6, <1>7 DEF Next

LEMMA Inductive == Spec => []IInv
BY Starts, StepKeeps, PTL DEF Spec

-----------------------------------------------------------------------------
(* What a reader makes of the card, also when power was lost.              *)

NoJob(p) == \A x \in Range(todo) : x.path # p

\* A file is written whole, and so to an empty one.
Emptied ==
  todo # <<>> /\ Head(todo).calls \in {Write, WriteSync} /\ Head(todo).path # "trace" =>
    files[Head(todo).path].now = <<>>

OneRecord == \A p \in Paths \ {"trace"} : \A c \in files[p].kept : Len(c) \in 0 .. 1

TraceOfOneBoot == NeverFailed("trace") => \A c \in files["trace"].kept : OfOneBoot(c)

\* The heartbeat is written behind all that it speaks of.
BeatsLast ==
  \A i \in 1 .. Len(todo) : todo[i].path = "heartbeat" /\ todo[i].calls # Removal =>
    /\ i = Len(todo) /\ todo[i].rec.post <= globals.post
    /\ MainReached(todo[i].rec) => globals.main

LastNoted == globals.post # 0 => noted["last"] # <<>>

\* What the heartbeat r vouches for holds, and nothing is left to do that could end it.
Confirmed(r) ==
  /\ Vouched(r)
  /\ MainReached(r) => globals.main /\ NoJob("main")
  /\ r.post > 0 => globals.post # 0 /\ NoJob("first")

Vouching ==
  \A h \in files["heartbeat"].kept : h # <<>> /\ h[1].boot = boot => Confirmed(h[1])

Told == Emptied /\ OneRecord /\ TraceOfOneBoot /\ BeatsLast /\ LastNoted /\ Vouching

LEMMA StillVouched ==
  ASSUME NEW r, Vouched(r), boot' = boot, Failed \subseteq Failed',
         MainReached(r) => files'["main"].kept \subseteq files["main"].kept,
         r.post > 0 =>
           /\ files'["first"].kept \subseteq files["first"].kept /\ files'["first"].kept # {}
           /\ Head(noted'["first"]) = Head(noted["first"])
           /\ \A p \in {"last", "trace"} \ Failed : \A c \in files'[p].kept :
                \/ c \in files[p].kept
                \/ (\A i \in DOMAIN c : c[i].boot = boot) /\ (p = "trace" => c # <<>>)
  PROVE  Vouched(r)'
<1>1. MainReached(r)' <=> MainReached(r)
  BY DEF MainReached
<1>2. ASSUME MainReached(r), "main" \notin Failed', NEW c \in files'["main"].kept
      PROVE  Len(c) = 1 /\ c[1].boot = boot' /\ c[1].target = "main" /\ c[1].post = 0
  BY <1>2 DEF Vouched
<1>3. ASSUME r.post > 0, "first" \notin Failed'
      PROVE  files'["first"].kept = {<<Head(noted'["first"])>>}
  <2>1. files["first"].kept = {<<Head(noted["first"])>>}
    BY <1>3 DEF Vouched
  <2> QED BY <1>3, <2>1
<1>4. ASSUME r.post > 0, NEW p \in {"last", "trace"} \ Failed', NEW c \in files'[p].kept
      PROVE  (\A i \in DOMAIN c : c[i].boot = boot') /\ (p = "trace" => c # <<>>)
  <2>1. CASE c \in files[p].kept
    BY <1>4, <2>1 DEF Vouched
  <2>2. CASE c \notin files[p].kept
    BY <1>4, <2>2
  <2> QED BY <2>1, <2>2
<1> QED BY <1>1, <1>2, <1>3, <1>4 DEF Vouched

\* A heartbeat comes last, and then every other file is as it says.
LEMMA HeartbeatConfirmed ==
  ASSUME IInv, BeatsLast, LastNoted, todo # <<>>, NEW job, job = Head(todo),
         job.path = "heartbeat", job.calls # Removal
  PROVE  job.rec \in Records /\ Confirmed(job.rec)
<1>1. /\ Types /\ Orderly(todo, boot) /\ Running
  BY DEF IInv, Left, Running
<1>2. /\ job \in Jobs(boot) /\ Range(todo) = {job} \cup Range(Tail(todo)) /\ job = todo[1]
      /\ todo \in Seq(Jobs(boot)) /\ Len(todo) \in Nat /\ 1 \in 1 .. Len(todo)
  <2>1. todo \in Seq(Jobs(boot))
    BY <1>1 DEF Orderly
  <2>2. job = todo[1] /\ Len(todo) \in Nat /\ 1 \in 1 .. Len(todo)
    BY <2>1
  <2> QED BY <1>1, <2>1, <2>2, Behind
<1>3. /\ Len(todo) = 1 /\ job.rec.post <= globals.post
      /\ MainReached(job.rec) => globals.main
  BY <1>2 DEF BeatsLast
<1>4. Range(todo) = {job}
  <2>1. \A x : x \in Range(todo) <=> \E i \in 1 .. Len(todo) : todo[i] = x
    BY <1>2, InRange
  <2> QED BY <1>2, <1>3, <2>1
<1>5. job.rec \in Records /\ job.rec.post \in Nat
  <2>1. job.rec \in Records
    BY <1>2, JobFacts DEF Rewritten
  <2> QED BY <2>1 DEF Records
<1>6. globals.reset /\ History /\ FilesKept
  BY <1>1, <1>4 DEF IInv, Unused, Marks
<1>7. \A p : p # "heartbeat" => NoJob(p)
  BY <1>4 DEF NoJob
<1>8. \A p, r : p # "heartbeat" /\ Will(p, r) => files[p] = [now |-> <<r>>, kept |-> {<<r>>}]
  <2>1. SUFFICES ASSUME NEW p, NEW r, p # "heartbeat", Will(p, r)
                 PROVE  files[p] = [now |-> <<r>>, kept |-> {<<r>>}]
    OBVIOUS
  <2>2. Rewrite(p, r).path = p /\ Job(p, WriteSync, r).path = p /\ Job(p, Sync, r).path = p
    BY RewriteIsJob DEF Job
  <2> QED BY <1>4, <2>1, <2>2 DEF Will
<1>9. ASSUME NEW p \in Range(LivenessFiles) \ Failed, p # "heartbeat"
      PROVE  files[p].now \in Seq(RecordsOf(boot))
  <2>1. FileFresh(p)
    BY <1>6, <1>9 DEF FilesKept
  <2> QED BY <1>7, <1>9, <2>1 DEF FileFresh, ToRemove, NoJob
<1>10. ASSUME MainReached(job.rec), "main" \notin Failed, NEW c \in files["main"].kept
       PROVE  Len(c) = 1 /\ c[1].boot = boot /\ c[1].target = "main" /\ c[1].post = 0
  <2>1. PICK r \in Records : r.boot = boot /\ r.target = "main" /\ r.post = 0 /\ Will("main", r)
    BY <1>3, <1>6, <1>10 DEF FilesKept, MilestonesKept
  <2>2. files["main"] = [now |-> <<r>>, kept |-> {<<r>>}]
    BY <1>8, <2>1
  <2>3. c = <<r>> /\ Len(<<r>>) = 1 /\ <<r>>[1] = r
    BY <1>10, <2>2
  <2> QED BY <2>1, <2>3
<1>11. job.rec.post > 0 => globals.post # 0 /\ globals.post \in Nat
  BY <1>1, <1>3, <1>5 DEF Types
<1>12. ASSUME job.rec.post > 0, "first" \notin Failed
       PROVE  files["first"].kept = {<<Head(noted["first"])>>}
  <2>1. noted["first"] # <<>>
    BY <1>6, <1>11, <1>12 DEF History, Agreement
  <2> DEFINE r == Head(noted["first"])
  <2>2. Will("first", r)
    BY <1>6, <1>12, <2>1 DEF FilesKept, MilestonesKept
  <2> HIDE DEF r
  <2>3. files["first"] = [now |-> <<r>>, kept |-> {<<r>>}]
    BY <1>8, <2>2
  <2>4. files["first"].kept = {<<r>>}
    BY <2>3
  <2> QED BY <2>4 DEF r
<1>13. ASSUME job.rec.post > 0, "last" \notin Failed, NEW c \in files["last"].kept
       PROVE  \A i \in DOMAIN c : c[i].boot = boot
  <2>1. noted["last"] # <<>>
    BY <1>11, <1>13 DEF LastNoted
  <2>2. Will("last", Last(noted["last"]))
    BY <1>6, <1>13, <2>1 DEF FilesKept, MilestonesKept
  <2>3. c = files["last"].now
    <3> DEFINE r == Last(noted["last"])
    <3>1. files["last"] = [now |-> <<r>>, kept |-> {<<r>>}]
      BY <1>8, <2>2
    <3> HIDE DEF r
    <3> QED BY <1>13, <3>1
  <2>4. c \in Seq(RecordsOf(boot))
    BY <1>9, <1>13, <2>3, FilesArePaths DEF Rewritten
  <2>5. \A i \in DOMAIN c : c[i] \in RecordsOf(boot)
    <3> HIDE DEF RecordsOf
    <3> QED BY <2>4
  <2> QED BY <2>5 DEF RecordsOf
<1>14. ASSUME job.rec.post > 0, "trace" \notin Failed, NEW c \in files["trace"].kept
       PROVE  (\A i \in DOMAIN c : c[i].boot = boot) /\ c # <<>>
  <2> DEFINE T == ExpectedTrace
             all == noted["trace"]
  <2>1. TraceDone
    BY <1>4, <1>6, <1>14 DEF FilesKept, TraceStory, TraceToRemove, TraceToBegin, TraceToWrite, TraceToSync
  <2>2. /\ T \in Seq(Records) /\ all \in Seq(Records)
        /\ Len(T) = IF Len(all) < MaxEntries THEN Len(all) ELSE MaxEntries
    BY <1>1, ExpectedIsTrace
  <2>3. T \in Seq(RecordsOf(boot))
    BY <1>9, <1>14, <2>1, FilesArePaths DEF TraceDone
  <2>4. Len(T) # 0 /\ Len(T) \in Nat
    <3>1. /\ globals.post <= Dense => Len(all) = globals.post
          /\ globals.post > Dense => Len(all) >= Dense
      BY <1>6 DEF History, Agreement
    <3>2. Len(all) \in Nat /\ Len(T) \in Nat
      BY <2>2
    <3> HIDE DEF all, T
    <3>3. Early \in Nat /\ Dense \in Nat /\ MaxEntries \in Nat /\ Early < Dense /\ Dense < MaxEntries
      BY DiagnosticsAssumption
    <3> QED BY <1>11, <1>14, <2>2, <3>1, <3>2, <3>3
  <2>5. Outlives(c, T)
    <3>1. T # <<>>
      BY <2>4
    <3> QED BY <1>14, <2>1, <3>1 DEF TraceDone, Lasting
  <2> HIDE DEF T
  <2>6. /\ c \in Seq(Records) /\ Len(c) \in Nat /\ Len(c) <= Len(T)
        /\ \A i \in 1 .. Len(c) : c[i] = T[i]
        /\ 1 <= Len(c)
    <3>1. 1 \in 1 .. Len(T) /\ Awaited(T, 1)
      BY <2>4 DEF Awaited
    <3>2. c \in Seq(Records) /\ 1 <= Len(c)
      BY <2>5, <3>1 DEF Outlives
    <3> QED BY <2>5, <3>2 DEF Outlives
  <2>7. \A i \in 1 .. Len(T) : T[i] \in RecordsOf(boot)
    <3> HIDE DEF RecordsOf
    <3> QED BY <2>3
  <2>8. DOMAIN c = 1 .. Len(c) /\ c # <<>>
    BY <2>6
  <2>9. \A i \in 1 .. Len(c) : i \in 1 .. Len(T)
    BY <2>4, <2>6
  <2> QED BY <2>6, <2>7, <2>8, <2>9 DEF RecordsOf
<1>15. Vouched(job.rec)
  <2>1. \A p \in {"last", "trace"} \ Failed : job.rec.post > 0 =>
          \A c \in files[p].kept : (\A i \in DOMAIN c : c[i].boot = boot) /\ (p = "trace" => c # <<>>)
    BY <1>13, <1>14
  <2> QED BY <1>10, <1>12, <2>1 DEF Vouched
<1> QED BY <1>3, <1>5, <1>7, <1>11, <1>15 DEF Confirmed

\* What a call does that the last heartbeat could be about.
LEMMA ConfirmedLasts ==
  ASSUME IInv, CallSucceeds, NEW r, Confirmed(r)
  PROVE  Confirmed(r)'
<1> DEFINE job == Head(todo)
           rest == Tail(todo)
           now == files[job.path].now
           kept == files[job.path].kept
<1>1. /\ job \in Jobs(boot) /\ job.path \in Paths
      /\ \A q \in Paths : q # job.path => files'[q] = files[q]
      /\ job.calls \in {Removal, RewriteWhole, MarkWhole} =>
           files'[job.path] = [now |-> <<>>, kept |-> kept \cup {<<>>}]
      /\ job.calls \in {Write, WriteSync} =>
           files'[job.path] = [now |-> Append(now, job.rec), kept |-> kept \cup {Append(now, job.rec)}]
      /\ job.calls = Sync => files'[job.path] = [now |-> now, kept |-> {now}]
      /\ job.calls \in TraceWholes => files' = files
      /\ job.calls \in {Removal, RewriteWhole, MarkWhole, Write, WriteSync, Sync} \cup TraceWholes
  BY Effect DEF Made, IInv
<1>2. /\ Range(todo) = {job} \cup Range(rest)
      /\ \A x \in Range(rest) : job.calls # Removal => x.calls # Removal
      /\ \A x \in Range(todo') : x \in Range(rest) \/ x.path = job.path
      /\ UNCHANGED <<boot, failures, noted>> /\ todo # <<>>
  BY Progressed DEF IInv
<1>3. Types /\ Running /\ globals'.main = globals.main /\ globals'.post = globals.post
  <2>1. Types /\ Running
    BY <1>2 DEF IInv, Left, Running
  <2>2. globals' = IF job.calls \in TraceWholes THEN [globals EXCEPT !.entries = @ + 1] ELSE globals
    BY Effect DEF Made, IInv
  <2>3. globals \in [reset : BOOLEAN, main : BOOLEAN, recorded : BOOLEAN, beaten : BOOLEAN,
                     count : Nat, post : Nat, entries : 0 .. MaxEntries]
    BY <2>1 DEF Types
  <2> HIDE DEF job
  <2> QED BY <2>1, <2>2, <2>3
<1>4. now \in Contents /\ now \in kept
  BY <1>1, <1>3 DEF Types, Contents
<1>5. Failed' = Failed
  BY <1>2 DEF Failed
<1> HIDE DEF job, rest, now, kept
<1>6. \A p : NoJob(p) => NoJob(p)' /\ job.path # p
  BY <1>2 DEF NoJob
<1>7. {"main", "first", "last", "trace"} \subseteq Paths
  BY FilesArePaths DEF Rewritten
<1>8. MainReached(r) => files'["main"] = files["main"]
  BY <1>1, <1>6, <1>7 DEF Confirmed
<1>9. r.post > 0 => files'["first"] = files["first"] /\ files["first"].kept # {}
  BY <1>1, <1>3, <1>6, <1>7 DEF Confirmed, Types
<1>10. ASSUME r.post > 0, NEW p \in {"last", "trace"} \ Failed, NEW c \in files'[p].kept
       PROVE  \/ c \in files[p].kept
              \/ (\A i \in DOMAIN c : c[i].boot = boot) /\ (p = "trace" => c # <<>>)
  <2>1. CASE job.path # p
    BY <1>1, <1>7, <1>10, <2>1
  <2>2. CASE job.path = p /\ job.calls \in {Write, WriteSync}
    <3> DEFINE a == Append(now, job.rec)
    <3>1. files'[p].kept = files[p].kept \cup {a}
      BY <1>1, <2>2 DEF kept
    <3>2. job.calls # Removal /\ job.rec \in RecordsOf(boot)
      BY <1>1, <2>2, JobFacts, ShapesOfCalls DEF TraceRests
    <3>3. globals.reset
      BY <1>2, <1>3, <1>10, <2>2 DEF IInv, Unused, Marks
    <3>4. FileFresh(p)
      BY <1>3, <1>10, <3>3, FilesArePaths DEF IInv, FilesKept, Rewritten
    <3>5. now \in Seq(RecordsOf(boot))
      BY <1>2, <2>2, <3>2, <3>4 DEF FileFresh, ToRemove, now
    <3>6. a # <<>> /\ \A i \in DOMAIN a : a[i] \in RecordsOf(boot)
      <4>1. a \in Seq(RecordsOf(boot)) /\ Len(a) = Len(now) + 1 /\ Len(now) \in Nat
        <5> HIDE DEF RecordsOf
        <5> QED BY <3>2, <3>5, AppendProperties
      <4> HIDE DEF a, RecordsOf
      <4> QED BY <4>1
    <3>7. a # <<>> /\ \A i \in DOMAIN a : a[i].boot = boot
      BY <3>6 DEF RecordsOf
    <3> HIDE DEF a
    <3> QED BY <1>10, <3>1, <3>7
  <2>3. CASE job.path = p /\ job.calls = Sync
    BY <1>1, <1>4, <1>10, <2>3 DEF kept
  <2>4. CASE job.path = p /\ job.calls \in TraceWholes
    BY <1>1, <1>10, <2>4
  <2>5. CASE job.path = p /\ job.calls \in {Removal, RewriteWhole, MarkWhole}
    <3>1. files'[p].kept = files[p].kept \cup {<<>>}
      BY <1>1, <2>5 DEF kept
    <3>2. p # "trace"
      <4>1. CASE job.calls = Removal
        <5>1. globals.reset => globals.post = 0
          BY <1>2, <1>3, <4>1 DEF IInv, History
        <5>2. ~globals.reset => globals.post = 0
          BY <1>3 DEF IInv, Unused, FreshGlobals
        <5> QED BY <1>10, <5>1, <5>2 DEF Confirmed
      <4>2. CASE job.calls # Removal
        <5>1. p = "trace" => job.calls \in TraceWholes \cup TraceRests
          BY <1>1, <2>5, <4>2, JobFacts
        <5>2. job.calls \notin TraceWholes \cup TraceRests
          BY <2>5, <4>2, ShapesOfCalls DEF Wholes
        <5> QED BY <5>1, <5>2
      <4> QED BY <4>1, <4>2
    <3>3. DOMAIN <<>> = {}
      OBVIOUS
    <3> QED BY <1>10, <3>1, <3>2, <3>3
  <2> QED BY <1>1, <2>1, <2>2, <2>3, <2>4, <2>5
<1>11. Vouched(r)'
  <2> DEFINE Mine(c, p) == (\A i \in DOMAIN c : c[i].boot = boot) /\ (p = "trace" => c # <<>>)
  <2>1. r.post > 0 => \A p \in {"last", "trace"} \ Failed : \A c \in files'[p].kept :
                        c \in files[p].kept \/ Mine(c, p)
    BY <1>10
  <2>2. Vouched(r)
    BY DEF Confirmed
  <2> QED BY <1>2, <1>5, <1>8, <1>9, <2>1, <2>2, StillVouched
<1> QED BY <1>3, <1>6, <1>11 DEF Confirmed, MainReached

LEMMA VouchingLasts ==
  ASSUME IInv, Emptied, BeatsLast, LastNoted, Vouching, CallSucceeds
  PROVE  Vouching'
<1> DEFINE job == Head(todo)
           now == files["heartbeat"].now
           kept == files["heartbeat"].kept
<1>1. /\ job \in Jobs(boot) /\ todo # <<>> /\ boot' = boot
  BY Progressed DEF IInv
<1>2. /\ job.path # "heartbeat" => files'["heartbeat"] = files["heartbeat"]
      /\ job.path = "heartbeat" =>
           /\ job.calls \in {Removal, RewriteWhole, MarkWhole} =>
                files'["heartbeat"] = [now |-> <<>>, kept |-> kept \cup {<<>>}]
           /\ job.calls \in {Write, WriteSync} =>
                files'["heartbeat"] = [now |-> Append(now, job.rec), kept |-> kept \cup {Append(now, job.rec)}]
           /\ job.calls = Sync => files'["heartbeat"] = [now |-> now, kept |-> {now}]
      /\ job.calls \in TraceWholes => files' = files
      /\ job.calls \in {Removal, RewriteWhole, MarkWhole, Write, WriteSync, Sync} \cup TraceWholes
  <2>1. "heartbeat" \in Paths
    BY FilesArePaths DEF Rewritten
  <2>2. Made(job, files[job.path].now, files[job.path].kept)
    BY Effect DEF IInv
  <2> HIDE DEF job
  <2>3. job.path # "heartbeat" => files'["heartbeat"] = files["heartbeat"]
    BY <2>1, <2>2 DEF Made
  <2>4. job.path = "heartbeat" =>
           /\ job.calls \in {Removal, RewriteWhole, MarkWhole} =>
                files'["heartbeat"] = [now |-> <<>>, kept |-> kept \cup {<<>>}]
           /\ job.calls \in {Write, WriteSync} =>
                files'["heartbeat"] = [now |-> Append(now, job.rec), kept |-> kept \cup {Append(now, job.rec)}]
           /\ job.calls = Sync => files'["heartbeat"] = [now |-> now, kept |-> {now}]
    BY <2>2 DEF Made
  <2> QED BY <2>2, <2>3, <2>4 DEF Made
<1>3. now \in kept
  BY FilesArePaths DEF IInv, Types, Rewritten
<1>4. ASSUME NEW h \in files'["heartbeat"].kept, h # <<>>, h \notin kept
      PROVE  Confirmed(h[1])
  <2>1. job.path = "heartbeat" /\ job.calls \in {Write, WriteSync} /\ h = Append(now, job.rec)
    <3> HIDE DEF job, now, kept
    <3>1. job.path = "heartbeat"
      BY <1>2, <1>4 DEF kept
    <3> QED BY <1>2, <1>3, <1>4, <3>1 DEF kept
  <2>2. now = <<>>
    BY <1>1, <2>1 DEF Emptied
  <2>3. h[1] = job.rec
    <3>1. h = Append(<<>>, job.rec)
      BY <2>1, <2>2
    <3> HIDE DEF job
    <3> QED BY <3>1
  <2>4. job.calls # Removal
    BY <2>1, ShapesOfCalls DEF TraceRests
  <2>5. Confirmed(job.rec)
    BY <1>1, <2>1, <2>4, HeartbeatConfirmed
  <2> QED BY <2>3, <2>5
<1>5. ASSUME NEW h \in files'["heartbeat"].kept, h # <<>>, h[1].boot = boot'
      PROVE  Confirmed(h[1])'
  <2>1. Confirmed(h[1])
    BY <1>1, <1>4, <1>5 DEF Vouching
  <2> QED BY <2>1, ConfirmedLasts
<1> QED BY <1>5 DEF Vouching

LEMMA ContentsLast ==
  ASSUME IInv, Emptied, OneRecord, TraceOfOneBoot, CallSucceeds
  PROVE  Emptied' /\ OneRecord' /\ TraceOfOneBoot'
<1> DEFINE job == Head(todo)
           rest == Tail(todo)
           now == files[job.path].now
           kept == files[job.path].kept
<1>1. /\ job \in Jobs(boot) /\ job.path \in Paths
      /\ \A q \in Paths : q # job.path => files'[q] = files[q]
      /\ job.calls \in {Removal, RewriteWhole, MarkWhole} =>
           files'[job.path] = [now |-> <<>>, kept |-> kept \cup {<<>>}]
      /\ job.calls \in {Write, WriteSync} =>
           /\ job.rec \in AllRecords
           /\ files'[job.path] = [now |-> Append(now, job.rec), kept |-> kept \cup {Append(now, job.rec)}]
      /\ job.calls = Sync => files'[job.path] = [now |-> now, kept |-> {now}]
      /\ job.calls \in TraceWholes => files' = files
      /\ job.calls \in {Removal, RewriteWhole, MarkWhole, Write, WriteSync, Sync} \cup TraceWholes
  BY Effect DEF Made, IInv
<1>2. /\ Range(todo) = {job} \cup Range(rest) /\ todo # <<>> /\ todo \in Seq(Jobs(boot))
      /\ \A x \in Range(rest) :
           /\ x \in Jobs(boot) /\ x.calls \in Wholes \cup {Removal}
           /\ job.calls # Removal => x.calls # Removal
      /\ UNCHANGED <<boot, failures, noted>>
  BY Progressed DEF IInv, Left, Orderly
<1>3. /\ Len(job.calls) > 1 =>
           todo' # <<>> /\ Head(todo') = Job(job.path, Tail(job.calls), job.rec)
      /\ ~(Len(job.calls) > 1) => todo' = rest
  <2>1. todo' = AfterCall /\ Orderly(todo, boot)
    BY DEF CallSucceeds, IInv, Left
  <2> QED BY <1>2, <2>1, AfterOneCall
<1>4. rest # <<>> => Head(rest) \in Range(rest)
  <2>1. Orderly(rest, boot)
    BY <1>2, Behind DEF IInv, Left
  <2> QED BY <2>1, Behind
<1>5. Types /\ now \in Contents /\ now \in kept
  BY <1>1 DEF IInv, Types, Contents
<1>6. job.calls \in TraceWholes => job.path = "trace"
  BY <1>1, LinesAreOfTheTrace
<1> HIDE DEF job, rest, now, kept
<1>7. Emptied'
  <2>1. CASE Len(job.calls) > 1
    <3>1. /\ todo' # <<>> /\ Head(todo').path = job.path /\ Head(todo').calls = Tail(job.calls)
      BY <1>3, <2>1 DEF Job
    <3>2. Tail(job.calls) \in {Write, WriteSync} /\ job.path # "trace" =>
            job.calls \in {RewriteWhole, MarkWhole}
      BY <1>1, <1>6, <2>1, CallByCall, ShapesOfCalls
    <3>3. job.calls \in {RewriteWhole, MarkWhole} => files'[job.path].now = <<>>
      BY <1>1
    <3> QED BY <3>1, <3>2, <3>3 DEF Emptied
  <2>2. CASE ~(Len(job.calls) > 1)
    <3>1. \A calls \in Wholes \cup {Removal} : calls \notin {Write, WriteSync}
      BY ShapesOfCalls DEF TraceRests
    <3> QED BY <1>2, <1>3, <1>4, <2>2, <3>1 DEF Emptied
  <2> QED BY <2>1, <2>2
<1>8. OneRecord'
  <2>1. SUFFICES ASSUME NEW p \in Paths \ {"trace"}, NEW c \in files'[p].kept
                 PROVE  Len(c) \in 0 .. 1
    BY DEF OneRecord
  <2>2. CASE p # job.path
    BY <1>1, <2>1, <2>2 DEF OneRecord
  <2>3. CASE p = job.path /\ job.calls \in {Write, WriteSync}
    <3>1. now = <<>>
      BY <1>2, <2>1, <2>3 DEF Emptied, now, job
    <3>2. files'[p].kept = kept \cup {Append(now, job.rec)}
      BY <1>1, <2>3
    <3>3. Len(Append(<<>>, job.rec)) = 1
      OBVIOUS
    <3> QED BY <2>1, <2>3, <3>1, <3>2, <3>3 DEF OneRecord, kept
  <2>4. CASE p = job.path /\ job.calls \notin {Write, WriteSync}
    <3>1. files'[p].kept \subseteq kept \cup {<<>>}
      BY <1>1, <1>5, <1>6, <2>1, <2>4
    <3>2. Len(<<>>) = 0
      OBVIOUS
    <3> QED BY <2>1, <2>4, <3>1, <3>2 DEF OneRecord, kept
  <2> QED BY <2>2, <2>3, <2>4
<1>9. TraceOfOneBoot'
  <2>1. SUFFICES ASSUME NeverFailed("trace"), NEW c \in files'["trace"].kept
                 PROVE  OfOneBoot(c)
    BY <1>2 DEF TraceOfOneBoot, NeverFailed, OfOneBoot
  <2>2. "trace" \in Paths
    BY FilesArePaths
  <2>3. c \in files["trace"].kept => OfOneBoot(c)
    BY <2>1 DEF TraceOfOneBoot
  <2>4. CASE job.path # "trace"
    BY <1>1, <2>1, <2>2, <2>3, <2>4
  <2>5. CASE job.path = "trace" /\ job.calls \in {Write, WriteSync}
    <3> DEFINE a == Append(now, job.rec)
    <3>1. files'["trace"].kept = files["trace"].kept \cup {a}
      BY <1>1, <2>5 DEF kept
    <3>2. job.calls # Removal /\ job.rec \in RecordsOf(boot)
      BY <1>1, <2>5, JobFacts, ShapesOfCalls DEF TraceRests
    <3>3. Running /\ globals.reset
      <4>1. Running
        BY <1>2 DEF IInv, Left, Running
      <4> QED BY <1>2, <2>5, <4>1 DEF IInv, Unused, Marks
    <3>4. "trace" \notin Failed
      <4>1. boot \in 1 .. boot
        BY <1>5, <3>3 DEF Running, Types
      <4> QED BY <2>1, <4>1 DEF NeverFailed, Failed
    <3>5. FileFresh("trace")
      BY <3>3, <3>4, FilesArePaths DEF IInv, FilesKept
    <3>6. now \in Seq(RecordsOf(boot))
      BY <1>2, <2>5, <3>2, <3>5 DEF FileFresh, ToRemove, now
    <3>7. \A i \in DOMAIN a : a[i] \in RecordsOf(boot) /\ 1 \in DOMAIN a
      <4>1. a \in Seq(RecordsOf(boot)) /\ Len(a) \in Nat
        <5> HIDE DEF RecordsOf
        <5> QED BY <3>2, <3>6, AppendProperties
      <4> HIDE DEF a, RecordsOf
      <4> QED BY <4>1
    <3>8. OfOneBoot(a)
      BY <3>7 DEF OfOneBoot, RecordsOf
    <3> HIDE DEF a
    <3> QED BY <2>1, <2>3, <3>1, <3>8
  <2>6. CASE job.path = "trace" /\ job.calls \notin {Write, WriteSync}
    <3>1. files'["trace"].kept \subseteq kept \cup {<<>>}
      BY <1>1, <1>5, <2>6 DEF kept
    <3>2. OfOneBoot(<<>>)
      BY DEF OfOneBoot
    <3> QED BY <2>1, <2>3, <2>6, <3>1, <3>2 DEF kept
  <2> QED BY <2>4, <2>5, <2>6
<1> QED BY <1>7, <1>8, <1>9

\* What is left after a call is what was left, but for the first file.
LEMMA BeatsLastLasts ==
  ASSUME Orderly(todo, boot), BeatsLast, todo # <<>>, NEW next,
         \/ next = Tail(todo)
         \/ \E y : /\ next = <<y>> \o Tail(todo) /\ y.path = Head(todo).path
                   /\ y.rec = Head(todo).rec /\ Head(todo).calls # Removal
         \/ \E y : next = <<y>> /\ y.path = "fallback",
         globals'.main = globals.main, globals'.post = globals.post, todo' = next
  PROVE  BeatsLast'
<1> DEFINE n == Len(todo)
           t == Tail(todo)
           J == Jobs(boot)
<1>1. todo \in Seq(J)
  BY DEF Orderly
<1> HIDE DEF J
<1>2. /\ n \in Nat \ {0} /\ t \in Seq(J) /\ Len(t) = n - 1 /\ todo[1] = Head(todo)
      /\ \A i \in 1 .. n - 1 : t[i] = todo[i + 1]
  BY <1>1
<1> HIDE DEF n, t
<1>3. \A i \in 1 .. n : todo[i].path = "heartbeat" /\ todo[i].calls # Removal =>
        /\ i = n /\ todo[i].rec.post <= globals.post
        /\ MainReached(todo[i].rec) => globals.main
  BY DEF BeatsLast, n
<1>4. \A r : MainReached(r)' <=> MainReached(r)
  BY DEF MainReached
<1>5. CASE next = t
  <2>1. ASSUME NEW i \in 1 .. n - 1, t[i].path = "heartbeat", t[i].calls # Removal
        PROVE  /\ i = n - 1 /\ t[i].rec.post <= globals.post
               /\ MainReached(t[i].rec) => globals.main
    <3>1. i + 1 \in 1 .. n /\ t[i] = todo[i + 1]
      BY <1>2
    <3>2. i + 1 = n /\ t[i].rec.post <= globals.post /\ (MainReached(t[i].rec) => globals.main)
      BY <1>3, <2>1, <3>1
    <3> QED BY <1>2, <3>2
  <2>2. todo' = t /\ Len(todo') = n - 1
    BY <1>2, <1>5
  <2> QED BY <1>4, <2>1, <2>2 DEF BeatsLast, MainReached
<1>6. ASSUME NEW y, next = <<y>> \o t, y.path = Head(todo).path, y.rec = Head(todo).rec,
             Head(todo).calls # Removal
      PROVE  BeatsLast'
  <2> DEFINE u == <<y>> \o t
  <2>1. Len(u) = n /\ u[1] = y /\ \A i \in 2 .. n : u[i] = todo[i]
    <3>1. <<y>> \in Seq({y}) /\ t \in Seq(J) /\ Len(<<y>>) = 1 /\ <<y>>[1] = y
      BY <1>2
    <3>2. Len(u) = 1 + Len(t) /\ u[1] = y /\ \A i \in 2 .. 1 + Len(t) : u[i] = t[i - 1]
      BY <3>1
    <3> HIDE DEF u
    <3>3. 1 + Len(t) = n /\ \A i \in 2 .. n : i - 1 \in 1 .. n - 1 /\ (i - 1) + 1 = i
      BY <1>2
    <3> QED BY <1>2, <3>2, <3>3
  <2> HIDE DEF u
  <2>2. \A i \in 1 .. n : i = 1 \/ i \in 2 .. n
    BY <1>2
  <2>3. ASSUME NEW i \in 1 .. n, u[i].path = "heartbeat", u[i].calls # Removal
        PROVE  /\ i = n /\ u[i].rec.post <= globals.post
               /\ MainReached(u[i].rec) => globals.main
    <3>1. 1 \in 1 .. n
      BY <1>2
    <3>2. CASE i = 1
      BY <1>2, <1>3, <1>6, <2>1, <2>3, <3>1, <3>2
    <3>3. CASE i \in 2 .. n
      BY <1>3, <2>1, <2>3, <3>3
    <3> QED BY <2>2, <3>2, <3>3
  <2>4. todo' = u
    BY <1>6 DEF u
  <2> QED BY <1>4, <2>1, <2>3, <2>4 DEF BeatsLast, MainReached
<1>7. ASSUME NEW y, next = <<y>>, y.path = "fallback"
      PROVE  BeatsLast'
  BY <1>7 DEF BeatsLast
<1> QED BY <1>5, <1>6, <1>7 DEF t

LEMMA SuccessTells ==
  ASSUME IInv, Told, CallSucceeds
  PROVE  Told'
<1>1. /\ todo # <<>> /\ Orderly(todo, boot) /\ todo' = AfterCall /\ noted' = noted
      /\ Head(todo) \in Jobs(boot)
  BY Behind DEF CallSucceeds, IInv, Left
<1>2. globals'.main = globals.main /\ globals'.post = globals.post
  <2> DEFINE starts == Head(todo).calls \in TraceWholes
  <2>1. globals' = IF starts THEN [globals EXCEPT !.entries = @ + 1] ELSE globals
    BY Effect DEF Made, IInv
  <2>2. globals \in [reset : BOOLEAN, main : BOOLEAN, recorded : BOOLEAN, beaten : BOOLEAN,
                     count : Nat, post : Nat, entries : 0 .. MaxEntries]
    BY DEF IInv, Types
  <2> HIDE DEF starts
  <2> QED BY <2>1, <2>2
<1>3. \/ todo' = Tail(todo)
      \/ \E y : /\ todo' = <<y>> \o Tail(todo) /\ y.path = Head(todo).path
                /\ y.rec = Head(todo).rec /\ Head(todo).calls # Removal
  <2> DEFINE y == Job(Head(todo).path, Tail(Head(todo).calls), Head(todo).rec)
  <2>1. CASE Len(Head(todo).calls) > 1
    <3>1. todo' = <<y>> \o Tail(todo)
      BY <1>1, <2>1 DEF AfterCall, If
    <3>2. y.path = Head(todo).path /\ y.rec = Head(todo).rec /\ Head(todo).calls # Removal
      BY <1>1, <2>1, AdvancedJob DEF Job
    <3> HIDE DEF y
    <3> QED BY <3>1, <3>2
  <2>2. CASE ~(Len(Head(todo).calls) > 1)
    BY <1>1, <2>2, AfterOneCall
  <2> QED BY <2>1, <2>2
<1>4. BeatsLast'
  BY <1>1, <1>2, <1>3, BeatsLastLasts DEF Told
<1>5. LastNoted'
  BY <1>1, <1>2 DEF Told, LastNoted
<1> QED BY <1>4, <1>5, ContentsLast, VouchingLasts DEF Told

LEMMA ConfirmedStays ==
  ASSUME NEW r, Confirmed(r), boot' = boot, Failed \subseteq Failed',
         globals.main => globals'.main, globals.post # 0 => globals'.post # 0,
         r.post > 0 => Head(noted'["first"]) = Head(noted["first"]),
         \A p \in {"main", "first", "last", "trace"} :
           files'[p].kept \subseteq files[p].kept /\ files'[p].kept # {},
         MainReached(r) => NoJob("main")', r.post > 0 => NoJob("first")'
  PROVE  Confirmed(r)'
<1>1. Vouched(r)'
  <2>1. Vouched(r)
    BY DEF Confirmed
  <2> QED BY <2>1, StillVouched
<1>2. MainReached(r)' <=> MainReached(r)
  BY DEF MainReached
<1> QED BY <1>1, <1>2 DEF Confirmed

\* Nothing but what is on the card and left to do is read of it.
LEMMA VouchingStays ==
  ASSUME IInv, Vouching, boot' = boot, Failed \subseteq Failed',
         globals' = globals, noted' = noted,
         \A p \in Paths : files'[p].kept \subseteq files[p].kept /\ files'[p].kept # {},
         \A p \in {"main", "first"} : NoJob(p) => NoJob(p)'
  PROVE  Vouching'
<1>1. {"heartbeat", "main", "first", "last", "trace"} \subseteq Paths
  BY FilesArePaths DEF Rewritten
<1>2. ASSUME NEW h \in files'["heartbeat"].kept, h # <<>>, h[1].boot = boot'
      PROVE  Confirmed(h[1])'
  <2> DEFINE r == h[1]
  <2>1. Confirmed(r)
    BY <1>1, <1>2 DEF Vouching
  <2>2. MainReached(r) => NoJob("main")'
    BY <2>1 DEF Confirmed
  <2>3. r.post > 0 => NoJob("first")'
    BY <2>1 DEF Confirmed
  <2> HIDE DEF r
  <2>4. Confirmed(r)'
    BY <1>1, <2>1, <2>2, <2>3, ConfirmedStays
  <2> QED BY <2>4 DEF r
<1> QED BY <1>2 DEF Vouching

LEMMA FailureTells ==
  ASSUME IInv, Told, CallFails
  PROVE  Told'
<1> DEFINE job == Head(todo)
           rest == Tail(todo)
<1>1. /\ todo # <<>> /\ todo' = AfterFailure /\ Orderly(todo, boot) /\ Types
      /\ failures' = failures \cup {<<boot, job.path>>}
      /\ UNCHANGED <<files, globals, boot, noted>>
  BY DEF CallFails, IInv, Left
<1>2. /\ job \in Jobs(boot) /\ Orderly(rest, boot) /\ Range(todo) = {job} \cup Range(rest)
      /\ \A x \in Range(rest) : x.calls \in Wholes \cup {Removal}
      /\ job.path \in Marks => rest = <<>>
      /\ rest # <<>> => Head(rest) \in Range(rest)
  <2>1. /\ job \in Jobs(boot) /\ Orderly(rest, boot) /\ Range(todo) = {job} \cup Range(rest)
        /\ \A x \in Range(rest) : x.calls \in Wholes \cup {Removal}
        /\ job.path \in Marks => rest = <<>>
    BY <1>1, Behind
  <2> QED BY <2>1, Behind
<1>3. /\ \A x \in Range(todo') : x \in Range(rest) \/ x.path \in {"fallback", job.path}
  BY <1>1, AfterFailedCall
<1>4. rest \in Seq(Jobs(boot)) /\ <<>> \o rest = rest
  BY <1>2 DEF Orderly
<1>5. \/ todo' = rest
      \/ \E y : /\ todo' = <<y>> \o rest /\ y.path = job.path
                /\ y.rec = job.rec /\ job.calls # Removal /\ y.calls = Sync /\ Head(todo') = y
      \/ \E y : todo' = <<y>> /\ y.path = "fallback" /\ y.calls = MarkWhole
  <2>1. CASE Head(job.calls) \in {"truncate", "append"} /\ job.path = "progress"
    <3> DEFINE y == Progress("fallback", job.rec)
    <3>1. todo' = <<y>> \o rest /\ rest = <<>>
      BY <1>1, <1>2, <2>1 DEF AfterFailure, If, Marks
    <3>2. y.path = "fallback" /\ y.calls = MarkWhole
      BY DEF Progress, Job, MarkWhole
    <3> HIDE DEF y
    <3>3. <<y>> \o <<>> = <<y>>
      OBVIOUS
    <3> QED BY <3>1, <3>2, <3>3
  <2>2. CASE Head(job.calls) \in {"truncate", "append"} /\ job.path # "progress"
    <3>1. todo' = <<>> \o rest
      BY <1>1, <2>2 DEF AfterFailure, If
    <3> QED BY <1>4, <3>1
  <2>3. CASE Head(job.calls) \notin {"truncate", "append"} /\ ~(Len(job.calls) > 1)
    BY <1>1, <1>4, <2>3 DEF AfterFailure, AfterCall, If
  <2>4. CASE Head(job.calls) \notin {"truncate", "append"} /\ Len(job.calls) > 1
    <3> DEFINE y == Job(job.path, Tail(job.calls), job.rec)
    <3>1. todo' = <<y>> \o rest
      BY <1>1, <2>4 DEF AfterFailure, AfterCall, If
    <3>2. job.calls # Removal /\ y.path = job.path /\ y.rec = job.rec /\ y.calls = Tail(job.calls)
      BY <1>2, <2>4, AdvancedJob DEF Job
    <3>3. job.calls = WriteSync
      <4>1. job.calls \in {RewriteWhole, MarkWhole, Write, WriteSync, Sync} \cup TraceWholes
        BY <1>2, <3>2 DEF Jobs, TraceRests, RewriteRests
      <4>2. job.calls \in {RewriteWhole, MarkWhole} \cup TraceWholes =>
              Head(job.calls) \in {"truncate", "append"}
        BY CallByCall DEF TraceWholes
      <4> QED BY <2>4, <4>1, <4>2, CallByCall
    <3>4. y.calls = Sync
      BY <3>2, <3>3, CallByCall
    <3>5. Head(<<y>> \o rest) = y
      <4> HIDE DEF y, rest
      <4>1. <<y>> \in Seq({y}) /\ rest \in Seq(Jobs(boot))
        BY <1>4
      <4>2. Len(<<y>> \o rest) = Len(<<y>>) + Len(rest) /\ (<<y>> \o rest)[1] = y
        BY <4>1
      <4> QED BY <4>2
    <3> HIDE DEF y
    <3> QED BY <3>1, <3>2, <3>4, <3>5
  <2> QED BY <2>1, <2>2, <2>3, <2>4
<1>6. Failed \subseteq Failed'
  BY <1>1 DEF Failed
<1>7. \A p \in {"main", "first"} : NoJob(p) => NoJob(p)'
  BY <1>2, <1>3 DEF NoJob
<1> HIDE DEF job, rest
<1>8. Emptied'
  <2>1. \A calls \in Wholes \cup {Removal, Sync} : calls \notin {Write, WriteSync}
    BY ShapesOfCalls DEF TraceRests
  <2>2. CASE todo' = rest
    BY <1>2, <2>1, <2>2 DEF Emptied
  <2>3. ASSUME NEW y, Head(todo') = y, y.calls = Sync PROVE Emptied'
    BY <2>1, <2>3 DEF Emptied
  <2>4. ASSUME NEW y, todo' = <<y>>, y.calls = MarkWhole PROVE Emptied'
    <3>1. Head(todo') = y
      BY <2>4
    <3> QED BY <2>1, <2>4, <3>1 DEF Emptied, Wholes
  <2> QED BY <1>5, <2>2, <2>3, <2>4
<1>9. OneRecord'
  BY <1>1 DEF Told, OneRecord
<1>10. TraceOfOneBoot'
  <2>1. NeverFailed("trace")' => NeverFailed("trace")
    BY <1>1 DEF NeverFailed
  <2> QED BY <1>1, <2>1 DEF Told, TraceOfOneBoot, OfOneBoot
<1>11. BeatsLast'
  <2>1. \/ todo' = rest
        \/ \E y : /\ todo' = <<y>> \o rest /\ y.path = job.path
                  /\ y.rec = job.rec /\ job.calls # Removal
        \/ \E y : todo' = <<y>> /\ y.path = "fallback"
    BY <1>5
  <2>2. globals'.main = globals.main /\ globals'.post = globals.post /\ BeatsLast
    BY <1>1 DEF Told
  <2> QED BY <1>1, <2>1, <2>2, BeatsLastLasts DEF job, rest
<1>12. LastNoted'
  BY <1>1 DEF Told, LastNoted
<1>13. Vouching'
  <2>1. \A p \in Paths : files'[p].kept \subseteq files[p].kept /\ files'[p].kept # {}
    BY <1>1 DEF Types
  <2> QED BY <1>1, <1>6, <1>7, <2>1, VouchingStays DEF Told
<1> QED BY <1>8, <1>9, <1>10, <1>11, <1>12, <1>13 DEF Told

\* A report or the progress file, alone.
LEMMA ReportsTell ==
  ASSUME IInv, Told, ReportUnsupported \/ LibnxException \/ StartReturns
  PROVE  Told'
<1>1. /\ todo = <<>> /\ Types /\ UNCHANGED <<files, globals, boot, failures, noted>>
  BY DEF IInv, ReportUnsupported, LibnxException, StartReturns
<1>2. PICK x : /\ todo' = <<x>> /\ x.path \in {"blocker", "exception", "progress"}
               /\ x.calls \in {RewriteWhole, MarkWhole}
  <2>1. \A p, r : /\ Rewrite(p, r).path = p /\ Rewrite(p, r).calls = RewriteWhole
                  /\ Progress(p, r).path = p /\ Progress(p, r).calls = MarkWhole
    BY RewriteIsJob DEF Progress, Job, MarkWhole
  <2>2. CASE ReportUnsupported
    BY <2>1, <2>2 DEF ReportUnsupported
  <2>3. CASE LibnxException
    BY <2>1, <2>3 DEF LibnxException
  <2>4. CASE StartReturns
    BY <2>1, <2>4 DEF StartReturns
  <2> QED BY <2>2, <2>3, <2>4
<1>3. Head(todo') = x /\ Len(todo') = 1 /\ todo'[1] = x /\ Range(todo') = {x}
  BY <1>2 DEF Range
<1>4. Emptied'
  <2>1. x.calls \notin {Write, WriteSync}
    BY <1>2, ShapesOfCalls DEF Wholes, TraceRests
  <2> QED BY <1>3, <2>1 DEF Emptied
<1>5. OneRecord' /\ TraceOfOneBoot' /\ LastNoted'
  BY <1>1 DEF Told, OneRecord, TraceOfOneBoot, NeverFailed, OfOneBoot, LastNoted
<1>6. BeatsLast'
  BY <1>2, <1>3 DEF BeatsLast
<1>7. Vouching'
  <2>1. \A p \in {"main", "first"} : NoJob(p) => NoJob(p)'
    BY <1>2, <1>3 DEF NoJob
  <2>2. \A p \in Paths : files'[p].kept \subseteq files[p].kept /\ files'[p].kept # {}
    BY <1>1 DEF Types
  <2> QED BY <1>1, <2>1, <2>2, VouchingStays DEF Told, Failed
<1> QED BY <1>4, <1>5, <1>6, <1>7 DEF Told

\* No heartbeat is of the boot that begins.
LEMMA BootTells ==
  ASSUME IInv, Told, Boot
  PROVE  Told'
<1>1. /\ boot' = boot + 1 /\ globals' = FreshGlobals /\ noted' = NothingNoted
      /\ UNCHANGED <<files, failures>> /\ Types /\ Old /\ boot \in Nat
      /\ todo' = <<Progress("progress", [boot |-> boot + 1, state |-> "entering"])>>
  BY DEF Boot, IInv, Types
<1> DEFINE x == Progress("progress", [boot |-> boot + 1, state |-> "entering"])
<1>2. x.path = "progress" /\ x.calls = MarkWhole
  BY DEF Progress, Job, MarkWhole
<1> HIDE DEF x
<1>3. Head(todo') = x /\ Len(todo') = 1 /\ todo'[1] = x
  BY <1>1 DEF x
<1>4. Emptied'
  <2>1. x.calls \notin {Write, WriteSync}
    BY <1>2, ShapesOfCalls DEF Wholes, TraceRests
  <2> QED BY <1>3, <2>1 DEF Emptied
<1>5. OneRecord'
  BY <1>1 DEF Told, OneRecord
<1>6. TraceOfOneBoot'
  <2>1. NeverFailed("trace")' => NeverFailed("trace")
    <3>1. \A b \in 1 .. boot : b \in 1 .. boot'
      BY <1>1
    <3> QED BY <1>1, <3>1 DEF NeverFailed
  <2> QED BY <1>1, <2>1 DEF Told, TraceOfOneBoot, OfOneBoot
<1>7. BeatsLast'
  BY <1>2, <1>3 DEF BeatsLast
<1>8. LastNoted'
  BY <1>1 DEF LastNoted, FreshGlobals
<1>9. Vouching'
  <2>1. SUFFICES ASSUME NEW h \in files["heartbeat"].kept, h # <<>>, h[1].boot = boot + 1
                 PROVE  FALSE
    BY <1>1 DEF Vouching
  <2>2. h[1].boot <= boot
    BY <1>1, <2>1, FilesArePaths DEF Old, Rewritten
  <2> QED BY <1>1, <2>1, <2>2
<1> QED BY <1>4, <1>5, <1>6, <1>7, <1>8, <1>9 DEF Told

LEMMA EndTells ==
  ASSUME IInv, Told, Aborts \/ Closed \/ PowerLost
  PROVE  Told'
<1>1. /\ todo' = <<>> /\ UNCHANGED <<globals, boot, failures, noted>> /\ Types
  BY DEF Aborts, Closed, PowerLost, IInv
<1>2. \A p \in Paths : files'[p].kept \subseteq files[p].kept /\ files'[p].kept # {}
  <2>1. CASE Aborts \/ Closed
    BY <1>1, <2>1 DEF Aborts, Closed, Types
  <2>2. CASE PowerLost
    <3>1. PICK card \in Survivals :
            files' = [p \in Paths |-> [now |-> card[p], kept |-> {card[p]}]]
      BY <2>2 DEF PowerLost
    <3>2. ASSUME NEW p \in Paths PROVE card[p] \in files[p].kept
      <4>1. p \in {"blocker", "exception", "heartbeat", "main", "first", "last", "trace",
                   "progress", "fallback"}
        BY <3>2, FilesArePaths DEF Rewritten, Marks
      <4> QED BY <3>1, <4>1 DEF Survivals
    <3> QED BY <3>1, <3>2
  <2> QED BY <2>1, <2>2
<1>3. Emptied' /\ BeatsLast' /\ LastNoted'
  BY <1>1 DEF Told, Emptied, BeatsLast, LastNoted
<1>4. OneRecord' /\ TraceOfOneBoot'
  <2>1. "trace" \in Paths
    BY FilesArePaths
  <2> QED BY <1>1, <1>2, <2>1 DEF Told, OneRecord, TraceOfOneBoot, NeverFailed, OfOneBoot
<1>5. Vouching'
  <2>1. \A p \in {"main", "first"} : NoJob(p)'
    <3>1. Range(todo') = {}
      BY <1>1 DEF Range
    <3> QED BY <3>1 DEF NoJob
  <2> QED BY <1>1, <1>2, <2>1, VouchingStays DEF Told, Failed
<1> QED BY <1>3, <1>4, <1>5 DEF Told

LEMMA NoteTells ==
  ASSUME IInv, Told, NEW target \in Targets, NoteTranslatedDispatch(target)
  PROVE  Told'
<1>1. PICK post, r, line, heartbeat : Dispatch(target, post, r, line, heartbeat)
  BY ADispatch
<1>2. /\ process = "guest" /\ todo = <<>> /\ UNCHANGED <<files, boot, failures>>
      /\ Orderly(todo', boot) /\ r \in Records
      /\ post <=> globals.main /\ target # "main"
      /\ globals'.main <=> globals.main \/ target = "main"
      /\ globals'.post = IF post THEN globals.post + 1 ELSE globals.post
      /\ r.post = globals'.post /\ r.target = target /\ r.post \in Nat
      /\ heartbeat => Ends(todo', Rewrite("heartbeat", r))
  BY <1>1 DEF Dispatch, Records
<1>3. /\ Agreement /\ Types /\ globals.post \in Nat
      /\ ~globals.reset => globals = FreshGlobals
  BY <1>2, BeforeADispatch DEF Types
<1>4. /\ globals.reset => \A x \in Range(todo') : x.calls # Removal
      /\ \A x \in Range(todo') : x.calls # Removal =>
           /\ x.rec = r
           /\ x.path = "main" => ~globals.main
           /\ x.path = "first" => ~globals.recorded
           /\ x.path = "heartbeat" => heartbeat
  BY <1>1, DispatchJobs
<1>5. Emptied'
  <2>1. \A x \in Range(todo') : x.calls \in {Removal, RewriteWhole} \cup TraceWholes
    <3>1. /\ \A p : Rewrite(p, r).calls = RewriteWhole /\ Job(p, Removal, <<>>).calls = Removal
          /\ line.calls \in TraceWholes
      BY <1>1, RewriteIsJob DEF Job, Dispatch
    <3> QED BY <1>1, <3>1 DEF Dispatch
  <2>2. todo' # <<>> => Head(todo') \in Range(todo')
    BY <1>2, Behind
  <2>3. \A calls \in {Removal, RewriteWhole} \cup TraceWholes : calls \notin {Write, WriteSync}
    BY ShapesOfCalls DEF Wholes, TraceRests
  <2> QED BY <2>1, <2>2, <2>3 DEF Emptied
<1>6. OneRecord' /\ TraceOfOneBoot'
  BY <1>2 DEF Told, OneRecord, TraceOfOneBoot, NeverFailed, OfOneBoot
<1>7. BeatsLast'
  <2>1. todo' \in Seq(Jobs(boot)) /\ Len(todo') \in Nat
    BY <1>2 DEF Orderly
  <2>2. ASSUME NEW i \in 1 .. Len(todo'), todo'[i].path = "heartbeat", todo'[i].calls # Removal
        PROVE  /\ i = Len(todo') /\ todo'[i].rec.post <= globals'.post
               /\ MainReached(todo'[i].rec) => globals'.main
    <3>1. todo'[i] \in Range(todo')
      BY <2>1, InRange
    <3>2. todo'[i].rec = r /\ heartbeat
      BY <1>4, <2>2, <3>1
    <3>3. todo'[Len(todo')].path = "heartbeat" /\ Len(todo') \in 1 .. Len(todo')
      BY <1>2, <2>1, <3>2, RewriteIsJob DEF Ends, Job
    <3>4. ~(i < Len(todo'))
      BY <1>2, <2>2, <3>3 DEF Orderly
    <3>5. i = Len(todo')
      BY <2>1, <3>4
    <3>6. Agreement'
      BY <1>1, <1>3, DispatchAgrees
    <3>7. r.post > 0 => globals'.post # 0
      BY <1>2
    <3>8. MainReached(r) => globals'.main
      BY <1>2, <3>6, <3>7 DEF Agreement, MainReached
    <3>9. r.post <= globals'.post
      BY <1>2
    <3> QED BY <3>2, <3>5, <3>8, <3>9
  <2> QED BY <2>2 DEF BeatsLast, MainReached
<1>8. \A p \in {"first", "last"} :
        /\ noted'[p] = IF post /\ Noteworthy(p, r) THEN Append(noted[p], r) ELSE noted[p]
        /\ noted[p] \in Seq(Records) /\ Append(noted[p], r) # <<>>
        /\ noted[p] # <<>> => Head(Append(noted[p], r)) = Head(noted[p])
  <2>1. ASSUME NEW p \in {"first", "last"}
        PROVE  /\ noted[p] \in Seq(Records) /\ Append(noted[p], r) # <<>>
               /\ noted[p] # <<>> => Head(Append(noted[p], r)) = Head(noted[p])
    <3>1. noted[p] \in Seq(Records)
      BY <1>3, <2>1 DEF Types
    <3> DEFINE s == noted[p]
    <3>2. s \in Seq(Records) /\ r \in Records
      BY <1>2, <3>1
    <3> HIDE DEF s
    <3>3. /\ Len(Append(s, r)) = Len(s) + 1 /\ Len(s) \in Nat
          /\ \A i \in 1 .. Len(s) : Append(s, r)[i] = s[i]
      BY ONLY <3>2, AppendProperties
    <3>4. Append(s, r) # <<>>
      BY <3>3
    <3>5. s # <<>> => Head(Append(s, r)) = Head(s)
      BY <3>2, <3>3
    <3> QED BY <3>1, <3>4, <3>5 DEF s
  <2>2. \A p \in {"first", "last"} :
          noted'[p] = IF post /\ Noteworthy(p, r) THEN Append(noted[p], r) ELSE noted[p]
    BY <1>1 DEF Dispatch
  <2> QED BY <2>1, <2>2
<1>9. LastNoted'
  <2>1. CASE globals.post # 0
    BY <1>8, <2>1 DEF Told, LastNoted
  <2>2. CASE globals.post = 0 /\ post
    <3>1. r.post <= Early
      BY <1>2, <2>2, DiagnosticsAssumption
    <3> QED BY <1>8, <2>2, <3>1 DEF LastNoted, Noteworthy
  <2>3. CASE globals.post = 0 /\ ~post
    BY <1>2, <2>3 DEF LastNoted
  <2> QED BY <2>1, <2>2, <2>3
<1>10. Vouching'
  <2>1. ASSUME NEW h \in files["heartbeat"].kept, h # <<>>, h[1].boot = boot
        PROVE  Confirmed(h[1])'
    <3> DEFINE e == h[1]
    <3>1. Confirmed(e)
      BY <2>1 DEF Told, Vouching
    <3> HIDE DEF e
    <3>2. MainReached(e) => NoJob("main")'
      <4>1. MainReached(e) => globals.main /\ globals.reset
        BY <1>3, <3>1 DEF Confirmed, FreshGlobals
      <4> QED BY <1>4, <4>1 DEF NoJob
    <3>3. e.post > 0 => globals.post # 0 /\ noted["first"] # <<>> /\ globals.recorded /\ globals.reset
      BY <1>3, <3>1 DEF Confirmed, Agreement, FreshGlobals
    <3>4. e.post > 0 => NoJob("first")'
      BY <1>4, <3>3 DEF NoJob
    <3>5. e.post > 0 => Head(noted'["first"]) = Head(noted["first"])
      BY <1>8, <3>3
    <3>6. \A p \in {"main", "first", "last", "trace"} :
            files'[p].kept \subseteq files[p].kept /\ files'[p].kept # {}
      <4>1. {"main", "first", "last", "trace"} \subseteq Paths
        BY FilesArePaths DEF Rewritten
      <4> QED BY <1>2, <1>3, <4>1 DEF Types
    <3>7. (globals.main => globals'.main) /\ (globals.post # 0 => globals'.post # 0)
      BY <1>2, <1>3
    <3>8. Failed' = Failed
      BY <1>2 DEF Failed
    <3>9. Confirmed(e)'
      BY <1>2, <3>1, <3>2, <3>4, <3>5, <3>6, <3>7, <3>8, ConfirmedStays
    <3> QED BY <3>9 DEF e
  <2> QED BY <1>2, <2>1 DEF Vouching
<1> QED BY <1>5, <1>6, <1>7, <1>9, <1>10 DEF Told

LEMMA StartsTelling == Init => Told
<1> SUFFICES ASSUME Init PROVE Told
  OBVIOUS
<1>1. /\ files = [p \in Paths |-> [now |-> <<>>, kept |-> {<<>>}]]
      /\ globals = FreshGlobals /\ todo = <<>>
  BY DEF Init
<1>2. Emptied /\ BeatsLast /\ LastNoted
  BY <1>1 DEF Emptied, BeatsLast, LastNoted, FreshGlobals
<1>3. \A p \in Paths : files[p].kept = {<<>>}
  BY <1>1
<1>4. OneRecord /\ TraceOfOneBoot /\ Vouching
  BY <1>3, FilesArePaths DEF OneRecord, TraceOfOneBoot, OfOneBoot, Vouching, Rewritten
<1> QED BY <1>2, <1>4 DEF Told

LEMMA StepTells == IInv /\ Told /\ [Next]_vars => Told'
<1> SUFFICES ASSUME IInv, Told, [Next]_vars PROVE Told'
  OBVIOUS
<1>1. CASE CallSucceeds
  BY <1>1, SuccessTells
<1>2. CASE CallFails
  BY <1>2, FailureTells
<1>3. CASE \E target \in Targets : NoteTranslatedDispatch(target)
  BY <1>3, NoteTells
<1>4. CASE ReportUnsupported \/ LibnxException \/ StartReturns
  BY <1>4, ReportsTell
<1>5. CASE Boot
  BY <1>5, BootTells
<1>6. CASE Aborts \/ Closed \/ PowerLost
  BY <1>6, EndTells
<1>7. CASE UNCHANGED vars
  <2>1. UNCHANGED <<files, globals, todo, process, boot, failures, noted>>
    BY <1>7 DEF vars
  <2>2. Emptied' /\ OneRecord' /\ TraceOfOneBoot' /\ BeatsLast' /\ LastNoted'
    BY <2>1 DEF Told, Emptied, OneRecord, TraceOfOneBoot, NeverFailed, OfOneBoot, BeatsLast,
                MainReached, LastNoted
  <2>3. Vouching'
    <3>1. \A p \in {"main", "first"} : NoJob(p) => NoJob(p)'
      BY <2>1 DEF NoJob
    <3>2. \A p \in Paths : files'[p].kept \subseteq files[p].kept /\ files'[p].kept # {}
      BY <2>1 DEF IInv, Types
    <3> QED BY <2>1, <3>1, <3>2, VouchingStays DEF Told, Failed
  <2> QED BY <2>2, <2>3 DEF Told
<1> QED BY <1>1, <1>2, <1>3, <1>4, <1>5, <1>6, <1>7 DEF Next

LEMMA Telling == Spec => [](IInv /\ Told)
<1>1. Init => IInv /\ Told
  BY Starts, StartsTelling
<1>2. (IInv /\ Told) /\ [Next]_vars => (IInv /\ Told)'
  BY StepKeeps, StepTells
<1> QED BY <1>1, <1>2, PTL DEF Spec

LEMMA CardTellsOneRunFollows == IInv /\ Told => CardTellsOneRun
<1> SUFFICES ASSUME IInv, Told PROVE CardTellsOneRun
  OBVIOUS
<1>1. ASSUME NEW p \in Range(LivenessFiles), NeverFailed(p), NEW c \in files[p].kept
      PROVE  OfOneBoot(c)
  <2>1. CASE p = "trace"
    BY <1>1, <2>1 DEF Told, TraceOfOneBoot
  <2>2. CASE p # "trace"
    <3>1. Len(c) \in 0 .. 1 /\ c \in Seq(AllRecords)
      BY <1>1, <2>2, FilesArePaths DEF Told, OneRecord, IInv, Types
    <3>2. \A i \in DOMAIN c : i = 1
      <4> HIDE DEF AllRecords
      <4> QED BY <3>1
    <3> QED BY <3>2 DEF OfOneBoot
  <2> QED BY <2>1, <2>2
<1>2. \A h \in files["heartbeat"].kept : h # <<>> /\ h[1].boot = boot => Vouched(h[1])
  BY DEF Told, Vouching, Confirmed
<1>3. ASSUME Running, globals.reset, ~Unlinking,
             NEW p \in Range(LivenessFiles) \ Failed, NEW i \in DOMAIN files[p].now
      PROVE  files[p].now[i].boot = boot
  <2>1. FileFresh(p) /\ Orderly(todo, boot)
    BY <1>3 DEF IInv, FilesKept, Left
  <2>2. \A x \in Range(todo) : x.calls # Removal
    <3>1. todo \in Seq(Jobs(boot))
      BY <2>1 DEF Orderly
    <3> QED BY <1>3, <3>1 DEF Unlinking, Removal, Range
  <2>3. files[p].now \in Seq(RecordsOf(boot))
    BY <2>1, <2>2 DEF FileFresh, ToRemove
  <2>4. files[p].now[i] \in RecordsOf(boot)
    BY <1>3, <2>3
  <2> QED BY <2>4 DEF RecordsOf
<1> QED BY <1>1, <1>2, <1>3 DEF CardTellsOneRun

LEMMA RecordsSurviveFollows == IInv => RecordsSurvive
<1> SUFFICES ASSUME IInv PROVE RecordsSurvive
  OBVIOUS
<1>1. Types
  BY DEF IInv
<1>2. TypeOK
  <2>1. ASSUME NEW p \in DOMAIN noted PROVE Range(noted[p]) \subseteq Records
    <3>1. noted[p] \in Seq(Records)
      BY <1>1 DEF Types
    <3> QED BY <3>1, InRange
  <2> QED BY <1>1, <2>1 DEF TypeOK, Types
<1>3. ASSUME Running, todo = <<>>
      PROVE  /\ noted["first"] # <<>> =>
                  "first" \in Failed \/ files["first"].kept = {<<Head(noted["first"])>>}
             /\ noted["last"] # <<>> =>
                  "last" \in Failed \/ files["last"].kept = {<<Last(noted["last"])>>}
             /\ globals.main /\ "main" \notin Failed =>
                  \E r \in Records : /\ files["main"].kept = {<<r>>}
                                     /\ r.boot = boot /\ r.target = "main" /\ r.post = 0
             /\ globals.reset /\ "heartbeat" \notin Failed =>
                  \A p \in {"main", "first"} :
                    \A h \in files["heartbeat"].kept, c \in files[p].kept :
                      h # <<>> /\ (c = <<>> \/ c[1].boot < boot \/ c[1].count <= h[1].count)
  <2>1. ~globals.reset => noted = NothingNoted /\ ~globals.main
    BY <1>3 DEF IInv, Unused, FreshGlobals
  <2>2. \A p \in {"first", "last"} : noted[p] # <<>> => globals.reset
    BY <2>1 DEF NothingNoted
  <2>3. \A p, r : Will(p, r) => files[p].kept = {<<r>>}
    <3>1. ASSUME NEW p, NEW r, Will(p, r) PROVE files[p].kept = {<<r>>}
      <4>1. files[p] = [now |-> <<r>>, kept |-> {<<r>>}]
        BY <1>3, <3>1, NothingLeft
      <4> QED BY <4>1
    <3> QED BY <3>1
  <2>4. globals.reset => FilesKept
    BY <1>3 DEF IInv
  <2>5. ASSUME globals.reset, "heartbeat" \notin Failed, NEW p \in {"main", "first"},
               NEW h \in files["heartbeat"].kept, NEW c \in files[p].kept
        PROVE  h # <<>> /\ (c = <<>> \/ c[1].boot < boot \/ c[1].count <= h[1].count)
    <3>1. PICK r \in Records : /\ Will("heartbeat", r)
                               /\ NoLater("main", r.count) /\ NoLater("first", r.count)
      BY <2>4, <2>5 DEF FilesKept, HeartbeatKept
    <3>2. h = <<r>>
      BY <2>3, <2>5, <3>1
    <3>3. h # <<>> /\ h[1] = r
      BY <3>2
    <3>4. c = <<>> \/ c[1].boot < boot \/ c[1].count \in 0 .. r.count
      BY <2>5, <3>1 DEF NoLater
    <3>5. r.count \in Nat
      BY DEF Records
    <3> QED BY <3>3, <3>4, <3>5
  <2>6. MilestonesKept \/ ~globals.reset
    BY <2>4 DEF FilesKept
  <2>7. globals.main /\ "main" \notin Failed =>
          \E r \in Records : /\ files["main"].kept = {<<r>>}
                             /\ r.boot = boot /\ r.target = "main" /\ r.post = 0
    BY <2>1, <2>3, <2>6 DEF MilestonesKept
  <2>8. /\ noted["first"] # <<>> => "first" \in Failed \/ files["first"].kept = {<<Head(noted["first"])>>}
        /\ noted["last"] # <<>> => "last" \in Failed \/ files["last"].kept = {<<Last(noted["last"])>>}
    BY <2>2, <2>3, <2>6 DEF MilestonesKept
  <2> QED BY <2>5, <2>7, <2>8
<1> QED BY <1>2, <1>3 DEF RecordsSurvive

LEMMA Multiples ==
  ASSUME NEW s \in Nat \ {0}, NEW q \in Nat
  PROVE  (s * q) % s = 0
OBVIOUS

\* Fewer than one stride of lines follow the last one the code waited for.
LEMMA WithinAStride ==
  ASSUME NEW n \in Nat
  PROVE  /\ n % Stride \in 0 .. Stride - 1 /\ n - (n % Stride) \in Nat
         /\ (n - (n % Stride)) % Stride = 0
<1> DEFINE q == n \div Stride
<1>1. Stride \in Nat \ {0} /\ q \in Nat /\ n = Stride * q + (n % Stride)
  BY DiagnosticsAssumption
<1>2. n % Stride \in 0 .. Stride - 1 /\ n - (n % Stride) \in Nat
  BY DiagnosticsAssumption
<1>3. n - (n % Stride) = Stride * q
  BY ONLY <1>1, <1>2
<1> HIDE DEF q
<1>4. (Stride * q) % Stride = 0
  BY ONLY <1>1, Multiples
<1> QED BY <1>2, <1>3, <1>4

LEMMA TraceSurvivesFollows == IInv => TraceSurvives
<1> SUFFICES ASSUME IInv, Running, todo = <<>>, globals.reset, "trace" \notin Failed
             PROVE  /\ files["trace"].now = ExpectedTrace
                    /\ noted["first"] # <<>> =>
                       \A c \in files["trace"].kept :
                         /\ IsPrefix(c, ExpectedTrace)
                         /\ Len(ExpectedTrace) - Len(c) < Stride
                         /\ \A i \in DOMAIN ExpectedTrace :
                              i = 1 \/ ExpectedTrace[i].target = "phase" => i <= Len(c)
  BY DEF TraceSurvives
<1>1. Types /\ History /\ TraceDone
  BY NothingLeft DEF IInv, FilesKept
<1> DEFINE T == ExpectedTrace
           all == noted["trace"]
<1>2. /\ files["trace"].now = T
      /\ T # <<>> => \A c \in files["trace"].kept : Outlives(c, T)
  BY <1>1 DEF TraceDone, Lasting
<1>3. /\ all \in Seq(Records) /\ T \in Seq(Records)
      /\ Len(T) = IF Len(all) < MaxEntries THEN Len(all) ELSE MaxEntries
      /\ \A i \in 1 .. Len(T) : T[i] = all[i]
  BY <1>1, ExpectedIsTrace
<1>4. ASSUME noted["first"] # <<>>, NEW c \in files["trace"].kept
      PROVE  /\ IsPrefix(c, T)
             /\ Len(T) - Len(c) < Stride
             /\ \A i \in DOMAIN T : i = 1 \/ T[i].target = "phase" => i <= Len(c)
  <2>1. /\ globals.post # 0 /\ globals.post \in Nat
        /\ globals.post <= Dense => Len(all) = globals.post
        /\ globals.post > Dense => Len(all) >= Dense
        /\ \A i \in 1 .. Len(all) : i > Dense => all[i].target = "phase"
    BY <1>1, <1>4 DEF History, Agreement, Types, NothingNoted
  <2>2. Early \in Nat /\ Dense \in Nat /\ MaxEntries \in Nat /\ Early < Dense /\ Dense < MaxEntries
        /\ Stride \in Nat \ {0}
    BY DiagnosticsAssumption
  <2> HIDE DEF T, all
  <2>3. Len(all) \in Nat /\ Len(T) \in Nat
    BY <1>3
  <2>4. Len(all) # 0 /\ Len(T) # 0
    BY <1>3, <2>1, <2>2, <2>3
  <2>5. Outlives(c, T)
    BY <1>2, <1>3, <1>4, <2>4
  <2>6. /\ c \in Seq(Records) /\ Len(c) <= Len(T) /\ Len(c) \in Nat
        /\ \A i \in 1 .. Len(c) : c[i] = T[i]
        /\ \A i \in 1 .. Len(T) : Awaited(T, i) => i <= Len(c)
    BY <2>5 DEF Outlives
  <2>7. IsPrefix(c, T)
    BY <1>3, <2>6 DEF IsPrefix
  <2>8. Len(T) - Len(c) < Stride
    <3>1. CASE Len(T) > Dense
      <4>1. Len(T) \in 1 .. Len(T) /\ Len(T) \in 1 .. Len(all)
        BY <1>3, <2>2, <2>3, <2>4, <3>1
      <4>2. T[Len(T)].target = "phase"
        BY <1>3, <2>1, <3>1, <4>1
      <4>3. Len(T) <= Len(c)
        BY <2>6, <4>1, <4>2 DEF Awaited
      <4> QED BY <2>2, <2>3, <2>6, <4>3
    <3>2. CASE ~(Len(T) > Dense)
      <4> DEFINE n == Len(T)
                 k == n % Stride
                 m == n - k
      <4>1. n \in Nat /\ n # 0 /\ n <= Dense
        BY <2>2, <2>3, <2>4, <3>2
      <4>2. k \in 0 .. Stride - 1 /\ m \in Nat /\ m % Stride = 0
        <5> HIDE DEF n
        <5> QED BY ONLY <4>1, WithinAStride, Zenon DEF k, m
      <4> HIDE DEF n, k
      <4>3. m <= n /\ n - m < Stride /\ m <= Dense
        BY <2>2, <4>1, <4>2
      <4> HIDE DEF m
      <4>4. CASE m = 0
        <5>1. 1 \in 1 .. n /\ Awaited(T, 1)
          BY <4>1 DEF Awaited
        <5>2. 1 <= Len(c)
          BY <2>6, <5>1 DEF n
        <5>3. n - Len(c) < Stride
          BY <2>2, <2>6, <4>1, <4>3, <4>4, <5>2
        <5> QED BY <5>3 DEF n
      <4>5. CASE m # 0
        <5>1. m \in 1 .. n /\ Awaited(T, m)
          BY <2>2, <4>1, <4>2, <4>3, <4>5 DEF Awaited
        <5>2. m <= Len(c)
          BY <2>6, <5>1 DEF n
        <5>3. n - Len(c) < Stride
          BY <2>2, <2>6, <4>1, <4>2, <4>3, <5>2
        <5> QED BY <5>3 DEF n
      <4> QED BY <4>4, <4>5
    <3> QED BY <3>1, <3>2
  <2>9. \A i \in DOMAIN T : i = 1 \/ T[i].target = "phase" => i <= Len(c)
    <3>1. DOMAIN T = 1 .. Len(T)
      BY <1>3
    <3> QED BY <2>6, <3>1 DEF Awaited
  <2> QED BY <2>7, <2>8, <2>9
<1> QED BY <1>2, <1>4

\* Whatever calls fail and whenever power is lost, no file mixes two processes, and the
\* main, first, last and trace files that a heartbeat of the last process vouches for are
\* of that process, although its unlinks are not waited for (reset_liveness_files_once,
\* write_atomicish and the order of the writes in mkw_switch_note_translated_dispatch).
THEOREM DiagnosticsTellOneRun == Spec => []CardTellsOneRun
BY Telling, CardTellsOneRunFollows, PTL

\* Between two dispatches the card can lose neither main's record, nor the first
\* post-main dispatch, nor the last that had to be durable, and the heartbeat is no
\* older than the milestones (write_atomicish and its callers in
\* mkw_switch_note_translated_dispatch), for every size of the windows.
THEOREM DiagnosticsRecordsSurvive == Spec => []RecordsSurvive
BY Inductive, RecordsSurviveFollows, PTL

\* The post-main trace is the dispatches it is for, in their order, and a loss of power
\* leaves all but fewer than one stride of its lines, never losing a phase or the first
\* (append_post_main_trace), for every stride, dense window and limit.
THEOREM DiagnosticsTraceSurvives == Spec => []TraceSurvives
BY Inductive, TraceSurvivesFollows, PTL
=============================================================================
