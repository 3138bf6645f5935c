------------------------- MODULE FastTrackDiagnostics -------------------------
(***************************************************************************)
(* fast_track_crash_diagnostics.cpp and the progress file of               *)
(* local_first_translated_execution.cpp: the small text files a run leaves *)
(* on the SD card, which are all that is left of it when the console hangs *)
(* and is switched off.                                                    *)
(*                                                                         *)
(* The card is external.  A file has what a reader sees now and the set of *)
(* what it may hold after power is lost: every content since its last      *)
(* fsync.  The process may also end alone, and then the card stays as it   *)
(* is.  A handler never yields, but the card sees its system calls one by  *)
(* one: todo is what is left of the handler under way, file by file.       *)
(***************************************************************************)
EXTENDS Naturals, SequencesExt, FiniteSetsExt

CONSTANTS
  Early,      \* kDurableEarlyPostMainDispatches
  Dense,      \* kDensePostMainTraceDispatches
  MaxEntries, \* kMaxPostMainTraceEntries
  Stride,     \* kPostMainTraceFsyncStride
  MaxDispatches, \* bound, see Spent
  MaxBoots, MaxFailures \* bounds

ASSUME DiagnosticsAssumption ==
  /\ {Early, Dense, MaxEntries, MaxDispatches, MaxBoots, MaxFailures} \subseteq Nat
  /\ Stride \in Nat \ {0}
  /\ 0 < Early /\ Early < Dense /\ Dense < MaxEntries

VARIABLES
  files,    \* the card
  globals,  \* the statics of the process
  todo,     \* the files the handler under way has still to deal with
  process,  \* "off", "guest", "idle" (translated start returned or threw) or "aborting"
  boot,     \* how many processes there have been
  failures, \* history: <<boot, file>> of every system call that failed
  noted,    \* history: the post-main dispatches of this boot each file is for
  past      \* dispatches of earlier boots, for the bound

vars == <<files, globals, todo, process, boot, failures, noted, past>>

\* In the order of reset_liveness_files_once.
LivenessFiles == <<"blocker", "exception", "heartbeat", "main", "first", "last", "trace">>
Paths == Range(LivenessFiles) \cup {"progress", "fallback"}

\* PAL main, an address of the keep-list of phases, and any other.
Targets == {"main", "phase", "plain"}

FreshGlobals ==
  [reset |-> FALSE, main |-> FALSE, recorded |-> FALSE, beaten |-> FALSE,
   count |-> 0, post |-> 0, entries |-> 0]

NothingNoted == [p \in {"first", "last", "trace"} |-> <<>>]

\* A file that is absent, empty or cut short is the empty sequence.
Init ==
  /\ files = [p \in Paths |-> [now |-> <<>>, kept |-> {<<>>}]]
  /\ globals = FreshGlobals
  /\ todo = <<>> /\ process = "off" /\ boot = 0
  /\ failures = {} /\ noted = NothingNoted /\ past = 0

-----------------------------------------------------------------------------
(* System calls.                                                           *)

\* The bound: of all boots together, and a failure costs two dispatches.
Spent == past + globals.count + 2 * Cardinality(failures)

\* The calls left for a file, and the record they are about.
Job(p, calls, r) == [path |-> p, calls |-> calls, rec |-> r]

\* Faulty variant: without fsync.
RewriteUnsynced(p, r) == Job(p, <<"truncate", "write">>, r)
\* write_atomicish, which opens with O_TRUNC.
Rewrite(p, r) == Job(p, <<"truncate", "write", "fsync">>, r)

\* write_fast_track_progress: fopen and fclose, and nothing that waits for the card.
Progress(p, r) == Job(p, <<"truncate", "write">>, r)

Unlinks == [i \in DOMAIN LivenessFiles |-> Job(LivenessFiles[i], <<"unlink">>, <<>>)]

If(condition, jobs) == IF condition THEN jobs ELSE <<>>

\* The first call left is made.
AfterCall ==
  LET job == Head(todo)
  IN  If(Len(job.calls) > 1, <<Job(job.path, Tail(job.calls), job.rec)>>) \o Tail(todo)

Becomes(p, c) ==
  files' = [files EXCEPT ![p] = [now |-> c, kept |-> @.kept \cup {c}]]

CallSucceeds ==
  /\ todo # <<>>
  /\ LET job == Head(todo)
         call == Head(job.calls)
         now == files[job.path].now
     IN  /\ CASE call \in {"unlink", "truncate"} -> Becomes(job.path, <<>>)
              [] call = "write"                  -> Becomes(job.path, Append(now, job.rec))
              [] call = "fsync"                  -> files' = [files EXCEPT ![job.path].kept = {now}]
              [] call = "append"                 -> UNCHANGED files
         /\ globals' = IF call = "append" THEN [globals EXCEPT !.entries = @ + 1] ELSE globals
  /\ todo' = AfterCall
  /\ UNCHANGED <<process, boot, failures, noted, past>>

\* A file that does not open is given up, but for the progress file, which is tried
\* one directory higher.  The results of the other calls are not looked at.
AfterFailure ==
  LET job == Head(todo)
  IN  IF Head(job.calls) \in {"truncate", "append"}
      THEN If(job.path = "progress", <<Progress("fallback", job.rec)>>) \o Tail(todo)
      ELSE AfterCall

CallFails ==
  /\ todo # <<>>
  /\ Cardinality(failures) < MaxFailures /\ Spent + 2 <= MaxDispatches
  /\ failures' = failures \cup {<<boot, Head(todo).path>>}
  /\ todo' = AfterFailure
  /\ UNCHANGED <<files, globals, process, boot, noted, past>>

-----------------------------------------------------------------------------
(* Handlers.                                                               *)

Snapshot(g, target) == [boot |-> boot, count |-> g.count, post |-> g.post, target |-> target]

\* append_post_main_trace.
Traced(g, target) ==
  /\ g.entries < MaxEntries
  /\ g.post <= Dense \/ target = "phase"

\* Faulty variant: only every so many lines are waited for.
DurableByStride(g, target) == target = "phase" \/ g.post % Stride = 0
DurableNow(g, target) ==
  \/ target = "phase"
  \/ g.entries + 1 \in {1, MaxEntries}
  \/ g.post = Dense
  \/ g.post <= Dense /\ g.post % Stride = 0

TraceLine(g, target) ==
  Job("trace",
      IF DurableNow(g, target) THEN <<"append", "write", "fsync">> ELSE <<"append", "write">>,
      Snapshot(g, target))

\* The statics after a dispatch of target; the trace counts its entries itself.
Counted(g, target, heartbeat) ==
  LET main == g.main \/ target = "main"
      post == main /\ target # "main"
  IN  [reset |-> TRUE, main |-> main, recorded |-> g.recorded \/ post,
       beaten |-> g.beaten \/ heartbeat, count |-> g.count + 1,
       post |-> IF post THEN g.post + 1 ELSE g.post, entries |-> g.entries]

\* Faulty variant: the heartbeat first.
DispatchWritesBeatFirst(g, target, first, heartbeat) ==
  LET post == g.post > globals.post
      r == Snapshot(g, target)
  IN  If(heartbeat, <<Rewrite("heartbeat", r)>>)
      \o If(g.main /\ ~globals.main, <<Rewrite("main", r)>>)
      \o If(first, <<Rewrite("first", r)>>)
      \o If(post /\ (g.post <= Early \/ target = "phase"), <<Rewrite("last", r)>>)
      \o If(post /\ Traced(g, target), <<TraceLine(g, target)>>)

\* The files a dispatch writes, in their order.
DispatchWrites(g, target, first, heartbeat) ==
  LET post == g.post > globals.post
      r == Snapshot(g, target)
  IN  If(g.main /\ ~globals.main, <<Rewrite("main", r)>>)
      \o If(first, <<Rewrite("first", r)>>)
      \o If(post /\ (g.post <= Early \/ target = "phase"), <<Rewrite("last", r)>>)
      \o If(post /\ Traced(g, target), <<TraceLine(g, target)>>)
      \o If(heartbeat, <<Rewrite("heartbeat", r)>>)

\* What the files are for: the first dispatch after main, the last of the first few and
\* the phases, and a trace of the first Dense ones and the phases after them.
Noteworthy(p, r) ==
  \/ p = "first"
  \/ p = "last" /\ (r.post <= Early \/ r.target = "phase")
  \/ p = "trace" /\ (r.post <= Dense \/ r.target = "phase")

\* mkw_switch_note_translated_dispatch.  A second of system ticks has passed or not.
NoteTranslatedDispatch(target) ==
  /\ process = "guest" /\ todo = <<>> /\ Spent < MaxDispatches
  /\ \E second \in BOOLEAN :
       LET first == globals.main /\ target # "main" /\ ~globals.recorded
           heartbeat == ~globals.beaten \/ second \/ target = "main" \/ first
           g == Counted(globals, target, heartbeat)
       IN  /\ todo' = If(~globals.reset, Unlinks) \o DispatchWrites(g, target, first, heartbeat)
           /\ globals' = g
           /\ noted' = [p \in DOMAIN noted |->
                noted[p] \o If(g.post > globals.post /\ Noteworthy(p, Snapshot(g, target)),
                               <<Snapshot(g, target)>>)]
  /\ UNCHANGED <<files, process, boot, failures, past>>

\* mkw_switch_report_unsupported_translated_dispatch and the abort after it; a
\* direct call that has no target is reported without being noted.
ReportUnsupported ==
  /\ process = "guest" /\ todo = <<>>
  /\ todo' = <<Rewrite("blocker", Snapshot(globals, "plain"))>>
  /\ process' = "aborting"
  /\ UNCHANGED <<files, globals, boot, failures, noted, past>>

\* __libnx_exception_handler; the process terminates after it.
LibnxException ==
  /\ process = "guest" /\ todo = <<>>
  /\ todo' = <<Rewrite("exception", Snapshot(globals, "plain"))>>
  /\ process' = "aborting"
  /\ UNCHANGED <<files, globals, boot, failures, noted, past>>

\* run_local_fast_track: before and after translated code.
Boot ==
  /\ process = "off" /\ boot < MaxBoots
  /\ boot' = boot + 1
  /\ process' = "guest" /\ globals' = FreshGlobals /\ noted' = NothingNoted
  /\ past' = past + globals.count
  /\ todo' = <<Progress("progress", [boot |-> boot + 1, state |-> "entering"])>>
  /\ UNCHANGED <<files, failures>>

StartReturns ==
  /\ process = "guest" /\ todo = <<>>
  /\ process' = "idle"
  /\ \E outcome \in {"returned", "std_exception", "unknown_exception"} :
       todo' = <<Progress("progress", [boot |-> boot, state |-> outcome])>>
  /\ UNCHANGED <<files, globals, boot, failures, noted, past>>

-----------------------------------------------------------------------------
(* How a process ends.                                                     *)

Aborts ==
  /\ process = "aborting" /\ todo = <<>>
  /\ process' = "off"
  /\ UNCHANGED <<files, globals, todo, boot, failures, noted, past>>

\* The user closes the application: what was written stays written.  This and a loss
\* of power are taken only while a later process can find what they leave.
Closed ==
  /\ process # "off" /\ boot < MaxBoots
  /\ process' = "off" /\ todo' = <<>>
  /\ UNCHANGED <<files, globals, boot, failures, noted, past>>

\* What the card may hold when power is lost: of every file one of the contents it
\* had since its last fsync.
Survivals ==
  LET K(p) == files[p].kept
  IN  [blocker : K("blocker"), exception : K("exception"), heartbeat : K("heartbeat"),
       main : K("main"), first : K("first"), last : K("last"), trace : K("trace"),
       progress : K("progress"), fallback : K("fallback")]

\* The console is switched off in a hang.
PowerLost ==
  /\ process # "off" /\ boot < MaxBoots
  /\ process' = "off" /\ todo' = <<>>
  /\ \E card \in Survivals : files' = [p \in Paths |-> [now |-> card[p], kept |-> {card[p]}]]
  /\ UNCHANGED <<globals, boot, failures, noted, past>>

Next ==
  \/ CallSucceeds \/ CallFails
  \/ \E target \in Targets : NoteTranslatedDispatch(target)
  \/ ReportUnsupported \/ LibnxException
  \/ Boot \/ StartReturns
  \/ Aborts \/ Closed \/ PowerLost

Spec == Init /\ [][Next]_vars
-----------------------------------------------------------------------------

Records == [boot : 1 .. MaxBoots, count : 0 .. MaxDispatches,
            post : 0 .. MaxDispatches, target : Targets]

TypeOK ==
  /\ \A p \in Paths : files[p].now \in files[p].kept
  /\ globals.entries \in 0 .. MaxEntries /\ globals.post <= globals.count
  /\ process \in {"off", "guest", "idle", "aborting"}
  /\ boot \in 0 .. MaxBoots /\ failures \subseteq (1 .. MaxBoots) \X Paths
  /\ \A p \in DOMAIN noted : Range(noted[p]) \subseteq Records

Failed == {p \in Paths : <<boot, p>> \in failures}
Running == process # "off"
Unlinking == \E i \in DOMAIN todo : todo[i].calls = <<"unlink">>

NeverFailed(p) == \A b \in 1 .. boot : <<b, p>> \notin failures

OfOneBoot(content) == \A i \in DOMAIN content : content[i].boot = content[1].boot

\* A heartbeat written once translated code had come to main.
MainReached(heartbeat) == heartbeat.post > 0 \/ heartbeat.target = "main"

\* The files of this boot that a heartbeat of this boot vouches for.
Vouched(heartbeat) ==
  /\ MainReached(heartbeat) /\ "main" \notin Failed =>
       \A c \in files["main"].kept :
         /\ Len(c) = 1
         /\ c[1].boot = boot /\ c[1].target = "main" /\ c[1].post = 0
  /\ heartbeat.post > 0 =>
       /\ "first" \notin Failed => files["first"].kept = {<<Head(noted["first"])>>}
       /\ \A p \in {"last", "trace"} \ Failed : \A c \in files[p].kept :
            /\ \A i \in DOMAIN c : c[i].boot = boot
            /\ p = "trace" => c # <<>>

\* Of whatever the card may hold after a loss of power between any two system calls: no
\* file mixes two processes, and a heartbeat of the last process vouches for the
\* milestones it is later than, which are of that process too, although nothing waits for
\* the unlinks of the earlier ones.  (Files it is not later than may still be of an
\* earlier process.)  And as long as the last process runs, a reader finds nothing of an
\* earlier one once its first dispatch has made its unlinks.  All but for a file on which
\* a call failed.
CardTellsOneRun ==
  /\ \A p \in Range(LivenessFiles) : NeverFailed(p) => \A c \in files[p].kept : OfOneBoot(c)
  /\ \A h \in files["heartbeat"].kept : h # <<>> /\ h[1].boot = boot => Vouched(h[1])
  /\ Running /\ globals.reset /\ ~Unlinking =>
       \A p \in Range(LivenessFiles) \ Failed :
         \A i \in DOMAIN files[p].now : files[p].now[i].boot = boot

\* The first MaxEntries of the dispatches the trace is for.
ExpectedTrace ==
  LET all == noted["trace"]
  IN  SubSeq(all, 1, IF Len(all) < MaxEntries THEN Len(all) ELSE MaxEntries)

\* The bounded post-main trace is exactly those dispatches in their order, and at
\* whatever moment power is lost between two of them the card has all but the last
\* few: fewer than one stride are gone, and of them none is a phase or the first.
TraceSurvives ==
  Running /\ todo = <<>> /\ globals.reset /\ "trace" \notin Failed =>
    /\ files["trace"].now = ExpectedTrace
    /\ noted["first"] # <<>> =>
       \A c \in files["trace"].kept :
         /\ IsPrefix(c, ExpectedTrace)
         /\ Len(ExpectedTrace) - Len(c) < Stride
         /\ \A i \in DOMAIN ExpectedTrace :
              i = 1 \/ ExpectedTrace[i].target = "phase" => i <= Len(c)

\* Whenever translated code runs, the records that outlive a loss of power agree with
\* the run and with each other: main's is the one that first reached it, the first
\* post-main dispatch stays the first, the last durable one is the last that had to
\* be, and the heartbeat is no older than either milestone.  With the types.
RecordsSurvive ==
  /\ TypeOK
  /\ Running /\ todo = <<>> =>
      LET Survives(p, expected) ==
            p \in Failed \/ files[p].kept = {<<expected>>}
          NotOlder(p) ==
            \A h \in files["heartbeat"].kept, c \in files[p].kept :
               h # <<>> /\ (c = <<>> \/ c[1].boot < boot \/ c[1].count <= h[1].count)
      IN  /\ noted["first"] # <<>> => Survives("first", Head(noted["first"]))
          /\ noted["last"] # <<>> => Survives("last", Last(noted["last"]))
          /\ globals.main /\ "main" \notin Failed =>
               \E r \in Records : /\ files["main"].kept = {<<r>>}
                                  /\ r.boot = boot /\ r.target = "main" /\ r.post = 0
          /\ globals.reset /\ "heartbeat" \notin Failed => NotOlder("main") /\ NotOlder("first")
=============================================================================
