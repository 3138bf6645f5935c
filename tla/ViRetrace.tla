----------------------------- MODULE ViRetrace -----------------------------
(***************************************************************************)
(* The video interface (vi_init_hle_bridge.cpp, vi_configure_hle_bridge    *)
(* .cpp): settings wait until a VIFlush has armed them and a retrace       *)
(* commits them.  A retrace is what VIWaitForRetrace does for whoever      *)
(* calls it: it lets the host sleep until the deadline, commits, counts,   *)
(* wakes the retrace queue and calls the guest's callbacks.                *)
(*                                                                         *)
(* Waking the queue and the callbacks are guest code, in which the caller  *)
(* may lose the processor; between two steps any thread that is not asleep *)
(* may go on.  The geometry of VIConfigure is one value with the TV        *)
(* format; the field parity, which nobody reads, is left out.              *)
(***************************************************************************)
EXTENDS Naturals, Sequences, FiniteSets

CONSTANTS
  Threads,
  Buffers,        \* frame buffer addresses; 0 is none
  PalInterval,    \* kPalRetraceNs, for TV format 1
  OtherInterval,  \* kNtscRetraceNs, for every other format
  MaxRetraces,    \* bound on the retraces
  MaxNow          \* bound on the clock

\* What the constants are; the module of the runs assumes it.
VideoConstants ==
  /\ Buffers \subseteq Nat \ {0}
  /\ OtherInterval \in Nat \ {0} /\ PalInterval \in Nat /\ OtherInterval <= PalInterval
  /\ MaxRetraces \in Nat /\ MaxNow \in Nat

VARIABLES
  initialized,  \* g_viInitialized
  pend,         \* the pending settings: TV format, black, next frame buffer
  shown,        \* the active ones
  armed,        \* g_viFlushArmed
  count,        \* g_viRetraceCount
  last,         \* g_viLastRetraceNs
  now,          \* the host's clock, from VIInit on
  word,         \* the SDK's words: format, buffer, buffer of the hardware, count, callbacks
  system,       \* the EGG system exists, 0x80386F60
  asleep,       \* the threads in the retrace queue
  call,         \* where each thread is in VIWaitForRetrace
  flushed,      \* history: the format and the black of the last flush, where not set again since
  calls         \* history: the callbacks called, for which retrace and with what in r3

settings == <<pend, armed, flushed>>
vars == <<initialized, pend, shown, armed, count, last, now, word, system, asleep, call, flushed, calls>>

Formats == {0, 1}
Callbacks == {"none", "guest"}
Settings == [format : Formats, black : BOOLEAN, buffer : Buffers \cup {0}]
Fields == {"format", "black"}

Outside == [at |-> "outside", value |-> 0, post |-> FALSE]
Places == {"outside", "waking", "pre", "post"}

TypeOK ==
  /\ initialized \in BOOLEAN /\ armed \in BOOLEAN /\ system \in BOOLEAN
  /\ pend \in Settings /\ shown \in Settings
  /\ count \in 0 .. MaxRetraces /\ last \in Nat /\ now \in 0 .. MaxNow
  /\ word \in [format : Formats, buffer : Buffers \cup {0}, hardware : Buffers \cup {0}, count : 0 .. MaxRetraces,
               pre : Callbacks, post : Callbacks]
  /\ asleep \subseteq Threads
  /\ call \in [Threads -> [at : Places, value : 0 .. MaxRetraces, post : BOOLEAN]]
  /\ flushed \subseteq Fields
  /\ calls \in Seq([kind : {"pre", "post"}, retrace : 1 .. MaxRetraces, r3 : 0 .. MaxRetraces])

Init ==
  /\ initialized = FALSE /\ armed = FALSE /\ system = FALSE
  /\ pend = [format |-> 0, black |-> FALSE, buffer |-> 0] /\ shown = pend
  /\ count = 0 /\ last = 0 /\ now = 0
  /\ word = [format |-> 0, buffer |-> 0, hardware |-> 0, count |-> 0, pre |-> "none", post |-> "none"]
  /\ asleep = {}
  /\ call = [t \in Threads |-> Outside]
  /\ flushed = Fields
  /\ calls = <<>>

Interval == IF shown.format = 1 THEN PalInterval ELSE OtherInterval

InCallback(t) == call[t].at \in {"pre", "post"}

\* Guest code of t runs: its own, or a callback it calls.
InGuest(t) == t \notin asleep /\ call[t].at # "waking"

-----------------------------------------------------------------------------
(* Settings.  Every entry point does what VIInit does if it is the first.   *)

VIInit(t) ==
  /\ InGuest(t) /\ ~initialized
  /\ initialized' = TRUE
  /\ word' = [format |-> 0, buffer |-> 0, hardware |-> 0, count |-> 0, pre |-> "none", post |-> "none"]
  /\ last' = now
  /\ UNCHANGED <<settings, shown, count, now, system, asleep, call, calls>>

Set(t) ==
  /\ InGuest(t) /\ initialized
  /\ UNCHANGED <<initialized, shown, armed, count, last, now, word, system, asleep, call, calls>>

VISetBlack(t, black) ==
  /\ Set(t)
  /\ pend' = [pend EXCEPT !.black = black]
  /\ flushed' = flushed \ {"black"}

VIConfigure(t, format) ==
  /\ Set(t)
  /\ pend' = [pend EXCEPT !.format = format]
  /\ flushed' = flushed \ {"format"}

\* The frame buffer the guest asked for, looked at only while the slot is empty.
Recovered ==
  IF pend.buffer # 0 THEN pend.buffer
  ELSE IF word.buffer # 0 THEN word.buffer ELSE word.hardware

VIFlush(t) ==
  /\ InGuest(t) /\ initialized
  /\ pend' = [pend EXCEPT !.buffer = Recovered]
  /\ armed' = TRUE
  /\ flushed' = Fields
  /\ UNCHANGED <<initialized, shown, count, last, now, word, system, asleep, call, calls>>

SetWord(t, w) ==
  /\ InGuest(t) /\ initialized
  /\ word' = w
  /\ UNCHANGED <<initialized, settings, shown, count, last, now, system, asleep, call, calls>>

VISetPostRetraceCallback(t, callback) == SetWord(t, [word EXCEPT !.post = callback])

\* External: the translated VISetPreRetraceCallback and VISetNextFrameBuffer.
VISetPreRetraceCallback(t, callback) == SetWord(t, [word EXCEPT !.pre = callback])
VISetNextFrameBuffer(t, buffer) == SetWord(t, [word EXCEPT !.buffer = buffer])

-----------------------------------------------------------------------------
(* VIWaitForRetrace, 0x801B99EC.                                            *)

\* The callbacks of retrace n begin: the pre-retrace one if there is one, else the
\* other, which also needs the EGG system.
Calling(t, n, pre, post, r3) ==
  LET kind == IF pre THEN "pre" ELSE IF post /\ system THEN "post" ELSE "outside"
  IN  IF kind = "outside"
      THEN call' = [call EXCEPT ![t] = Outside] /\ UNCHANGED calls
      ELSE /\ call' = [call EXCEPT ![t] = [at |-> kind, value |-> n, post |-> pre /\ post]]
           /\ calls' = Append(calls, [kind |-> kind, retrace |-> n, r3 |-> r3])

\* Faulty variant: the deadline is counted from when the host woke up.
RetraceTimesDrifting ==
  /\ now' = IF now < last + Interval THEN last + Interval ELSE now
  /\ last' = now'

\* svcSleepThread stops the whole host until the deadline; a late host does not wait.
RetraceTimes ==
  /\ now' = IF now < last + Interval THEN last + Interval ELSE now
  /\ last' = last + Interval

\* Faulty variant: the pending format does not reach the format that is active.
CommittedWithoutFormat ==
  /\ armed' = FALSE
  /\ shown' = IF armed THEN [pend EXCEPT !.format = shown.format] ELSE shown

\* State that a VIFlush armed becomes active, as it is now.
Committed ==
  /\ armed' = FALSE
  /\ shown' = IF armed THEN pend ELSE shown

VIWaitForRetrace(t) ==
  /\ InGuest(t) /\ ~InCallback(t) /\ initialized
  /\ count < MaxRetraces /\ last + Interval <= MaxNow
  /\ RetraceTimes
  /\ Committed
  /\ count' = count + 1
  /\ word' = [word EXCEPT !.format = IF armed THEN pend.format ELSE @, !.count = count',
                          !.buffer = pend.buffer, !.hardware = pend.buffer]
  /\ IF asleep # {}
     THEN /\ asleep' = {}
          /\ call' = [call EXCEPT ![t] = [at |-> "waking", value |-> count', post |-> FALSE]]
          /\ UNCHANGED calls
     ELSE Calling(t, count', word.pre # "none", word.post # "none", count') /\ UNCHANGED asleep
  /\ UNCHANGED <<initialized, pend, system, flushed>>

\* Faulty variant: the callbacks get the count of the moment.
WokenLate(t) ==
  /\ call[t].at = "waking"
  /\ Calling(t, call[t].value, word.pre # "none", word.post # "none", count)
  /\ UNCHANGED <<initialized, settings, shown, count, last, now, word, system, asleep>>

\* OSWakeupThread returns, after any number of steps of other threads.
Woken(t) ==
  /\ call[t].at = "waking"
  /\ Calling(t, call[t].value, word.pre # "none", word.post # "none", call[t].value)
  /\ UNCHANGED <<initialized, settings, shown, count, last, now, word, system, asleep>>

\* Whether there is a post-retrace callback was read before the other one ran, and
\* r3 is what that one left in it, written 0 here.
CallbackReturns(t) ==
  /\ InCallback(t) /\ t \notin asleep
  /\ Calling(t, call[t].value, FALSE, call[t].post, 0)
  /\ UNCHANGED <<initialized, settings, shown, count, last, now, word, system, asleep>>

-----------------------------------------------------------------------------
(* External: time passes, a thread goes to sleep until a retrace, the       *)
(* engine creates its system object.                                        *)

Tick ==
  /\ initialized /\ now < MaxNow
  /\ now' = now + 1
  /\ UNCHANGED <<initialized, settings, shown, count, last, word, system, asleep, call, calls>>

SleepOnRetrace(t) ==
  /\ initialized /\ call[t] = Outside /\ asleep \cup {t} # Threads
  /\ asleep' = asleep \cup {t}
  /\ UNCHANGED <<initialized, settings, shown, count, last, now, word, system, call, calls>>

CreateSystem ==
  /\ system' = TRUE
  /\ UNCHANGED <<initialized, settings, shown, count, last, now, word, asleep, call, calls>>

Next ==
  \/ \E t \in Threads :
       \/ VIInit(t) \/ VIFlush(t) \/ VIWaitForRetrace(t) \/ Woken(t) \/ CallbackReturns(t) \/ SleepOnRetrace(t)
       \/ \E black \in BOOLEAN : VISetBlack(t, black)
       \/ \E format \in Formats : VIConfigure(t, format)
       \/ \E buffer \in Buffers : VISetNextFrameBuffer(t, buffer)
       \/ \E callback \in Callbacks : VISetPostRetraceCallback(t, callback) \/ VISetPreRetraceCallback(t, callback)
  \/ Tick \/ CreateSystem

Spec == Init /\ [][Next]_vars

-----------------------------------------------------------------------------

\* Between retraces the SDK's words show the state that is active, and whatever the
\* guest flushed and did not set again is active once the flush has been served (and
\* every word keeps its type):
\* no setting is dropped on its way, however settings, flushes and retraces of
\* several threads are mixed.
FlushedIsShown ==
  /\ TypeOK
  /\ word.format = shown.format /\ word.count = count
  /\ ~armed => \A field \in flushed : shown[field] = pend[field]

\* A retrace calls each callback at most once, the pre-retrace one first, and the
\* first that it calls gets its own number, though other retraces may happen before.
CallbacksNumbered ==
  \A i, j \in DOMAIN calls :
    /\ calls[i].retrace = calls[j].retrace /\ i < j => calls[i].kind = "pre" /\ calls[j].kind = "post"
    /\ calls[i].r3 = calls[i].retrace \/ \E k \in 1 .. i - 1 : calls[k].retrace = calls[i].retrace

\* Retraces keep to their deadlines: never ahead of the clock, and never drifting
\* from it, however late the host is and whatever formats are switched between.
PacedByDeadlines ==
  initialized =>
    /\ last <= now
    /\ OtherInterval * count <= last
    /\ last <= PalInterval * count
=============================================================================
