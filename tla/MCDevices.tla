------------------------------ MODULE MCDevices ------------------------------
(* Two devices that serve the guest beside each other: the NAND files and the *)
(* video interface.  They share no word and neither calls the other, so each  *)
(* has a run in which it moves and the other rests.                           *)
(*                                                                            *)
(* Files: two infos; a file named from the root and from the data directory,  *)
(* with parents below and above the root, and a directory.                    *)
(* Video: two threads, one of which may be late with its callbacks while the  *)
(* other goes on.                                                             *)
EXTENDS Naturals, TLC

CONSTANTS
  i1, i2, t1, t2,
  Infos, GuestPaths, DataDir, Size, MaxOpens,
  Callers, Buffers, PalInterval, OtherInterval, MaxRetraces, MaxNow

VARIABLES
  descriptor, openFlag, handles, nextFd, streams, files, undefined, stream,
  initialized, pend, shown, armed, count, last, now, word, system, asleep, call, flushed, calls

Nand == INSTANCE NandFiles WITH word <- descriptor
Video == INSTANCE ViRetrace WITH Threads <- Callers

nandVars == <<descriptor, openFlag, handles, nextFd, streams, files, undefined, stream>>
videoVars == <<initialized, pend, shown, armed, count, last, now, word, system, asleep, call, flushed, calls>>

ASSUME VideoAssumption == Video!VideoConstants
ASSUME NandAssumption == Nand!PathsTyped

Rooted(parts) == [absolute |-> TRUE, parts |-> parts]
Relative(parts) == [absolute |-> FALSE, parts |-> parts]

MCDataDir == <<"title", "data">>
MCGuestPaths ==
  { Relative(<<"save">>), Rooted(<<"title", "data", "", "save">>), Relative(<<"..", ".", "save">>),
    Rooted(<<"..", "a", "..", "..", "title", "save">>), Relative(<<"..", "..", ".">>) }

NandSpec ==
  /\ Nand!Init /\ Video!Init
  /\ [][Nand!Next /\ UNCHANGED videoVars]_<<nandVars, videoVars>>

VideoSpec ==
  /\ Nand!Init /\ files = <<>> /\ Video!Init
  /\ [][Video!Next /\ UNCHANGED nandVars]_<<nandVars, videoVars>>

Symmetry == Permutations(Callers)

\* An open info reads the file its path means, a closed one reaches no stream, and (not so)
\* the table has only streams that are open.
OpenInfoReadsItsFile == Nand!OpenInfoReadsItsFile
ClosedInfoReachesNothing == Nand!ClosedInfoReachesNothing
HandlesUsable == Nand!HandlesUsable

\* What is flushed is shown, callbacks belong to their retrace, deadlines do not drift.
FlushedIsShown == Video!FlushedIsShown
CallbacksNumbered == Video!CallbacksNumbered
PacedByDeadlines == Video!PacedByDeadlines
===============================================================================
