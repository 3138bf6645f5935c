------------------------ MODULE MCFastTrackDiagnostics ------------------------
(* A trace of four entries: lines are durable for the first dispatch, then    *)
(* dense for one stride; one entry is left for a phase of the program.        *)
EXTENDS FastTrackDiagnostics
===============================================================================
