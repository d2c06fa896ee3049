------------------------------ MODULE Snapshot ------------------------------
(***************************************************************************)
(* Locomotion, and the broadcast loop that builds a snapshot meanwhile.     *)
(* ForEach holds the registry's read lock, which the scheduler's second    *)
(* pass does not take: the two run at the same time, and the fields are    *)
(* read one after the other.                                               *)
(***************************************************************************)
EXTENDS Locomotion

VARIABLES
    reader,     \* the field of the NPC that buildSnapshot reads next
    seenX,      \* its copy of X, once it has it
    view        \* the two coordinates that it broadcasts

snapshotVars == <<vars, reader, seenX, view>>

SnapshotInit == Init /\ reader = "X" /\ seenX = Spawn /\ view = <<Spawn, Spawn>>

ReadX ==
    /\ reader = "X"
    /\ reader' = "Z" /\ seenX' = instX
    /\ UNCHANGED <<vars, view>>

ReadZ ==
    /\ reader = "Z"
    /\ reader' = "X" /\ view' = <<seenX, instZ>>
    /\ UNCHANGED <<vars, seenX>>

SnapshotNext == ReadX \/ ReadZ \/ (Next /\ UNCHANGED <<reader, seenX, view>>)

SnapshotSpec == SnapshotInit /\ [][SnapshotNext]_snapshotVars

\* A snapshot shows the NPC at a place where it was: both coordinates that
\* buildSnapshot reads belong together.
SnapshotWhole == view[1] = view[2]
=============================================================================
