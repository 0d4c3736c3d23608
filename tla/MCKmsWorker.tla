---------------------------- MODULE MCKmsWorker ----------------------------
(* Instances of KmsWorker for TLC. *)
EXTENDS KmsWorker

Frame(test, key) == [primary |-> TRUE, target |-> 1, test |-> test, key |-> key]
Cursor == [primary |-> FALSE, target |-> 0, test |-> FALSE, key |-> 0]

\* A tested frame and an untested cursor delta
FrameAndCursor == {Frame(TRUE, 0), Cursor}
\* A tested frame, a cursor delta and an untested direct-scanout frame
FrameCursorDirect == {Frame(TRUE, 0), Cursor, Frame(FALSE, 1)}
\* Frames only
Frames == {Frame(TRUE, 0)}

=============================================================================
