------------------------------ MODULE MCFloppy ------------------------------
(* Floppy with values for TLC.                                             *)
EXTENDS Floppy

\* Two sectors of different cylinders, the end of the disk and one beyond it,
\* and one too many for the buffer.
Asked ==
    {[lba |-> 3, count |-> 2], [lba |-> 7, count |-> 1],
     [lba |-> 7, count |-> 2], [lba |-> 0, count |-> 3]}

\* The first request for which a turn of the loop skips a sector.
Three == {[lba |-> 0, count |-> 3]}
=============================================================================
