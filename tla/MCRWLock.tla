------------------------------ MODULE MCRWLock ------------------------------
(***************************************************************************)
(* Two readers and two writers of one lock, some of them with timeouts.    *)
(***************************************************************************)
EXTENDS RWLock

CONSTANTS r1, r2, w1, w2

MCReaders == {r1, r2}
MCWriters == {w1, w2}
TimedBoth == {r1, w1}
=============================================================================
