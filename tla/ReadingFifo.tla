---------------------------- MODULE ReadingFifo ----------------------------
(***************************************************************************)
(* What the hub promises about the readings it accepted, with no pool, no  *)
(* work queue and no message queue: they reach the display loop in the     *)
(* order in which they were accepted, none is changed or duplicated, never *)
(* more than Queue + Pool of them are on their way, and the only one that  *)
(* may ever be lost is one that already has Queue others ahead of it.      *)
(***************************************************************************)
EXTENDS Naturals, Sequences, SequencesExt

CONSTANTS Readings,  \* the messages
          Nothing,   \* no message taken yet
          Queue,     \* messages that wait without any being lost
          Pool       \* messages beyond those that may be on their way

VARIABLES chan,      \* accepted and not yet taken, oldest first
          taken      \* the message the display loop took last

fifoVars == <<chan, taken>>

FifoInit == chan = <<>> /\ taken = Nothing

Accept == /\ Len(chan) < Queue + Pool
          /\ \E r \in Readings : chan' = Append(chan, r)
          /\ UNCHANGED taken

Take == /\ chan # <<>>
        /\ taken' = Head(chan)
        /\ chan' = Tail(chan)

Lose == /\ Len(chan) > Queue
        /\ chan' = RemoveAt(chan, Queue + 1)
        /\ UNCHANGED taken

FifoNext == Accept \/ Take \/ Lose

FifoSpec == FifoInit /\ [][FifoNext]_fifoVars
=============================================================================
