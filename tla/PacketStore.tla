----------------------------- MODULE PacketStore -----------------------------
(***************************************************************************)
(* What a recorder promises, whatever its buffers and files are: packets   *)
(* are accepted one by one, wait in memory in the order they came, and     *)
(* leave it in that order, each exactly once, for the disk or, when its    *)
(* write fails, for nowhere.  What is stored stays stored unless           *)
(* MayTruncate.                                                            *)
(***************************************************************************)
EXTENDS Naturals, Sequences

CONSTANTS Capacity,    \* packets that may wait in memory
          MayTruncate  \* a stored packet may be destroyed later

VARIABLES count,   \* packets accepted, numbered from 1
          memory,  \* the ones waiting, oldest first
          stored,  \* the ones on disk
          gone     \* the ones that are no more

svars == <<count, memory, stored, gone>>

StoreInit == count = 0 /\ memory = <<>> /\ stored = {} /\ gone = {}

Accept ==
    /\ Len(memory) < Capacity
    /\ count' = count + 1
    /\ memory' = Append(memory, count + 1)
    /\ UNCHANGED <<stored, gone>>

LeaveMemory ==
    /\ memory # <<>>
    /\ memory' = Tail(memory)
    /\ \/ stored' = stored \cup {Head(memory)} /\ UNCHANGED gone
       \/ gone' = gone \cup {Head(memory)} /\ UNCHANGED stored
    /\ UNCHANGED count

Truncate ==
    /\ MayTruncate
    /\ \E S \in SUBSET stored :
          stored' = stored \ S /\ gone' = gone \cup S
    /\ UNCHANGED <<count, memory>>

StoreNext == Accept \/ LeaveMemory \/ Truncate

StoreSpec == StoreInit /\ [][StoreNext]_svars
=============================================================================
