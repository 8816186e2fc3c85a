-------------------------- MODULE RtspStreamWriter --------------------------
(***************************************************************************)
(* The recorder behind the viewer: the RtspStreamWriter of av/src/AVIO.c.  *)
(* Packets read from the camera are buffered (buffer_frame); a full buffer *)
(* is written to the current MPEG-TS file, the file is finished and a new  *)
(* one is opened under a name made from the wall clock                     *)
(* (flush_buffer, rollover_output_file).                                   *)
(*                                                                         *)
(* The component has one thread.  flush_buffer is cut at its loop          *)
(* iterations, at the trailer and at the rollover, because the wall clock  *)
(* moves on between them; wpc says where the thread is.  Everything the    *)
(* libraries decide (an open, a header, a write, a trailer succeeding or   *)
(* not) is a choice.                                                       *)
(***************************************************************************)
EXTENDS Naturals, Sequences

CONSTANTS
    MaxBufferSize,    \* m_nMaxBufferSize (500 in the code)
    RateBound,        \* packets the camera delivers within one second
    ClockMayStepBack, \* local time may go back (DST, clock adjustment)
    MaxPackets,       \* bound of the model: packets ever buffered
    MaxTime           \* bound of the model: seconds on the wall clock

ASSUME BufferAssumption == MaxBufferSize \in Nat \ {0}
ASSUME RateAssumption   == RateBound \in Nat
ASSUME ClockAssumption  == ClockMayStepBack \in BOOLEAN
ASSUME BoundAssumption  == MaxPackets \in Nat /\ MaxTime \in Nat

Time == 0..MaxTime

Packet == 1..MaxPackets      \* numbered in the order they are buffered
NoPacket == 0

(* An output file: not there, created but without a header, being          *)
(* recorded, finished with its trailer.                                    *)
FileState == {"absent", "bare", "open", "complete"}
File == [state : FileState, pkts : Seq(Packet)]
NoFile == [state |-> "absent", pkts |-> <<>>]

VARIABLES
    wpc,      \* where the writer's thread is
    why,      \* "none", or the call in which the process died
    buf,      \* m_pFrameBuffer[0 .. m_nCurrBufferSize-1]
    at,       \* i, the loop index of flush_buffer: packets already handed over
    pend,     \* the packet buffer_frame stores after the flush it calls
    mux,      \* m_pOutputFmtCtx: "null", "dead" (no header) or "live"
    pb,       \* m_pOutputFmtCtx->pb: "null", "open" or "freed"
    aliased,  \* m_pOutputFmtCtx->url is m_pOutFile
    outFile,  \* m_pOutFile: the second it was made from
    closing,  \* m_nClosing
    disk,     \* the directory: the file of each name
    now,      \* the wall clock, in seconds
    rate,     \* packets buffered since the clock showed now
    accepted, \* history: packets ever buffered
    lost,     \* history: packets whose write failed
    clobbered,\* history: packets in files that were truncated
    faulted   \* history: some library call failed

thread == <<wpc, why>>
buffer == <<buf, at, pend>>
output == <<mux, pb, aliased, outFile>>
clock  == <<now, rate>>
ghosts == <<lost, clobbered, faulted>>
wvars  == <<thread, buffer, output, closing, disk, clock, accepted, ghosts>>

PointsOfControl ==
    {"uninit", "idle", "write", "roll", "closed", "gone", "crash"}
Deaths == {"none", "uninit", "write", "seal", "teardown", "client"}

WriterTypeOK ==
    /\ wpc \in PointsOfControl
    /\ why \in Deaths
    /\ buf \in Seq(Packet)
    /\ Len(buf) <= MaxBufferSize
    /\ at \in 0..Len(buf)
    /\ pend \in Packet \cup {NoPacket}
    /\ mux \in {"null", "dead", "live"}
    /\ pb \in {"null", "open", "freed"}
    /\ aliased \in BOOLEAN
    /\ outFile \in Time
    /\ closing \in BOOLEAN
    /\ disk \in [Time -> File]
    /\ now \in Time
    /\ rate \in 0..RateBound
    /\ accepted \in 0..MaxPackets
    /\ lost \in SUBSET Packet
    /\ clobbered \in SUBSET Packet
    /\ faulted \in BOOLEAN

Contents(f) == {f.pkts[k] : k \in DOMAIN f.pkts}

-----------------------------------------------------------------------------
(* alloc_stream_writer *)
WriterInit ==
    /\ wpc = "uninit" /\ why = "none"
    /\ buf = <<>> /\ at = 0 /\ pend = NoPacket
    /\ mux = "null" /\ pb = "null" /\ aliased = FALSE /\ outFile = 0
    /\ closing = FALSE
    /\ disk = [t \in Time |-> NoFile]
    /\ now = 0 /\ rate = 0
    /\ accepted = 0 /\ lost = {} /\ clobbered = {} /\ faulted = FALSE

(* The process dies in the call c. *)
Die(c) == /\ wpc' = "crash" /\ why' = c
          /\ UNCHANGED <<buffer, output, closing, disk, clock, accepted, ghosts>>

(* Mutant: the name without its time. *)
construct_filename_constant == outFile' = 0

(* construct_filename: the name is the current local second. *)
construct_filename == outFile' = now

(* Mutant: the file is opened without truncation, and continued. *)
OpenFile_appends(st) ==
    /\ disk' = [disk EXCEPT ![outFile'].state = st]
    /\ pb' = "open" /\ UNCHANGED clobbered

(* avio_open for writing creates the file of the name just made, or        *)
(* truncates the one already there; st is what follows: a header or not.   *)
OpenFile(st) ==
    /\ disk' = [disk EXCEPT ![outFile'] = [state |-> st, pkts |-> <<>>]]
    /\ clobbered' = clobbered \cup Contents(disk[outFile'])
    /\ pb' = "open"

(* Outcomes of init_stream_writer and of rollover_output_file that reach   *)
(* avio_open: "ok", "open" failed, "header" failed.                        *)
OpenNext(outcome) ==
    /\ construct_filename
    /\ CASE outcome = "ok"     -> OpenFile("open") /\ mux' = "live"
         [] outcome = "header" -> OpenFile("bare") /\ mux' = "dead"
         [] outcome = "open"   -> /\ pb' = "null" /\ mux' = "dead"
                                  /\ UNCHANGED <<disk, clobbered>>
    /\ faulted' = IF outcome = "ok" THEN faulted ELSE TRUE

(* init_stream_writer; init_buffer is its first call.  "format": no output *)
(* context; "streams": a stream could not be added to it; "codec": the     *)
(* parameters of a stream could not be copied to it.                       *)
init_stream_writer(outcome) ==
    /\ wpc = "uninit"
    /\ wpc' = "idle"
    /\ buf' = <<>>
    /\ \/ /\ outcome \in {"ok", "open", "header"}
          /\ OpenNext(outcome)
       \/ /\ outcome \in {"format", "streams", "codec"}
          /\ construct_filename
          /\ mux' = IF outcome = "format" THEN "null" ELSE "dead"
          /\ faulted' = TRUE
          /\ UNCHANGED <<pb, disk, clobbered>>
    /\ UNCHANGED <<why, at, pend, aliased, closing, clock, accepted, lost>>

WriterOutcomes == {"ok", "open", "header", "format", "streams", "codec"}

(* Mutants of buffer_frame: a full buffer is noticed one packet too late,  *)
(* one too early, or overwritten from its oldest packet on.                *)
BufferFrameAt(full) ==
    /\ ~closing /\ wpc = "idle"
    /\ accepted < MaxPackets /\ rate < RateBound
    /\ accepted' = accepted + 1 /\ rate' = rate + 1
    /\ IF Len(buf) = full
       THEN wpc' = "write" /\ at' = 0 /\ pend' = accepted + 1 /\ UNCHANGED buf
       ELSE buf' = Append(buf, accepted + 1) /\ UNCHANGED <<wpc, at, pend>>
    /\ UNCHANGED <<why, output, closing, disk, now, ghosts>>
buffer_frame_late == BufferFrameAt(MaxBufferSize + 1)
buffer_frame_early == BufferFrameAt(MaxBufferSize - 1)
buffer_frame_ring ==
    /\ ~closing /\ wpc = "idle"
    /\ accepted < MaxPackets /\ rate < RateBound
    /\ accepted' = accepted + 1 /\ rate' = rate + 1
    /\ buf' = Append(IF Len(buf) = MaxBufferSize THEN Tail(buf) ELSE buf, accepted + 1)
    /\ UNCHANGED <<thread, at, pend, output, closing, disk, now, ghosts>>

(* buffer_frame: stores the next packet, after a flush when the buffer is  *)
(* full.  The writer of a stream that was never set up has no buffer.      *)
buffer_frame ==
    /\ ~closing
    /\ accepted < MaxPackets /\ rate < RateBound
    /\ \/ /\ wpc = "uninit" /\ Die("uninit")
       \/ /\ wpc = "idle"
          /\ accepted' = accepted + 1
          /\ rate' = rate + 1
          /\ IF Len(buf) = MaxBufferSize
             THEN /\ wpc' = "write" /\ at' = 0 /\ pend' = accepted + 1
                  /\ UNCHANGED buf
             ELSE /\ buf' = Append(buf, accepted + 1)
                  /\ UNCHANGED <<wpc, at, pend>>
          /\ UNCHANGED <<why, output, closing, disk, now, ghosts>>

(* The two first lines of free_stream: m_nClosing = 1, then flush_buffer.  *)
close_writer ==
    /\ ~closing
    /\ \/ /\ wpc = "uninit" /\ Die("uninit")
       \/ /\ wpc = "idle"
          /\ closing' = TRUE
          /\ wpc' = "write" /\ at' = 0
          /\ UNCHANGED <<why, buf, pend, output, disk, clock, accepted, ghosts>>

(* Mutant: the loop of flush_buffer runs from the newest packet down. *)
flush_write_backwards ==
    /\ wpc = "write" /\ at < Len(buf) /\ mux = "live"
    /\ at' = at + 1
    /\ disk' = [disk EXCEPT ![outFile].pkts = Append(@, buf[Len(buf) - at])]
    /\ UNCHANGED <<thread, buf, pend, output, closing, clock, accepted, ghosts>>

(* One iteration of the loop of flush_buffer: the packet is handed to      *)
(* av_interleaved_write_frame and released.  A failed write is remembered  *)
(* and the loop goes on.  Without an output context the process dies; on a *)
(* context whose muxer was shut down the call is undefined.                *)
flush_write ==
    /\ wpc = "write" /\ at < Len(buf)
    /\ LET p == buf[at + 1]
       IN \/ /\ mux # "live" /\ Die("write")
          \/ /\ mux # "null"
             /\ at' = at + 1
             /\ \/ /\ mux = "live"
                   /\ disk' = [disk EXCEPT ![outFile].pkts = Append(@, p)]
                   /\ UNCHANGED <<lost, faulted>>
                \/ /\ lost' = lost \cup {p} /\ faulted' = TRUE
                   /\ UNCHANGED disk
             /\ UNCHANGED <<thread, buf, pend, output, closing, clock,
                            accepted, clobbered>>

(* Mutant: the trailer is skipped when there is no file. *)
flush_seal_lenient ==
    /\ wpc = "write" /\ at = Len(buf) /\ mux # "null"
    /\ disk' = IF mux = "live" THEN [disk EXCEPT ![outFile].state = "complete"]
               ELSE disk
    /\ mux' = "dead" /\ pb' = IF pb = "open" THEN "freed" ELSE pb
    /\ buf' = <<>> /\ at' = 0
    /\ wpc' = IF closing THEN "closed" ELSE "roll"
    /\ UNCHANGED <<why, pend, aliased, outFile, closing, clock, accepted, ghosts>>

(* What flush_buffer does after its loop: av_write_trailer, whose result   *)
(* is ignored, avio_close, which leaves pb dangling, and the reset of the  *)
(* buffer.  Packets queued in a muxer that has no file are fatal at the    *)
(* latest here; rollover_output_file returns at once when closing.         *)
flush_seal ==
    /\ wpc = "write" /\ at = Len(buf)
    /\ \/ /\ mux # "live" /\ Die("seal")
       \/ /\ mux = "live" \/ (mux = "dead" /\ (buf = <<>> \/ pb = "open"))
          /\ \E trailer \in BOOLEAN :
                /\ disk' = IF mux = "live" /\ trailer
                           THEN [disk EXCEPT ![outFile].state = "complete"]
                           ELSE disk
                /\ faulted' = IF trailer THEN faulted ELSE TRUE
          /\ mux' = "dead"
          /\ pb' = IF pb = "open" THEN "freed" ELSE pb
          /\ buf' = <<>> /\ at' = 0
          /\ wpc' = IF closing THEN "closed" ELSE "roll"
          /\ UNCHANGED <<why, pend, aliased, outFile, closing, clock,
                         accepted, lost, clobbered>>

(* What rollover_output_file does itself. *)
RollOver(outcome) ==
    /\ wpc = "roll" /\ wpc' = "idle"
    /\ OpenNext(outcome) /\ aliased' = TRUE /\ pend' = NoPacket

(* Mutants: the packet that found the buffer full is forgotten, or no      *)
(* header is written to the new file.                                      *)
rollover_forgets_packet ==
    /\ \E outcome \in {"ok", "open", "header"} : RollOver(outcome)
    /\ UNCHANGED <<why, buf, at, closing, clock, accepted, lost>>
rollover_without_header ==
    /\ wpc = "roll" /\ wpc' = "idle"
    /\ construct_filename /\ OpenFile("bare") /\ mux' = "dead"
    /\ buf' = Append(buf, pend) /\ pend' = NoPacket /\ aliased' = TRUE
    /\ UNCHANGED <<why, at, closing, clock, accepted, lost, faulted>>

(* rollover_output_file, and the way back through flush_buffer, which      *)
(* ignores its result, into buffer_frame, which stores the packet.         *)
rollover_output_file ==
    /\ \E outcome \in {"ok", "open", "header"} : RollOver(outcome)
    /\ buf' = Append(buf, pend)
    /\ UNCHANGED <<why, at, closing, clock, accepted, lost>>

(* free_stream_writer: the output context owns its url, so after a         *)
(* rollover m_pOutFile is released twice; the allocator may abort.         *)
free_stream_writer ==
    /\ wpc = "closed"
    /\ \/ aliased /\ Die("teardown")
       \/ /\ wpc' = "gone"
          /\ mux' = "null"
          /\ UNCHANGED <<why, buffer, pb, aliased, outFile, closing, disk,
                         clock, accepted, ghosts>>

(* The process ends in code of the writer's client, or is killed.          *)
client_ends == wpc \notin {"gone", "crash"} /\ Die("client")

(* The wall clock moves to the next second, or is set back.                *)
Tick ==
    /\ \E t \in Time :
          /\ t = now + 1 \/ (ClockMayStepBack /\ t < now)
          /\ now' = t
    /\ rate' = 0
    /\ UNCHANGED <<thread, buffer, output, closing, disk, accepted, ghosts>>

WriterFlush == flush_write \/ flush_seal \/ rollover_output_file

WriterStep ==
    \/ \E o \in WriterOutcomes : init_stream_writer(o)
    \/ buffer_frame
    \/ close_writer
    \/ WriterFlush
    \/ free_stream_writer
    \/ client_ends

(* The thread has ended; only the clock goes on. *)
WriterEnded == wpc \in {"gone", "crash"} /\ UNCHANGED wvars

WriterNext == WriterStep \/ Tick \/ WriterEnded

WriterSpec == WriterInit /\ [][WriterNext]_wvars

(* The code of a flush runs by itself once it was entered. *)
WriterFairSpec == WriterSpec /\ WF_wvars(WriterFlush)
-----------------------------------------------------------------------------
OnDisk == UNION {Contents(disk[t]) : t \in Time}
Waiting == SubSeq(buf, at + 1, Len(buf))
               \o (IF pend = NoPacket THEN <<>> ELSE <<pend>>)
InMemory == {Waiting[k] : k \in DOMAIN Waiting}

(* Every packet handed to buffer_frame (AVIO.c:125-130) is in exactly one  *)
(* place: in one file, in the buffer or behind the flush in progress, in   *)
(* the ones whose write failed, or in a file truncated since.  The reset   *)
(* of m_nCurrBufferSize, the packet stored after a flush and the rollover  *)
(* neither drop nor record a packet twice.                                 *)
EachPacketOnce ==
    /\ OnDisk \cup InMemory \cup lost \cup clobbered = 1..accepted
    /\ lost \cap clobbered = {}
    /\ OnDisk \cap (InMemory \cup lost \cup clobbered) = {}
    /\ InMemory \cap (lost \cup clobbered) = {}
    /\ \A s, t \in Time :
          s # t => Contents(disk[s]) \cap Contents(disk[t]) = {}

(* A file is handed its packets in the order they were read, and while the *)
(* clock does not step back the files, taken in the order of their names,  *)
(* hold the recording in order (AVIO.c:145-164 and 177-184).               *)
ReadOrder ==
    /\ \A t \in Time : \A i, j \in DOMAIN disk[t].pkts :
          i < j => disk[t].pkts[i] < disk[t].pkts[j]
    /\ ~ClockMayStepBack =>
          \A s, t \in Time : s < t =>
              \A p \in Contents(disk[s]), q \in Contents(disk[t]) : p < q

(* A finished file is never written to again, whatever fails or dies       *)
(* later. Only a later file of the same name replaces it, as a whole: what *)
(* it held counts as lost, and nothing of it is mixed with the recording   *)
(* that follows (AVIO.c:165-167, 187-190).                                 *)
FinishedFilesStay ==
    [][\A t \in Time : disk[t].state = "complete" =>
           disk'[t] = disk[t] \/ Contents(disk[t]) \subseteq clobbered']_wvars

(* Without a failing call every finished file holds a whole buffer, except *)
(* the one finished by free_stream: flush_buffer is entered by a full      *)
(* buffer or by the end (AVIO.c:127-128, RtspStream.c:47-48).              *)
WholeChunks ==
    ~faulted =>
        \A t \in Time : disk[t].state = "complete" =>
            \/ Len(disk[t].pkts) = MaxBufferSize
            \/ closing /\ t = outFile

(* A recording is truncated by a later file of the same name only if the   *)
(* camera delivers a whole buffer within one second or the local clock is  *)
(* set back: the names have a resolution of one second (AVIO.c:14-20, 187). *)
TruncationNeedsBurst ==
    clobbered # {} => RateBound >= MaxBufferSize \/ ClockMayStepBack

(* While no library call fails the recorder dies nowhere but in            *)
(* free_stream_writer, and a writer that was set up dies in a flush only   *)
(* when its file or its header could not be made (AVIO.c:145-175).         *)
DeathHasCause ==
    /\ why \in {"write", "seal"} => faulted /\ mux # "live"
    /\ why = "uninit" => outFile = 0 /\ accepted = 0

(* A file that cannot be opened at a rollover is fatal: flush_buffer       *)
(* ignores the error of rollover_output_file (AVIO.c:171, 187-192), and    *)
(* the next flush, be it the one of free_stream, kills the process.        *)
OpenFailureIsFatal ==
    (wpc = "write" /\ pb = "null" /\ buf # <<>>) ~> (wpc = "crash")

(* The recorder implements the abstract store (PacketStore): it keeps at   *)
(* most one packet more than the buffer has room for, and destroys a       *)
(* stored packet only under the conditions of TruncationNeedsBurst.        *)
Store == INSTANCE PacketStore WITH
    Capacity    <- MaxBufferSize + 1,
    MayTruncate <- RateBound >= MaxBufferSize \/ ClockMayStepBack,
    count       <- accepted,
    memory      <- Waiting,
    stored      <- OnDisk,
    gone        <- lost \cup clobbered

ImplementsPacketStore == Store!StoreSpec
=============================================================================
