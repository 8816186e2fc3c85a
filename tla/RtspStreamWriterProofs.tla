----------------------- MODULE RtspStreamWriterProofs -----------------------
(***************************************************************************)
(* What the recorder guarantees for every buffer size, every rate and      *)
(* every clock.                                                            *)
(***************************************************************************)
EXTENDS RtspStreamWriter, TLAPS

(* The type invariant with what makes it inductive: a rollover finds the   *)
(* buffer empty and a packet waiting behind it.                            *)
TypeInv ==
    /\ WriterTypeOK
    /\ wpc \in {"uninit", "idle", "roll", "closed"} => at = 0
    /\ wpc = "roll" => buf = <<>>
    /\ (wpc = "roll" \/ (wpc = "write" /\ ~closing)) => pend # NoPacket

USE DEF NoPacket

LEMMA TypeInvInit == WriterInit => TypeInv
  BY BufferAssumption, RateAssumption, BoundAssumption
  DEF WriterInit, TypeInv, WriterTypeOK, PointsOfControl, Deaths, Time, Packet,
      File, NoFile, FileState

(* Opening a file leaves a file in every place. *)
LEMMA OpenNextType ==
  ASSUME WriterTypeOK, NEW o \in {"ok", "open", "header"}, OpenNext(o)
  PROVE  /\ disk' \in [Time -> File]
         /\ pb' \in {"null", "open", "freed"} /\ mux' \in {"null", "dead", "live"}
         /\ outFile' \in Time /\ faulted' \in BOOLEAN
         /\ clobbered' \in SUBSET Packet
  <1> DEFINE fresh(st) == [state |-> st, pkts |-> <<>>]
  <1>1. \A st \in FileState : fresh(st) \in File
    BY DEF File
  <1>2. \A f \in File : Contents(f) \in SUBSET Packet
    BY DEF File, Contents
  <1>3. outFile' \in Time
    BY DEF OpenNext, construct_filename, WriterTypeOK
  <1>4. ASSUME NEW st \in {"open", "bare"}, OpenFile(st)
        PROVE  /\ disk' \in [Time -> File] /\ pb' = "open"
               /\ clobbered' \in SUBSET Packet
    <2>1. fresh(st) \in File
      BY <1>1 DEF FileState
    <2>2. disk[outFile'] \in File
      BY <1>3 DEF WriterTypeOK
    <2> HIDE DEF fresh
    <2>3. disk' = [disk EXCEPT ![outFile'] = fresh(st)]
      BY <1>4 DEF OpenFile, fresh
    <2>4. clobbered' = clobbered \cup Contents(disk[outFile'])
      BY <1>4 DEF OpenFile
    <2>5. disk' \in [Time -> File]
      BY <2>1, <2>3, <1>3 DEF WriterTypeOK
    <2>6. clobbered' \in SUBSET Packet
      BY <1>2, <2>2, <2>4 DEF WriterTypeOK
    <2> QED BY <1>4, <2>5, <2>6 DEF OpenFile
  <1>5. faulted' \in BOOLEAN
    BY DEF OpenNext, WriterTypeOK
  <1>6. CASE o = "ok"
    BY <1>3, <1>4, <1>5, <1>6 DEF OpenNext
  <1>7. CASE o = "header"
    BY <1>3, <1>4, <1>5, <1>7 DEF OpenNext
  <1>8. CASE o = "open"
    BY <1>3, <1>5, <1>8 DEF OpenNext, WriterTypeOK
  <1> QED BY <1>6, <1>7, <1>8

LEMMA TypeInvStep == TypeInv /\ [WriterNext]_wvars => TypeInv'
  <1> SUFFICES ASSUME TypeInv, [WriterNext]_wvars PROVE TypeInv'
    OBVIOUS
  <1> USE BufferAssumption, RateAssumption, BoundAssumption
      DEF TypeInv, thread, buffer, output, clock, ghosts
  <1>1. ASSUME NEW o \in WriterOutcomes, init_stream_writer(o) PROVE TypeInv'
    <2>1. CASE o \in {"ok", "open", "header"}
      BY <1>1, <2>1, OpenNextType DEF init_stream_writer, WriterTypeOK, PointsOfControl
    <2>2. CASE o \in {"format", "streams", "codec"}
      <3>1. /\ wpc = "uninit" /\ wpc' = "idle" /\ buf' = <<>>
            /\ outFile' = now /\ mux' \in {"null", "dead"} /\ faulted' = TRUE
            /\ UNCHANGED <<pb, disk, clobbered, why, at, pend, aliased, closing,
                           clock, accepted, lost>>
        BY <1>1, <2>2 DEF init_stream_writer, construct_filename
      <3> QED BY <3>1 DEF WriterTypeOK, PointsOfControl
    <2> QED BY <2>1, <2>2 DEF WriterOutcomes
  <1>2. CASE buffer_frame
    <2>1. CASE wpc = "uninit"
      BY <1>2, <2>1 DEF buffer_frame, Die, WriterTypeOK, PointsOfControl, Deaths
    <2>2. CASE wpc = "idle"
      <3>1. accepted + 1 \in Packet /\ accepted' \in 0..MaxPackets
            /\ rate' \in 0..RateBound
        BY <1>2, <2>2 DEF buffer_frame, WriterTypeOK, Packet
      <3>2. CASE Len(buf) = MaxBufferSize
        BY <1>2, <2>2, <3>1, <3>2 DEF buffer_frame, WriterTypeOK, PointsOfControl
      <3>3. CASE Len(buf) # MaxBufferSize
        <4>1. buf' = Append(buf, accepted + 1)
          BY <1>2, <2>2, <3>3 DEF buffer_frame
        <4>2. buf' \in Seq(Packet) /\ Len(buf') = Len(buf) + 1
          BY <3>1, <4>1 DEF WriterTypeOK
        <4> QED BY <1>2, <2>2, <3>1, <3>3, <4>2
                DEF buffer_frame, WriterTypeOK, PointsOfControl
      <3> QED BY <3>2, <3>3
    <2> QED BY <1>2, <2>1, <2>2 DEF buffer_frame
  <1>3. CASE close_writer
    BY <1>3 DEF close_writer, Die, WriterTypeOK, PointsOfControl, Deaths
  <1>4. CASE flush_write
    <2>1. CASE Die("write")
      BY <2>1 DEF Die, WriterTypeOK, PointsOfControl, Deaths
    <2>2. buf[at + 1] \in Packet /\ at + 1 \in 0..Len(buf)
      BY <1>4 DEF flush_write, WriterTypeOK
    <2>3. \A f \in File, p \in Packet :
             [f EXCEPT !.pkts = Append(@, p)] \in File
      BY DEF File
    <2>4. CASE ~Die("write")
      <3>1. disk' \in [Time -> File]
        <4>1. \/ UNCHANGED disk
              \/ disk' = [disk EXCEPT ![outFile].pkts = Append(@, buf[at + 1])]
          BY <1>4, <2>4 DEF flush_write
        <4>2. disk \in [Time -> File] /\ disk[outFile] \in File
          BY DEF WriterTypeOK
        <4>3. [disk[outFile] EXCEPT !.pkts = Append(@, buf[at + 1])] \in File
          BY <2>2, <2>3, <4>2
        <4> QED BY <4>1, <4>2, <4>3
      <3>2. lost' \in SUBSET Packet /\ faulted' \in BOOLEAN
        BY <1>4, <2>2, <2>4 DEF flush_write, WriterTypeOK
      <3>3. /\ at' = at + 1
            /\ UNCHANGED <<thread, buf, pend, output, closing, clock, accepted,
                           clobbered>>
        BY <1>4, <2>4 DEF flush_write
      <3> HIDE DEF TypeInv
      <3>4. wpc = "write" /\ TypeInv
        BY <1>4 DEF flush_write
      <3> QED BY <2>2, <3>1, <3>2, <3>3, <3>4 DEF TypeInv, WriterTypeOK
    <2> QED BY <2>1, <2>4
  <1>5. CASE flush_seal
    <2>1. CASE Die("seal")
      BY <2>1 DEF Die, WriterTypeOK, PointsOfControl, Deaths
    <2>2. CASE ~Die("seal")
      <3>1. disk' \in [Time -> File]
        BY <1>5, <2>2 DEF flush_seal, WriterTypeOK, File, FileState
      <3>2. faulted' \in BOOLEAN
        BY <1>5, <2>2 DEF flush_seal, WriterTypeOK
      <3>3. /\ wpc = "write" /\ wpc' = (IF closing THEN "closed" ELSE "roll")
            /\ mux' = "dead" /\ pb' = (IF pb = "open" THEN "freed" ELSE pb)
            /\ buf' = <<>> /\ at' = 0
            /\ UNCHANGED <<why, pend, aliased, outFile, closing, clock,
                           accepted, lost, clobbered>>
        BY <1>5, <2>2 DEF flush_seal
      <3> QED BY <3>1, <3>2, <3>3 DEF WriterTypeOK, PointsOfControl
    <2> QED BY <2>1, <2>2
  <1>6. CASE rollover_output_file
    <2> PICK o \in {"ok", "open", "header"} : RollOver(o)
      BY <1>6 DEF rollover_output_file
    <2> QED BY <1>6, OpenNextType
        DEF rollover_output_file, RollOver, WriterTypeOK, PointsOfControl
  <1>7. CASE free_stream_writer
    BY <1>7 DEF free_stream_writer, Die, WriterTypeOK, PointsOfControl, Deaths
  <1>8. CASE client_ends
    BY <1>8 DEF client_ends, Die, WriterTypeOK, PointsOfControl, Deaths
  <1>9. CASE Tick
    BY <1>9 DEF Tick, WriterTypeOK
  <1>10. CASE UNCHANGED wvars
    BY <1>10 DEF wvars, WriterTypeOK
  <1> QED
    BY <1>1, <1>2, <1>3, <1>4, <1>5, <1>6, <1>7, <1>8, <1>9, <1>10
    DEF WriterNext, WriterStep, WriterFlush, WriterEnded

(* The recorder's variables keep their types: in particular the buffer     *)
(* never holds more than m_nMaxBufferSize packets and the loop of          *)
(* flush_buffer stays inside it (AVIO.c:125-130, 145).                     *)
THEOREM WriterTypeCorrect == WriterSpec => []WriterTypeOK
  <1>1. TypeInv => WriterTypeOK BY DEF TypeInv
  <1> QED BY <1>1, TypeInvInit, TypeInvStep, PTL DEF WriterSpec
-----------------------------------------------------------------------------
(* Files of names the clock has not reached yet are empty, and the file    *)
(* being recorded is younger than the buffer is full: had its name been    *)
(* made in the present second, the packets since would fit in the rate of  *)
(* that second.                                                            *)
Paced == RateBound < MaxBufferSize /\ ~ClockMayStepBack

PaceInv ==
    /\ clobbered = {}
    /\ outFile <= now
    /\ \A t \in Time : wpc = "uninit" \/ t > outFile => disk[t].pkts = <<>>
    /\ wpc = "idle" /\ outFile = now => Len(buf) <= rate + 1
    /\ wpc = "roll" \/ (wpc = "write" /\ ~closing) => outFile < now \/ rate >= MaxBufferSize

LEMMA PaceInvInit == WriterInit => PaceInv
  BY DEF WriterInit, PaceInv, NoFile, Time

(* Opening a file that is still empty destroys nothing. *)
LEMMA OpenNextPace ==
  ASSUME TypeInv, clobbered = {}, disk[now].pkts = <<>>, outFile <= now,
         \A t \in Time : t > now => disk[t].pkts = <<>>,
         NEW o \in {"ok", "open", "header"}, OpenNext(o)
  PROVE  /\ clobbered' = {} /\ outFile' = now
         /\ \A t \in Time : t > outFile' => disk'[t].pkts = <<>>
  <1>1. outFile' = now /\ now \in Time
    BY DEF OpenNext, construct_filename, TypeInv, WriterTypeOK
  <1>2. Contents(disk[now]) = {}
    BY DEF Contents
  <1>3. ASSUME NEW st \in {"open", "bare"}, OpenFile(st)
        PROVE  /\ clobbered' = {}
               /\ \A t \in Time : t > outFile' => disk'[t].pkts = <<>>
    BY <1>1, <1>2, <1>3 DEF OpenFile, TypeInv, WriterTypeOK
  <1>4. CASE o = "open"
    BY <1>1, <1>4 DEF OpenNext
  <1>5. CASE o \in {"ok", "header"}
    BY <1>1, <1>3, <1>5 DEF OpenNext
  <1> QED BY <1>1, <1>4, <1>5

LEMMA PaceInvStep ==
  ASSUME Paced, TypeInv, PaceInv, [WriterNext]_wvars
  PROVE  PaceInv'
  <1> USE BufferAssumption, RateAssumption, BoundAssumption
      DEF PaceInv, thread, buffer, output, clock, ghosts, Time
  <1> DEFINE Same == UNCHANGED <<clobbered, outFile, disk, now, rate, closing>>
  <1>0. ASSUME NEW c, Die(c) PROVE PaceInv'
    BY <1>0 DEF Die
  <1>1. ASSUME NEW o \in WriterOutcomes, init_stream_writer(o) PROVE PaceInv'
    <2>1. wpc = "uninit" /\ wpc' = "idle" /\ buf' = <<>> /\ UNCHANGED <<now, rate>>
      BY <1>1 DEF init_stream_writer
    <2>2. CASE o \in {"ok", "open", "header"}
      <3>1. disk[now].pkts = <<>> /\ \A t \in Time : t > now => disk[t].pkts = <<>>
        BY <2>1 DEF TypeInv, WriterTypeOK
      <3>2. OpenNext(o)
        BY <1>1, <2>2 DEF init_stream_writer
      <3> QED BY <2>1, <2>2, <3>1, <3>2, OpenNextPace DEF TypeInv, WriterTypeOK
    <2>3. CASE o \in {"format", "streams", "codec"}
      BY <1>1, <2>1, <2>3 DEF init_stream_writer, construct_filename, TypeInv, WriterTypeOK
    <2> QED BY <2>2, <2>3 DEF WriterOutcomes
  <1>2. CASE buffer_frame
    <2>1. CASE wpc = "uninit"
      BY <1>0, <1>2, <2>1 DEF buffer_frame
    <2>2. CASE wpc = "idle"
      <3>1. UNCHANGED <<clobbered, outFile, disk, now, closing>> /\ rate' = rate + 1
        BY <1>2, <2>2 DEF buffer_frame
      <3>2. CASE Len(buf) = MaxBufferSize
        BY <1>2, <2>2, <3>1, <3>2 DEF buffer_frame, TypeInv, WriterTypeOK
      <3>3. CASE Len(buf) # MaxBufferSize
        <4>1. Len(buf') = Len(buf) + 1 /\ wpc' = "idle"
          BY <1>2, <2>2, <3>3 DEF buffer_frame, TypeInv, WriterTypeOK, Packet
        <4> QED BY <2>2, <3>1, <4>1 DEF TypeInv, WriterTypeOK
      <3> QED BY <3>2, <3>3
    <2> QED BY <1>2, <2>1, <2>2 DEF buffer_frame
  <1>3. CASE close_writer
    BY <1>0, <1>3 DEF close_writer
  <1>4. CASE flush_write
    <2>1. CASE Die("write")
      BY <1>0, <2>1
    <2>2. CASE ~Die("write")
      <3>1. wpc = "write" /\ UNCHANGED <<wpc, buf, outFile, closing, now, rate, clobbered>>
        BY <1>4, <2>2 DEF flush_write
      <3>2. \A t \in Time : t > outFile => disk'[t] = disk[t]
        BY <1>4, <2>2 DEF flush_write, TypeInv, WriterTypeOK
      <3> QED BY <3>1, <3>2
    <2> QED BY <2>1, <2>2
  <1>5. CASE flush_seal
    <2>1. CASE Die("seal")
      BY <1>0, <2>1
    <2>2. CASE ~Die("seal")
      <3>1. /\ wpc = "write" /\ wpc' = (IF closing THEN "closed" ELSE "roll")
            /\ UNCHANGED <<outFile, closing, now, rate, clobbered>>
        BY <1>5, <2>2 DEF flush_seal
      <3>2. \/ disk' = disk
            \/ disk' = [disk EXCEPT ![outFile].state = "complete"]
        BY <1>5, <2>2 DEF flush_seal
      <3>3. \A t \in Time : t > outFile => disk'[t] = disk[t]
        BY <3>2 DEF TypeInv, WriterTypeOK
      <3> QED BY <3>1, <3>3 DEF TypeInv, WriterTypeOK
    <2> QED BY <2>1, <2>2
  <1>6. CASE rollover_output_file
    <2> PICK o \in {"ok", "open", "header"} : RollOver(o)
      BY <1>6 DEF rollover_output_file
    <2>1. /\ wpc = "roll" /\ wpc' = "idle" /\ OpenNext(o)
          /\ buf' = Append(buf, pend) /\ UNCHANGED <<now, rate>>
      BY <1>6 DEF rollover_output_file, RollOver
    <2>2. outFile < now
      BY <2>1 DEF TypeInv, WriterTypeOK, Paced
    <2>3. disk[now].pkts = <<>> /\ \A t \in Time : t > now => disk[t].pkts = <<>>
      BY <2>2 DEF TypeInv, WriterTypeOK
    <2>4. Len(buf') = 1
      BY <2>1 DEF TypeInv, WriterTypeOK
    <2>5. /\ clobbered' = {} /\ outFile' = now
          /\ \A t \in Time : t > outFile' => disk'[t].pkts = <<>>
      BY <2>1, <2>3, OpenNextPace
    <2> QED BY <2>1, <2>4, <2>5 DEF TypeInv, WriterTypeOK
  <1>7. CASE free_stream_writer
    BY <1>0, <1>7 DEF free_stream_writer
  <1>8. CASE client_ends
    BY <1>0, <1>8 DEF client_ends
  <1>9. CASE Tick
    <2>1. now' = now + 1 /\ UNCHANGED <<wpc, buf, outFile, closing, disk, clobbered>>
      BY <1>9 DEF Tick, Paced
    <2> QED BY <2>1 DEF TypeInv, WriterTypeOK
  <1>10. CASE UNCHANGED wvars
    BY <1>10 DEF wvars
  <1> QED
    BY <1>1, <1>2, <1>3, <1>4, <1>5, <1>6, <1>7, <1>8, <1>9, <1>10
    DEF WriterNext, WriterStep, WriterFlush, WriterEnded

(* No recording is ever truncated by a file of the same name, unless the   *)
(* camera can deliver a whole buffer within one second or the local clock  *)
(* can be set back (AVIO.c:14-20, 127-128, 183-187).                       *)
THEOREM TruncationOnlyByBurst == WriterSpec => []TruncationNeedsBurst
  <1>1. CASE Paced
    <2>1. WriterInit => TypeInv /\ PaceInv
      BY TypeInvInit, PaceInvInit
    <2>2. TypeInv /\ PaceInv /\ [WriterNext]_wvars => TypeInv' /\ PaceInv'
      BY <1>1, TypeInvStep, PaceInvStep
    <2>3. PaceInv => TruncationNeedsBurst
      BY DEF PaceInv, TruncationNeedsBurst
    <2> QED BY <2>1, <2>2, <2>3, PTL DEF WriterSpec
  <1>2. CASE ~Paced
    <2>1. TruncationNeedsBurst
      BY <1>2, BufferAssumption, RateAssumption, ClockAssumption
      DEF Paced, TruncationNeedsBurst
    <2> QED BY <2>1, PTL
  <1> QED BY <1>1, <1>2

=============================================================================
