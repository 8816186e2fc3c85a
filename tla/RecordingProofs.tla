--------------------------- MODULE RecordingProofs ---------------------------
(***************************************************************************)
(* What the files of a recording hold, and what the recorder can die of,   *)
(* for every buffer size, every rate and every clock.                      *)
(***************************************************************************)
EXTENDS PacketStoreProofs

(* While nothing has failed the file that is open takes what the flush has *)
(* handed over, and a flush that is not the last one began with a full     *)
(* buffer.                                                                 *)
ChunkInv ==
    /\ wpc = "crash" <=> why # "none"
    /\ DeathHasCause /\ WholeChunks
    /\ wpc = "uninit" => /\ outFile = 0 /\ accepted = 0
                         /\ \A t \in Time : disk[t].state = "absent"
    /\ closing => wpc \notin {"uninit", "idle", "roll"}
    /\ wpc = "write" /\ ~closing => Len(buf) = MaxBufferSize
    /\ wpc \in {"idle", "write"} /\ ~faulted =>
          mux = "live" /\ disk[outFile].state = "open" /\ Len(disk[outFile].pkts) = at

LEMMA ChunkInvInit == WriterInit => ChunkInv
BY DEF WriterInit, ChunkInv, DeathHasCause, WholeChunks, NoFile

(* The death of a process changes nothing else.                            *)
LEMMA DeathStep ==
    ASSUME ChunkInv, NEW c \in Deaths \ {"none"}, Die(c),
           c \in {"write", "seal"} => mux # "live" /\ wpc = "write",
           c = "uninit" => wpc = "uninit"
    PROVE  ChunkInv'
<1>1. /\ wpc' = "crash" /\ why' = c
      /\ UNCHANGED <<buf, at, mux, outFile, closing, disk, accepted, faulted>>
  BY DEF Die, buffer, output, ghosts
<1>2. DeathHasCause'
  BY <1>1 DEF ChunkInv, DeathHasCause
<1>3. WholeChunks'
  BY <1>1 DEF ChunkInv, WholeChunks
<1> QED BY <1>1, <1>2, <1>3 DEF ChunkInv

(* Opening a file: it is empty, and no other changes.                      *)
LEMMA OpenStep ==
    ASSUME TypeInv, ChunkInv, wpc \in {"uninit", "roll"}, wpc' = "idle",
           NEW o \in {"ok", "open", "header"}, OpenNext(o),
           UNCHANGED <<why, at, closing>>
    PROVE  ChunkInv'
<1>1. ~closing /\ at = 0 /\ why = "none" /\ outFile' \in Time /\ disk \in [Time -> File]
  BY DEF ChunkInv, TypeInv, OpenNext, construct_filename, WriterTypeOK
<1>2. DeathHasCause'
  BY <1>1 DEF DeathHasCause
<1>3. ASSUME ~faulted' PROVE o = "ok" /\ ~faulted
  BY <1>3 DEF OpenNext
<1>4. ASSUME ~faulted'
      PROVE  /\ mux' = "live" /\ disk'[outFile'].state = "open" /\ disk'[outFile'].pkts = <<>>
             /\ \A t \in Time : t # outFile' => disk'[t] = disk[t]
  <2>1. o = "ok"
    BY <1>3, <1>4
  <2>2. mux' = "live" /\ OpenFile("open")
    BY <2>1 DEF OpenNext
  <2>3. disk' = [disk EXCEPT ![outFile'] = [state |-> "open", pkts |-> <<>>]]
    BY <2>2 DEF OpenFile
  <2> QED BY <1>1, <2>2, <2>3
<1>5. WholeChunks'
  <2> SUFFICES ASSUME ~faulted', NEW t \in Time, disk'[t].state = "complete"
               PROVE  Len(disk'[t].pkts) = MaxBufferSize
    BY DEF WholeChunks
  <2>1. t # outFile' /\ disk'[t] = disk[t] /\ ~faulted
    BY <1>3, <1>4
  <2> QED BY <1>1, <2>1 DEF ChunkInv, WholeChunks
<1> QED BY <1>1, <1>2, <1>4, <1>5 DEF ChunkInv

LEMMA WriteStep ==
    ASSUME TypeInv, ChunkInv, flush_write, ~Die("write")
    PROVE  ChunkInv'
<1> DEFINE p == buf[at + 1]
<1>1. /\ wpc = "write" /\ at < Len(buf) /\ at' = at + 1
      /\ UNCHANGED <<wpc, why, buf, mux, outFile, closing, accepted>>
      /\ \/ /\ disk' = [disk EXCEPT ![outFile].pkts = Append(@, p)]
            /\ UNCHANGED faulted
         \/ faulted' = TRUE /\ UNCHANGED disk
  BY DEF flush_write, thread, output
<1>2. DeathHasCause'
  BY <1>1 DEF ChunkInv, DeathHasCause
<1>3. CASE faulted'
  BY <1>1, <1>2, <1>3 DEF ChunkInv, WholeChunks
<1>4. CASE ~faulted'
  <2>1. ~faulted /\ disk' = [disk EXCEPT ![outFile].pkts = Append(@, p)]
    BY <1>1, <1>4
  <2>2. disk \in [Time -> File] /\ outFile \in Time /\ p \in Packet
    BY <1>1 DEF TypeInv, WriterTypeOK
  <2>3. /\ disk'[outFile] = [disk[outFile] EXCEPT !.pkts = Append(@, p)]
        /\ \A t \in Time : t # outFile => disk'[t] = disk[t]
    BY <2>1, <2>2
  <2>4. disk[outFile].state = "open" /\ Len(disk[outFile].pkts) = at
    BY <1>1, <2>1 DEF ChunkInv
  <2>5. disk[outFile] \in File
    BY <2>2
  <2> HIDE DEF p
  <2>6. disk'[outFile].state = "open" /\ Len(disk'[outFile].pkts) = at + 1
    BY <2>2, <2>3, <2>4, <2>5 DEF File
  <2>7. WholeChunks'
    BY <1>1, <2>1, <2>3, <2>6 DEF ChunkInv, WholeChunks
  <2> QED BY <1>1, <1>2, <1>4, <2>1, <2>6, <2>7 DEF ChunkInv
<1> QED BY <1>3, <1>4

LEMMA SealStep ==
    ASSUME TypeInv, ChunkInv, flush_seal, ~Die("seal")
    PROVE  ChunkInv'
<1>1. /\ wpc = "write" /\ at = Len(buf) /\ wpc' = (IF closing THEN "closed" ELSE "roll")
      /\ UNCHANGED <<why, outFile, closing, accepted>>
      /\ faulted => faulted'
      /\ ~faulted' => \/ disk' = disk
                      \/ disk' = [disk EXCEPT ![outFile].state = "complete"]
  BY DEF flush_seal
<1>2. why = "none"
  BY <1>1 DEF ChunkInv
<1>3. DeathHasCause'
  BY <1>1, <1>2 DEF DeathHasCause
<1>4. WholeChunks'
  <2> SUFFICES ASSUME ~faulted', NEW t \in Time, disk'[t].state = "complete"
               PROVE  Len(disk'[t].pkts) = MaxBufferSize \/ (closing /\ t = outFile)
    BY <1>1 DEF WholeChunks
  <2>1. ~faulted /\ disk \in [Time -> File] /\ outFile \in Time
    BY <1>1 DEF TypeInv, WriterTypeOK
  <2>2. CASE t = outFile
    <3>1. disk'[t].pkts = disk[t].pkts
      <4>1. disk' = disk \/ disk' = [disk EXCEPT ![t] = [disk[t] EXCEPT !.state = "complete"]]
        BY <1>1, <2>2
      <4>2. disk[t] \in File
        BY <2>1
      <4>3. [disk[t] EXCEPT !.state = "complete"].pkts = disk[t].pkts
        BY <4>2 DEF File
      <4> QED BY <2>1, <4>1, <4>3
    <3>2. Len(disk[t].pkts) = Len(buf)
      BY <1>1, <2>1, <2>2 DEF ChunkInv
    <3> QED BY <1>1, <2>2, <3>1, <3>2 DEF ChunkInv
  <2>3. CASE t # outFile
    <3>1. disk'[t] = disk[t]
      BY <1>1, <2>1, <2>3
    <3> QED BY <2>1, <2>3, <3>1 DEF ChunkInv, WholeChunks
  <2> QED BY <2>2, <2>3
<1> QED BY <1>1, <1>2, <1>3, <1>4 DEF ChunkInv

LEMMA ChunkInvStep == TypeInv /\ ChunkInv /\ [WriterNext]_wvars => ChunkInv'
<1> SUFFICES ASSUME TypeInv, ChunkInv, [WriterNext]_wvars PROVE ChunkInv'
  OBVIOUS
<1> USE DEF thread, buffer, output, clock, ghosts
<1>0. {"uninit", "write", "seal", "teardown", "client"} \subseteq Deaths \ {"none"}
  BY DEF Deaths
<1>1. ASSUME NEW o \in WriterOutcomes, init_stream_writer(o) PROVE ChunkInv'
  <2>1. CASE o \in {"ok", "open", "header"}
    BY <1>1, <2>1, OpenStep DEF init_stream_writer
  <2>2. CASE o \in {"format", "streams", "codec"}
    <3>1. /\ wpc = "uninit" /\ wpc' = "idle" /\ faulted'
          /\ UNCHANGED <<why, closing, disk>>
      BY <1>1, <2>2 DEF init_stream_writer
    <3> QED BY <3>1 DEF ChunkInv, DeathHasCause, WholeChunks
  <2> QED BY <2>1, <2>2 DEF WriterOutcomes
<1>2. CASE buffer_frame
  <2>1. CASE wpc = "uninit"
    BY <1>0, <1>2, <2>1, DeathStep DEF buffer_frame
  <2>2. CASE wpc = "idle"
    <3>1. /\ UNCHANGED <<why, mux, outFile, closing, disk, faulted>>
          /\ \/ Len(buf) = MaxBufferSize /\ wpc' = "write" /\ at' = 0 /\ buf' = buf
             \/ wpc' = "idle" /\ at' = at
      BY <1>2, <2>2 DEF buffer_frame
    <3>2. at = 0 /\ why = "none"
      BY <2>2 DEF ChunkInv, TypeInv
    <3>3. DeathHasCause' /\ WholeChunks'
      BY <3>1, <3>2 DEF ChunkInv, DeathHasCause, WholeChunks
    <3> QED BY <2>2, <3>1, <3>2, <3>3 DEF ChunkInv
  <2> QED BY <1>2, <2>1, <2>2 DEF buffer_frame
<1>3. CASE close_writer
  <2>1. CASE wpc = "uninit"
    BY <1>0, <1>3, <2>1, DeathStep DEF close_writer
  <2>2. CASE wpc = "idle"
    <3>1. /\ UNCHANGED <<why, buf, mux, outFile, disk, accepted, faulted>>
          /\ ~closing /\ closing' /\ wpc' = "write" /\ at' = 0
      BY <1>3, <2>2 DEF close_writer
    <3>2. at = 0 /\ why = "none"
      BY <2>2 DEF ChunkInv, TypeInv
    <3>3. DeathHasCause' /\ WholeChunks'
      BY <3>1, <3>2 DEF ChunkInv, DeathHasCause, WholeChunks
    <3> QED BY <2>2, <3>1, <3>2, <3>3 DEF ChunkInv
  <2> QED BY <1>3, <2>1, <2>2 DEF close_writer
<1>4. CASE flush_write
  <2>1. CASE Die("write")
    <3>1. wpc = "write" /\ (mux # "live" \/ ~Die("write"))
      BY <1>4 DEF flush_write, Die
    <3> QED BY <1>0, <2>1, <3>1, DeathStep
  <2> QED BY <1>4, <2>1, WriteStep
<1>5. CASE flush_seal
  <2>1. CASE Die("seal")
    <3>1. wpc = "write" /\ mux # "live"
      BY <1>5, <2>1 DEF flush_seal, Die
    <3> QED BY <1>0, <2>1, <3>1, DeathStep
  <2> QED BY <1>5, <2>1, SealStep
<1>6. CASE rollover_output_file
  BY <1>6, OpenStep DEF rollover_output_file, RollOver
<1>7. CASE free_stream_writer
  <2>1. CASE Die("teardown")
    BY <1>0, <2>1, DeathStep
  <2>2. CASE ~Die("teardown")
    <3>1. /\ wpc = "closed" /\ wpc' = "gone"
          /\ UNCHANGED <<why, outFile, closing, disk, accepted, faulted>>
      BY <1>7, <2>2 DEF free_stream_writer
    <3>2. why = "none"
      BY <3>1 DEF ChunkInv
    <3> QED BY <3>1, <3>2 DEF ChunkInv, DeathHasCause, WholeChunks
  <2> QED BY <2>1, <2>2
<1>8. CASE client_ends
  BY <1>0, <1>8, DeathStep DEF client_ends
<1>9. CASE Tick
  BY <1>9 DEF Tick, ChunkInv, DeathHasCause, WholeChunks
<1>10. CASE UNCHANGED wvars
  BY <1>10 DEF wvars, ChunkInv, DeathHasCause, WholeChunks
<1> QED
  BY <1>1, <1>2, <1>3, <1>4, <1>5, <1>6, <1>7, <1>8, <1>9, <1>10
  DEF WriterNext, WriterStep, WriterFlush, WriterEnded

(* Without a failing call every finished file holds a whole buffer, except *)
(* the one finished by free_stream (AVIO.c:127-128, RtspStream.c:47-48).   *)
THEOREM FilesHoldWholeChunks == WriterSpec => []WholeChunks
<1>1. ChunkInv => WholeChunks
  BY DEF ChunkInv
<1>2. TypeInv /\ ChunkInv /\ [WriterNext]_wvars => TypeInv' /\ ChunkInv'
  BY TypeInvStep, ChunkInvStep
<1> QED BY <1>1, <1>2, TypeInvInit, ChunkInvInit, PTL DEF WriterSpec

(* A flush is fatal only after a failure has left the recorder without a   *)
(* file that takes packets, and a recorder that was never set up has taken *)
(* none (AVIO.c:145-175).                                                  *)
THEOREM DeathAlwaysHasCause == WriterSpec => []DeathHasCause
<1>1. ChunkInv => DeathHasCause
  BY DEF ChunkInv
<1>2. TypeInv /\ ChunkInv /\ [WriterNext]_wvars => TypeInv' /\ ChunkInv'
  BY TypeInvStep, ChunkInvStep
<1> QED BY <1>1, <1>2, TypeInvInit, ChunkInvInit, PTL DEF WriterSpec

-----------------------------------------------------------------------------
(* Names the clock has not come to are empty files, so that what is        *)
(* written goes behind everything on disk.                                 *)
ReadInv ==
    /\ ReadOrder
    /\ ~ClockMayStepBack => outFile <= now
    /\ ~ClockMayStepBack => \A t \in Time : t > outFile => disk[t].pkts = <<>>

LEMMA ReadInvInit == WriterInit => ReadInv
<1> SUFFICES ASSUME WriterInit PROVE ReadInv
  OBVIOUS
<1>1. \A t \in Time : disk[t].pkts = <<>> /\ Contents(disk[t]) = {}
  BY DEF WriterInit, NoFile, Contents
<1>2. ReadOrder
  <2>1. \A t \in Time : DOMAIN disk[t].pkts = {}
    BY <1>1
  <2>2. \A t \in Time : \A i, j \in DOMAIN disk[t].pkts : disk[t].pkts[i] < disk[t].pkts[j]
    BY <2>1
  <2> QED BY <1>1, <2>2, Zenon DEF ReadOrder
<1>3. outFile <= now
  <2>1. outFile = 0 /\ now = 0
    BY DEF WriterInit
  <2> QED BY <2>1
<1> QED BY <1>1, <1>2, <1>3 DEF ReadInv

(* The packets of the files stay.                                          *)
LEMMA SameRead ==
    ASSUME ReadInv, \A t \in Time : disk'[t].pkts = disk[t].pkts, outFile' = outFile
    PROVE  /\ ReadOrder'
           /\ ~ClockMayStepBack => \A t \in Time : t > outFile' => disk'[t].pkts = <<>>
<1>1. \A t \in Time : Contents(disk'[t]) = Contents(disk[t])
  BY DEF Contents
<1> QED BY <1>1 DEF ReadInv, ReadOrder

LEMMA OpenRead ==
    ASSUME TypeInv, ReadInv, NEW o \in {"ok", "open", "header"}, OpenNext(o), UNCHANGED now
    PROVE  ReadInv'
<1>1. outFile' = now /\ now \in Time /\ outFile \in Time /\ disk \in [Time -> File]
  BY DEF OpenNext, construct_filename, TypeInv, WriterTypeOK
<1>2. \A t \in Time : disk'[t].pkts = disk[t].pkts \/ disk'[t].pkts = <<>>
  <2>1. ASSUME NEW st \in {"open", "bare"}, OpenFile(st)
        PROVE  \A t \in Time : disk'[t].pkts = disk[t].pkts \/ disk'[t].pkts = <<>>
    <3>1. disk' = [disk EXCEPT ![now] = [state |-> st, pkts |-> <<>>]]
      BY <1>1, <2>1 DEF OpenFile
    <3> QED BY <1>1, <3>1
  <2>2. CASE o = "open"
    BY <2>2 DEF OpenNext
  <2>3. CASE o # "open"
    BY <2>1, <2>3 DEF OpenNext
  <2> QED BY <2>2, <2>3
<1>3. \A t \in Time : Contents(disk'[t]) \subseteq Contents(disk[t])
  BY <1>2 DEF Contents
<1>4. ReadOrder'
  <2>1. ASSUME NEW t \in Time, NEW i \in DOMAIN disk'[t].pkts, NEW j \in DOMAIN disk'[t].pkts, i < j
        PROVE  disk'[t].pkts[i] < disk'[t].pkts[j]
    <3>1. disk'[t].pkts # <<>>
      BY <2>1
    <3>2. disk'[t].pkts = disk[t].pkts
      BY <1>2, <3>1
    <3> QED BY <2>1, <3>2 DEF ReadInv, ReadOrder
  <2>2. ~ClockMayStepBack => \A s, t \in Time : s < t =>
            \A q \in Contents(disk'[s]), r \in Contents(disk'[t]) : q < r
    BY <1>3 DEF ReadInv, ReadOrder
  <2> QED BY <2>1, <2>2 DEF ReadOrder
<1>5. ~ClockMayStepBack => \A t \in Time : t > outFile' => disk'[t].pkts = <<>>
  <2> SUFFICES ASSUME ~ClockMayStepBack, NEW t \in Time, t > now PROVE disk'[t].pkts = <<>>
    BY <1>1
  <2>1. t > outFile
    BY <1>1, BoundAssumption DEF ReadInv, Time
  <2>2. disk[t].pkts = <<>>
    BY <2>1 DEF ReadInv
  <2> QED BY <1>2, <2>2
<1> QED BY <1>1, <1>4, <1>5, BoundAssumption DEF ReadInv, Time

LEMMA WriteRead ==
    ASSUME StoreInv, ReadInv, flush_write, ~Die("write"), disk' # disk
    PROVE  ReadInv'
<1> DEFINE p == Departed + 1
<1>1. TypeInv /\ OrderInv /\ PlaceInv /\ Departed \in Nat
  BY DEF StoreInv, OrderInv
<1>2. /\ disk' = [disk EXCEPT ![outFile].pkts = Append(@, buf[at + 1])]
      /\ UNCHANGED <<outFile, now>> /\ at < Len(buf)
  BY DEF flush_write, output, clock
<1>3. buf[at + 1] = p /\ p \in Packet
  <2>1. at \in Nat /\ at + 1 \in 1..Len(buf) /\ buf \in Seq(Packet)
    BY <1>1, <1>2 DEF TypeInv, WriterTypeOK
  <2>2. buf[at + 1] = Departed - at + (at + 1)
    BY <1>1, <2>1 DEF OrderInv
  <2>3. buf[at + 1] \in Packet
    BY <2>1
  <2> HIDE DEF Departed
  <2> QED BY <1>1, <2>1, <2>2, <2>3
<1>4. disk \in [Time -> File] /\ outFile \in Time /\ disk[outFile] \in File
  BY <1>1 DEF TypeInv, WriterTypeOK
<1>5. /\ \A t \in Time : Contents(disk'[t]) =
            IF t = outFile THEN Contents(disk[t]) \cup {p} ELSE Contents(disk[t])
      /\ \A t \in Time : t # outFile => disk'[t] = disk[t]
      /\ disk'[outFile].pkts = Append(disk[outFile].pkts, p)
  BY <1>1, <1>2, <1>3, <1>4, WrittenDisk DEF File
<1>6. \A t \in Time : \A q \in Contents(disk[t]) : q \in Nat /\ q < p
  <2>1. \A t \in Time : Contents(disk[t]) \subseteq 1..Departed
    BY <1>1 DEF PlaceInv, OnDisk
  <2> HIDE DEF Departed
  <2> QED BY <1>1, <2>1
<1> HIDE DEF p
<1>7. ASSUME NEW i \in DOMAIN disk'[outFile].pkts, NEW j \in DOMAIN disk'[outFile].pkts, i < j
      PROVE  disk'[outFile].pkts[i] < disk'[outFile].pkts[j]
  <2> DEFINE s == disk[outFile].pkts
  <2>1. s \in Seq(Packet)
    BY <1>4 DEF File
  <2>2. i \in 1..Len(s) /\ j \in 1..Len(s) + 1 /\ Len(s) \in Nat
    BY <1>3, <1>5, <1>7, <2>1
  <2>3. s[i] \in Contents(disk[outFile])
    BY <2>1, <2>2 DEF Contents
  <2>4. CASE j = Len(s) + 1
    <3>1. Append(s, p)[i] = s[i] /\ Append(s, p)[j] = p
      BY <1>3, <2>1, <2>2, <2>4, AppendProperties
    <3>2. s[i] < p
      BY <1>4, <1>6, <2>3
    <3> QED BY <1>5, <3>1, <3>2
  <2>5. CASE j \in 1..Len(s)
    <3>1. Append(s, p)[i] = s[i] /\ Append(s, p)[j] = s[j]
      BY <1>3, <2>1, <2>2, <2>5, AppendProperties
    <3>2. s[i] < s[j]
      BY <1>4, <1>7, <2>1, <2>2, <2>5 DEF ReadInv, ReadOrder
    <3> QED BY <1>5, <3>1, <3>2
  <2> QED BY <2>2, <2>4, <2>5
<1>8. ASSUME ~ClockMayStepBack, NEW s \in Time, NEW t \in Time, s < t,
             NEW q \in Contents(disk'[s]), NEW r \in Contents(disk'[t])
      PROVE  q < r
  <2>1. t <= outFile
    <3>1. CASE t > outFile
      <4>1. disk'[t].pkts = <<>>
        BY <1>4, <1>5, <1>8, <3>1, BoundAssumption DEF ReadInv, Time
      <4> QED BY <1>8, <4>1 DEF Contents
    <3> QED BY <1>4, <3>1, BoundAssumption DEF Time
  <2>2. s # outFile /\ q \in Contents(disk[s])
    BY <1>4, <1>5, <1>8, <2>1, BoundAssumption DEF Time
  <2>3. CASE r \in Contents(disk[t])
    BY <1>8, <2>2, <2>3 DEF ReadInv, ReadOrder
  <2>4. CASE r = p
    BY <1>6, <2>2, <2>4
  <2> QED BY <1>5, <1>8, <2>3, <2>4
<1>9. ReadOrder'
  <2>1. \A t \in Time : \A i, j \in DOMAIN disk'[t].pkts :
            i < j => disk'[t].pkts[i] < disk'[t].pkts[j]
    <3> TAKE t \in Time
    <3>1. CASE t = outFile
      BY <1>7, <3>1
    <3>2. CASE t # outFile
      BY <1>5, <3>2 DEF ReadInv, ReadOrder
    <3> QED BY <3>1, <3>2
  <2> QED BY <1>8, <2>1 DEF ReadOrder
<1>10. ~ClockMayStepBack => \A t \in Time : t > outFile => disk'[t].pkts = <<>>
  BY <1>4, <1>5, BoundAssumption DEF ReadInv, Time
<1> QED BY <1>2, <1>9, <1>10 DEF ReadInv

LEMMA ReadInvStep == StoreInv /\ ReadInv /\ [WriterNext]_wvars => ReadInv'
<1> SUFFICES ASSUME StoreInv, ReadInv, [WriterNext]_wvars PROVE ReadInv'
  OBVIOUS
<1> USE DEF thread, buffer, output, clock, ghosts
<1>0. TypeInv
  BY DEF StoreInv
<1>a. ASSUME \A t \in Time : disk'[t].pkts = disk[t].pkts, UNCHANGED <<outFile, now>>
      PROVE  ReadInv'
  BY <1>a, SameRead DEF ReadInv
<1>b. ASSUME NEW c, Die(c) PROVE ReadInv'
  BY <1>a, <1>b DEF Die
<1>1. ASSUME NEW o \in WriterOutcomes, init_stream_writer(o) PROVE ReadInv'
  <2>1. CASE o \in {"ok", "open", "header"}
    BY <1>0, <1>1, <2>1, OpenRead DEF init_stream_writer
  <2>2. CASE o \in {"format", "streams", "codec"}
    <3>1. outFile' = now /\ UNCHANGED <<disk, now>> /\ now \in Time /\ outFile \in Time
      BY <1>0, <1>1, <2>2 DEF init_stream_writer, construct_filename, TypeInv, WriterTypeOK
    <3>2. ReadOrder'
      BY <3>1 DEF ReadInv, ReadOrder, Contents
    <3> QED BY <3>1, <3>2, BoundAssumption DEF ReadInv, Time
  <2> QED BY <2>1, <2>2 DEF WriterOutcomes
<1>2. CASE buffer_frame
  BY <1>a, <1>b, <1>2 DEF buffer_frame
<1>3. CASE close_writer
  BY <1>a, <1>b, <1>3 DEF close_writer
<1>4. CASE flush_write
  <2>1. CASE Die("write")
    BY <1>b, <2>1
  <2>2. CASE ~Die("write") /\ disk' = disk
    <3>1. UNCHANGED <<outFile, now>>
      BY <1>4, <2>2 DEF flush_write
    <3> QED BY <1>a, <2>2, <3>1
  <2> QED BY <1>4, <2>1, <2>2, WriteRead
<1>5. CASE flush_seal
  <2>1. CASE Die("seal")
    BY <1>b, <2>1
  <2>2. CASE ~Die("seal")
    <3>1. /\ UNCHANGED <<outFile, now>>
          /\ \/ disk' = disk
             \/ disk' = [disk EXCEPT ![outFile].state = "complete"]
      BY <1>5, <2>2 DEF flush_seal
    <3>2. outFile \in Time /\ disk \in [Time -> File]
      BY <1>0 DEF TypeInv, WriterTypeOK
    <3>3. \A t \in Time : disk[t] \in File
      BY <3>2
    <3>4. \A t \in Time : disk'[t].pkts = disk[t].pkts
      BY <3>1, <3>2, <3>3 DEF File
    <3> QED BY <1>a, <3>1, <3>4
  <2> QED BY <2>1, <2>2
<1>6. CASE rollover_output_file
  BY <1>0, <1>6, OpenRead DEF rollover_output_file, RollOver
<1>7. CASE free_stream_writer
  BY <1>a, <1>b, <1>7 DEF free_stream_writer
<1>8. CASE client_ends
  BY <1>b, <1>8 DEF client_ends
<1>9. CASE Tick
  <2>1. UNCHANGED <<disk, outFile>> /\ (~ClockMayStepBack => now' = now + 1)
    BY <1>9 DEF Tick
  <2>2. ~ClockMayStepBack => outFile' <= now'
    BY <1>0, <2>1, BoundAssumption DEF ReadInv, TypeInv, WriterTypeOK, Time
  <2> QED BY <2>1, <2>2, SameRead DEF ReadInv
<1>10. CASE UNCHANGED wvars
  BY <1>a, <1>10 DEF wvars
<1> QED
  BY <1>1, <1>2, <1>3, <1>4, <1>5, <1>6, <1>7, <1>8, <1>9, <1>10
  DEF WriterNext, WriterStep, WriterFlush, WriterEnded

(* Files hold their packets in the order they were read, and hold the      *)
(* recording in the order of their names while the clock does not go back  *)
(* (AVIO.c:145-164, 177-184).                                              *)
THEOREM FilesKeepReadOrder == WriterSpec => []ReadOrder
<1>1. ReadInv => ReadOrder
  BY DEF ReadInv
<1>2. StoreInv /\ ReadInv /\ [WriterNext]_wvars => StoreInv' /\ ReadInv'
  BY StoreInvStep, ReadInvStep
<1> QED BY <1>1, <1>2, StoreInvInit, ReadInvInit, PTL DEF WriterSpec
-----------------------------------------------------------------------------
(* While the muxer is live the file it writes is not finished. *)
LiveInv == mux = "live" => disk[outFile].state = "open"

(* A file is opened: its old contents count as lost, no other is touched.  *)
LEMMA OpenLeavesOthers ==
  ASSUME TypeInv, NEW o \in {"ok", "open", "header"}, OpenNext(o)
  PROVE  /\ LiveInv'
         /\ \A t \in Time : disk'[t] = disk[t] \/ Contents(disk[t]) \subseteq clobbered'
<1>1. outFile' \in Time /\ disk \in [Time -> File]
  <2>1. outFile' = now
    BY DEF OpenNext, construct_filename
  <2> QED BY <2>1 DEF TypeInv, WriterTypeOK
<1>2. CASE o = "open"
  <2>1. OpenNext("open")
    BY <1>2
  <2>2. mux' = "dead" /\ UNCHANGED disk
    BY <2>1 DEF OpenNext
  <2> QED BY <2>2 DEF LiveInv
<1>3. ASSUME NEW st, OpenFile(st)
      PROVE  /\ disk'[outFile'] = [state |-> st, pkts |-> <<>>]
             /\ \A t \in Time : disk'[t] = disk[t] \/ Contents(disk[t]) \subseteq clobbered'
  BY <1>1, <1>3 DEF OpenFile
<1>4. CASE o = "ok"
  <2>1. OpenNext("ok")
    BY <1>4
  <2>2. OpenFile("open")
    BY <2>1 DEF OpenNext
  <2>3. /\ disk'[outFile'] = [state |-> "open", pkts |-> <<>>]
        /\ \A t \in Time : disk'[t] = disk[t] \/ Contents(disk[t]) \subseteq clobbered'
    <3> HIDE DEF OpenFile, Contents
    <3> QED BY <1>3, <2>2, ZenonT(30)
  <2>4. disk'[outFile'].state = "open"
    BY <2>3
  <2> QED BY <2>3, <2>4 DEF LiveInv
<1>5. CASE o = "header"
  <2>0. OpenNext("header")
    BY <1>5
  <2>1. OpenFile("bare") /\ mux' = "dead"
    BY <2>0 DEF OpenNext
  <2> QED BY <1>3, <2>1 DEF LiveInv
<1> QED BY <1>2, <1>4, <1>5

LEMMA FileStep ==
  ASSUME TypeInv, LiveInv, [WriterNext]_wvars
  PROVE  /\ LiveInv'
         /\ \A t \in Time : disk[t].state = "complete" =>
               disk'[t] = disk[t] \/ Contents(disk[t]) \subseteq clobbered'
<1> DEFINE Stay == \A t \in Time : disk[t].state = "complete" =>
                      disk'[t] = disk[t] \/ Contents(disk[t]) \subseteq clobbered'
<1> SUFFICES LiveInv' /\ Stay
  OBVIOUS
<1> USE DEF output
<1>a. ASSUME UNCHANGED <<disk, outFile>>, mux' # "live" \/ mux' = mux
      PROVE  LiveInv' /\ Stay
  BY <1>a DEF LiveInv
<1>b. ASSUME NEW c, Die(c) PROVE LiveInv' /\ Stay
  BY <1>a, <1>b DEF Die
<1>0. outFile \in Time /\ disk \in [Time -> File]
  BY DEF TypeInv, WriterTypeOK
<1>1. ASSUME NEW o \in WriterOutcomes, init_stream_writer(o) PROVE LiveInv' /\ Stay
  <2>1. CASE o \in {"ok", "open", "header"}
    BY <1>1, <2>1, OpenLeavesOthers DEF init_stream_writer
  <2>2. CASE o \in {"format", "streams", "codec"}
    BY <1>1, <2>2 DEF init_stream_writer, LiveInv
  <2> QED BY <2>1, <2>2 DEF WriterOutcomes
<1>2. CASE buffer_frame \/ close_writer
  BY <1>a, <1>b, <1>2 DEF buffer_frame, close_writer
<1>3. CASE flush_write
  <2>1. CASE mux = "live" /\ disk' = [disk EXCEPT ![outFile].pkts = Append(@, buf[at + 1])]
                /\ UNCHANGED <<mux, outFile>>
    <3>1. disk[outFile].state = "open" /\ disk[outFile] \in File
      BY <1>0, <2>1 DEF LiveInv
    <3>2. disk'[outFile].state = disk[outFile].state
      BY <1>0, <2>1, <3>1 DEF File
    <3>3. \A t \in Time : t # outFile => disk'[t] = disk[t]
      BY <1>0, <2>1
    <3> QED BY <2>1, <3>1, <3>2, <3>3 DEF LiveInv
  <2> QED BY <1>a, <1>b, <1>3, <2>1 DEF flush_write
<1>4. CASE flush_seal
  <2>1. CASE mux = "live" /\ disk' = [disk EXCEPT ![outFile].state = "complete"] /\ mux' = "dead"
    <3>1. disk[outFile].state = "open"
      BY <2>1 DEF LiveInv
    <3>2. \A t \in Time : t # outFile => disk'[t] = disk[t]
      BY <1>0, <2>1
    <3> QED BY <2>1, <3>1, <3>2 DEF LiveInv
  <2> QED BY <1>a, <1>b, <1>4, <2>1 DEF flush_seal
<1>5. CASE rollover_output_file
  BY <1>5, OpenLeavesOthers DEF rollover_output_file, RollOver
<1>6. CASE free_stream_writer \/ client_ends
  BY <1>a, <1>b, <1>6 DEF free_stream_writer, client_ends
<1>7. CASE Tick \/ UNCHANGED wvars
  BY <1>a, <1>7 DEF Tick, wvars
<1> QED BY <1>1, <1>2, <1>3, <1>4, <1>5, <1>6, <1>7
  DEF WriterNext, WriterStep, WriterFlush, WriterEnded

(* What was finished stays as it is until a later file of the same name    *)
(* truncates it as a whole (AVIO.c:165-167, 187-190).                      *)
THEOREM FinishedFilesAlwaysStay == WriterSpec => FinishedFilesStay
<1>1. WriterInit => TypeInv /\ LiveInv
  BY TypeInvInit DEF WriterInit, LiveInv
<1>2. TypeInv /\ LiveInv /\ [WriterNext]_wvars => TypeInv' /\ LiveInv'
  BY TypeInvStep, FileStep
<1>3. TypeInv /\ LiveInv /\ [WriterNext]_wvars =>
        [\A t \in Time : disk[t].state = "complete" =>
            disk'[t] = disk[t] \/ Contents(disk[t]) \subseteq clobbered']_wvars
  BY FileStep
<1> QED BY <1>1, <1>2, <1>3, PTL DEF WriterSpec, FinishedFilesStay
=============================================================================
