-------------------------- MODULE PacketStoreProofs --------------------------
(***************************************************************************)
(* The recorder keeps each packet in exactly one place and implements the  *)
(* packet store, for every buffer size, every rate and every clock.        *)
(*                                                                         *)
(* Departed is the number of packets that have left memory.  The packets   *)
(* waiting are those numbered from Departed + 1 to accepted, in order, and *)
(* the ones on disk, lost and clobbered are those up to Departed.          *)
(***************************************************************************)
EXTENDS RtspStreamWriterProofs, SequenceTheorems

USE DEF NoPacket

Behind == IF pend = NoPacket THEN 0 ELSE 1
Departed == accepted - (Len(buf) - at) - Behind

OrderInv ==
    /\ Departed \in Nat
    /\ \A k \in 1..Len(buf) : buf[k] = Departed - at + k
    /\ pend # NoPacket => pend = accepted
    /\ wpc \in {"uninit", "idle"} => pend = NoPacket
    /\ wpc = "uninit" => buf = <<>>

PlaceInv ==
    /\ OnDisk \cup lost \cup clobbered = 1..Departed
    /\ lost \cap clobbered = {}
    /\ OnDisk \cap (lost \cup clobbered) = {}
    /\ \A s, t \in Time : s # t => Contents(disk[s]) \cap Contents(disk[t]) = {}

(* Arithmetic of Departed. *)
LEMMA DepartedIs ==
  \A a, l, i, b : a = 0 /\ l = 0 /\ i = 0 /\ b = 0 => a - (l - i) - b = 0
OBVIOUS

(* The packets in memory, in order. *)
LEMMA WaitingInOrder ==
  ASSUME TypeInv, OrderInv
  PROVE  /\ Waiting \in Seq(Packet) /\ Len(Waiting) = accepted - Departed
         /\ \A k \in 1..Len(Waiting) : Waiting[k] = Departed + k
<1> DEFINE rest == SubSeq(buf, at + 1, Len(buf))
           last == IF pend = NoPacket THEN <<>> ELSE <<pend>>
<1>1. /\ buf \in Seq(Packet) /\ at \in Nat /\ Len(buf) \in Nat /\ at <= Len(buf)
      /\ accepted \in Nat
  BY BoundAssumption DEF TypeInv, WriterTypeOK
<1>2. /\ rest \in Seq(Packet) /\ Len(rest) = Len(buf) - at
      /\ \A i \in 1..Len(buf) - at : rest[i] = buf[at + i]
  <2>1. \A i \in at + 1..Len(buf) : buf[i] \in Packet
    BY <1>1
  <2>2. /\ rest \in Seq(Packet)
        /\ Len(rest) = IF at + 1 <= Len(buf) THEN Len(buf) - (at + 1) + 1 ELSE 0
        /\ \A i \in 1..Len(buf) - (at + 1) + 1 : rest[i] = buf[at + 1 + i - 1]
    BY <1>1, <2>1, SubSeqProperties
  <2> HIDE DEF rest
  <2> QED BY <1>1, <2>2
<1>3. last \in Seq(Packet) /\ Len(last) = Behind /\ (Behind = 1 => last[1] = accepted)
  BY DEF TypeInv, WriterTypeOK, OrderInv, Behind
<1> HIDE DEF rest, last
<1>4. /\ rest \o last \in Seq(Packet)
      /\ Len(rest \o last) = Len(rest) + Len(last)
      /\ \A i \in 1..Len(rest) + Len(last) :
            (rest \o last)[i] = IF i <= Len(rest) THEN rest[i] ELSE last[i - Len(rest)]
  BY <1>2, <1>3, ConcatProperties
<1>5. Waiting = rest \o last
  BY DEF Waiting, rest, last
<1>6. Behind \in {0, 1}
  BY DEF Behind
<1>7. ASSUME NEW k \in 1..Len(rest) + Len(last)
      PROVE  (rest \o last)[k] = Departed + k
  <2>1. CASE k <= Len(rest)
    <3>1. (rest \o last)[k] = buf[at + k] /\ at + k \in 1..Len(buf)
      BY <1>1, <1>2, <1>4, <2>1
    <3> QED BY <1>1, <1>6, <3>1 DEF OrderInv
  <2>2. CASE ~(k <= Len(rest))
    <3>1. Behind = 1 /\ k = Len(rest) + 1
      BY <1>1, <1>2, <1>3, <1>6, <2>2
    <3>2. (rest \o last)[k] = last[k - Len(rest)] /\ k - Len(rest) = 1
      BY <1>1, <1>2, <1>4, <2>2, <3>1
    <3> QED BY <1>1, <1>2, <1>3, <3>1, <3>2 DEF Departed
  <2> QED BY <2>1, <2>2
<1>8. Len(rest) + Len(last) = accepted - Departed
  BY <1>1, <1>2, <1>3, <1>6 DEF Departed
<1> QED BY <1>4, <1>5, <1>7, <1>8

LEMMA InMemoryIs ==
  ASSUME TypeInv, OrderInv
  PROVE  InMemory = Departed + 1..accepted
<1>1. accepted \in Nat /\ Departed \in Nat
  BY BoundAssumption DEF TypeInv, WriterTypeOK, OrderInv
<1>2. DOMAIN Waiting = 1..accepted - Departed
  BY WaitingInOrder
<1>3. \A k \in 1..accepted - Departed : Waiting[k] = Departed + k
  BY WaitingInOrder
<1>4. \A p \in Departed + 1..accepted : p - Departed \in 1..accepted - Departed
        /\ Departed + (p - Departed) = p
  BY <1>1
<1>5. ASSUME NEW p \in Departed + 1..accepted
      PROVE  p \in InMemory
  BY <1>2, <1>3, <1>4 DEF InMemory
<1>6. ASSUME NEW p \in InMemory
      PROVE  p \in Departed + 1..accepted
  <2>1. PICK k \in 1..accepted - Departed : p = Waiting[k]
    BY <1>2 DEF InMemory
  <2>2. p = Departed + k
    BY <1>3, <2>1
  <2> QED BY <1>1, <2>2
<1> QED BY <1>5, <1>6

-----------------------------------------------------------------------------
(* What a step does to the packets: one is taken in, the first one leaves  *)
(* memory, a file is opened, or all stay where they are.                   *)
Took ==
    accepted' = accepted + 1 /\ Departed' = Departed /\ UNCHANGED <<disk, lost, clobbered>>
Wrote ==
    /\ accepted' = accepted /\ Departed' = Departed + 1 /\ clobbered' = clobbered
    /\ \/ /\ disk' = [disk EXCEPT ![outFile].pkts = Append(@, Departed + 1)]
          /\ lost' = lost
       \/ disk' = disk /\ lost' = lost \cup {Departed + 1}
Opened ==
    /\ accepted' = accepted /\ Departed' = Departed /\ lost' = lost
    /\ \E t \in Time, st \in FileState :
          /\ disk' = [disk EXCEPT ![t] = [state |-> st, pkts |-> <<>>]]
          /\ clobbered' = clobbered \cup Contents(disk[t])
Kept ==
    /\ accepted' = accepted /\ Departed' = Departed
    /\ lost' = lost /\ clobbered' = clobbered
    /\ \A t \in Time : disk'[t].pkts = disk[t].pkts

(* A file is opened, or the open has failed. *)
LEMMA OpenNextEffect ==
  ASSUME TypeInv, NEW o \in {"ok", "open", "header"}, OpenNext(o)
  PROVE  \/ disk' = disk /\ clobbered' = clobbered
         \/ \E t \in Time, st \in FileState :
               /\ disk' = [disk EXCEPT ![t] = [state |-> st, pkts |-> <<>>]]
               /\ clobbered' = clobbered \cup Contents(disk[t])
<1>1. outFile' \in Time
  BY DEF OpenNext, construct_filename, TypeInv, WriterTypeOK
<1>2. CASE o = "ok"
  BY <1>1, <1>2 DEF OpenNext, OpenFile, FileState
<1>3. CASE o = "header"
  BY <1>1, <1>3 DEF OpenNext, OpenFile, FileState
<1>4. CASE o = "open"
  BY <1>4 DEF OpenNext
<1> QED BY <1>2, <1>3, <1>4

LEMMA StepEffect ==
  ASSUME TypeInv, OrderInv, [WriterNext]_wvars
  PROVE  OrderInv' /\ (Took \/ Wrote \/ Opened \/ Kept)
<1> USE DEF OrderInv, Departed, Behind, thread, buffer, output, clock, ghosts
<1>0. /\ at \in Nat /\ Len(buf) \in Nat /\ accepted \in Nat /\ buf \in Seq(Packet)
      /\ at <= Len(buf) /\ pend \in Packet \cup {NoPacket}
  BY BoundAssumption DEF TypeInv, WriterTypeOK
<1>00. ASSUME UNCHANGED <<buf, at, pend, accepted, disk, lost, clobbered>>,
              wpc' \notin {"uninit", "idle"} \/ wpc' = wpc
       PROVE  OrderInv' /\ Kept
  BY <1>00 DEF Kept
<1>1. ASSUME NEW o \in WriterOutcomes, init_stream_writer(o)
      PROVE  OrderInv' /\ (Opened \/ Kept)
  <2>1. /\ wpc = "uninit" /\ wpc' = "idle" /\ buf' = <<>>
        /\ UNCHANGED <<at, pend, accepted, lost>>
    BY <1>1 DEF init_stream_writer
  <2>2. buf' = buf
    BY <2>1
  <2>3. OrderInv'
    BY <2>1, <2>2
  <2>4. CASE o \in {"ok", "open", "header"}
    <3>1. OpenNext(o)
      BY <1>1, <2>4 DEF init_stream_writer
    <3> QED BY <2>1, <2>2, <2>3, <2>4, <3>1, OpenNextEffect DEF Opened, Kept
  <2>5. CASE o \in {"format", "streams", "codec"}
    BY <1>1, <2>1, <2>2, <2>3, <2>5 DEF init_stream_writer, Kept
  <2> QED BY <2>4, <2>5 DEF WriterOutcomes
<1>2. CASE buffer_frame
  <2>1. CASE wpc = "uninit"
    BY <1>00, <1>2, <2>1 DEF buffer_frame, Die
  <2>2. CASE wpc = "idle"
    <3>1. at = 0 /\ pend = NoPacket
      BY <2>2 DEF TypeInv
    <3>2. accepted + 1 \in Packet /\ accepted' = accepted + 1
          /\ UNCHANGED <<disk, lost, clobbered>>
      BY <1>0, <1>2, <2>2, BoundAssumption DEF buffer_frame, Packet
    <3>3. CASE Len(buf) = MaxBufferSize
      <4>1. wpc' = "write" /\ at' = 0 /\ pend' = accepted + 1 /\ buf' = buf
        BY <1>2, <2>2, <3>3 DEF buffer_frame
      <4>2. Departed' = Departed
        <5>1. Behind = 0 /\ Behind' = 1 /\ Len(buf') = Len(buf)
          BY <1>0, <3>1, <4>1
        <5> HIDE DEF Behind
        <5> QED BY <1>0, <3>1, <3>2, <4>1, <5>1
      <4>3. OrderInv'
        <5>1. \A k \in 1..Len(buf) : buf[k] = Departed - at + k
          OBVIOUS
        <5> HIDE DEF Departed
        <5> QED BY <3>1, <3>2, <4>1, <4>2, <5>1
      <4> HIDE DEF Departed, OrderInv
      <4> QED BY <3>2, <4>2, <4>3 DEF Took
    <3>4. CASE Len(buf) # MaxBufferSize
      <4>1. wpc' = wpc /\ at' = at /\ pend' = pend /\ buf' = Append(buf, accepted + 1)
        BY <1>2, <2>2, <3>4 DEF buffer_frame
      <4>2. /\ Len(buf') = Len(buf) + 1 /\ buf'[Len(buf) + 1] = accepted + 1
            /\ \A k \in 1..Len(buf) : buf'[k] = buf[k]
        BY <1>0, <3>2, <4>1, AppendProperties
      <4>3. Departed' = Departed
        BY <1>0, <3>1, <3>2, <4>1, <4>2
      <4>4. Departed = accepted - Len(buf)
        BY <1>0, <3>1
      <4>5. OrderInv'
        <5>1. \A k \in 1..Len(buf) : buf[k] = Departed - at + k
          OBVIOUS
        <5> HIDE DEF Departed
        <5>2. ASSUME NEW k \in 1..Len(buf') PROVE buf'[k] = Departed' - at' + k
          BY <1>0, <3>1, <4>1, <4>2, <4>3, <4>4, <5>1
        <5> QED BY <2>2, <3>1, <4>1, <4>3, <5>2
      <4> HIDE DEF Departed, OrderInv
      <4> QED BY <3>2, <4>3, <4>5 DEF Took
    <3> QED BY <3>3, <3>4
  <2> QED BY <1>2, <2>1, <2>2 DEF buffer_frame
<1>3. CASE close_writer
  <2>1. CASE wpc = "uninit"
    BY <1>00, <1>3, <2>1 DEF close_writer, Die
  <2>2. CASE wpc = "idle"
    <3>1. at = 0 /\ at' = 0 /\ wpc' = "write"
          /\ UNCHANGED <<buf, pend, accepted, disk, lost, clobbered>>
      BY <1>3, <2>2 DEF close_writer, TypeInv
    <3> QED BY <1>00, <3>1
  <2> QED BY <1>3, <2>1, <2>2 DEF close_writer
<1>4. CASE flush_write
  <2>1. CASE Die("write")
    BY <1>00, <2>1 DEF Die
  <2>2. CASE ~Die("write")
    <3>1. /\ wpc = "write" /\ at < Len(buf) /\ at' = at + 1
          /\ UNCHANGED <<wpc, buf, pend, accepted, clobbered>>
      BY <1>4, <2>2 DEF flush_write
    <3>2. buf[at + 1] = Departed + 1
      BY <1>0, <3>1
    <3>3. \/ disk' = [disk EXCEPT ![outFile].pkts = Append(@, Departed + 1)] /\ lost' = lost
          \/ disk' = disk /\ lost' = lost \cup {Departed + 1}
      BY <1>4, <2>2, <3>2 DEF flush_write
    <3>4. Departed' = Departed + 1
      BY <1>0, <3>1
    <3>5. Wrote
      <4> HIDE DEF Departed
      <4> QED BY <3>1, <3>3, <3>4 DEF Wrote
    <3> QED BY <1>0, <3>1, <3>5
  <2> QED BY <2>1, <2>2
<1>5. CASE flush_seal
  <2>1. CASE Die("seal")
    BY <1>00, <2>1 DEF Die
  <2>2. CASE ~Die("seal")
    <3>1. /\ at = Len(buf) /\ buf' = <<>> /\ at' = 0
          /\ wpc' = (IF closing THEN "closed" ELSE "roll")
          /\ UNCHANGED <<pend, accepted, lost, clobbered>>
      BY <1>5, <2>2 DEF flush_seal
    <3>2. disk' = disk \/ disk' = [disk EXCEPT ![outFile].state = "complete"]
      BY <1>5, <2>2 DEF flush_seal
    <3>3. \A t \in Time : disk'[t].pkts = disk[t].pkts
      BY <3>2 DEF TypeInv, WriterTypeOK, File
    <3> QED BY <1>0, <3>1, <3>3 DEF Kept
  <2> QED BY <2>1, <2>2
<1>6. CASE rollover_output_file
  <2> PICK o \in {"ok", "open", "header"} : RollOver(o)
    BY <1>6 DEF rollover_output_file
  <2>1. /\ wpc = "roll" /\ wpc' = "idle" /\ OpenNext(o) /\ pend' = NoPacket
        /\ buf' = Append(buf, pend) /\ UNCHANGED <<at, accepted, lost>>
    BY <1>6 DEF rollover_output_file, RollOver
  <2>2. buf = <<>> /\ at = 0 /\ pend = accepted /\ pend # NoPacket /\ pend \in Packet
    BY <1>0, <2>1 DEF TypeInv
  <2>3. Len(buf') = 1 /\ buf'[1] = accepted
    BY <2>1, <2>2
  <2>4. OrderInv' /\ Departed' = Departed
    BY <1>0, <2>1, <2>2, <2>3
  <2> HIDE DEF OrderInv, Departed
  <2> QED BY <2>1, <2>4, OpenNextEffect DEF Opened, Kept
<1>7. CASE free_stream_writer
  BY <1>00, <1>7 DEF free_stream_writer, Die
<1>8. CASE client_ends
  BY <1>00, <1>8 DEF client_ends, Die
<1>9. CASE Tick
  BY <1>00, <1>9 DEF Tick
<1>10. CASE UNCHANGED wvars
  BY <1>00, <1>10 DEF wvars
<1> QED
  BY <1>1, <1>2, <1>3, <1>4, <1>5, <1>6, <1>7, <1>8, <1>9, <1>10
  DEF WriterNext, WriterStep, WriterFlush, WriterEnded

-----------------------------------------------------------------------------
(* Where the packets on disk are after each effect.                        *)
LEMMA ContentsSet ==
  ASSUME TypeInv, NEW t \in Time
  PROVE  Contents(disk[t]) \subseteq Packet
BY DEF Contents, TypeInv, WriterTypeOK, File

LEMMA AppendContents ==
  ASSUME NEW f \in File, NEW p \in Packet
  PROVE  Contents([f EXCEPT !.pkts = Append(@, p)]) = Contents(f) \cup {p}
<1> DEFINE s == f.pkts
<1>1. s \in Seq(Packet)
  BY DEF File
<1>2. [f EXCEPT !.pkts = Append(@, p)].pkts = Append(s, p)
  BY DEF File
<1> HIDE DEF s
<1>3. /\ Len(Append(s, p)) = Len(s) + 1 /\ Append(s, p) \in Seq(Packet)
      /\ \A i \in 1..Len(s) : Append(s, p)[i] = s[i]
      /\ Append(s, p)[Len(s) + 1] = p
  BY <1>1, AppendProperties
<1>4. DOMAIN s = 1..Len(s) /\ DOMAIN Append(s, p) = 1..Len(s) + 1 /\ Len(s) \in Nat
  BY <1>1, <1>3
<1>5. {Append(s, p)[k] : k \in DOMAIN Append(s, p)} = {s[k] : k \in DOMAIN s} \cup {p}
  <2>1. ASSUME NEW k \in DOMAIN Append(s, p)
        PROVE  Append(s, p)[k] \in {s[j] : j \in DOMAIN s} \cup {p}
    <3>1. k \in 1..Len(s) \/ k = Len(s) + 1
      BY <1>4
    <3> QED BY <1>3, <1>4, <3>1
  <2>2. ASSUME NEW k \in DOMAIN s
        PROVE  k \in DOMAIN Append(s, p) /\ Append(s, p)[k] = s[k]
    BY <1>3, <1>4
  <2>3. Len(s) + 1 \in DOMAIN Append(s, p)
    BY <1>4
  <2> QED BY <1>3, <2>1, <2>2, <2>3
<1> QED BY <1>2, <1>5 DEF Contents, s

LEMMA KeptDisk ==
  ASSUME \A t \in Time : disk'[t].pkts = disk[t].pkts
  PROVE  OnDisk' = OnDisk /\ \A t \in Time : Contents(disk'[t]) = Contents(disk[t])
<1>1. \A t \in Time : Contents(disk'[t]) = Contents(disk[t])
  BY DEF Contents
<1> QED BY <1>1 DEF OnDisk

LEMMA WrittenDisk ==
  ASSUME TypeInv, NEW p \in Packet,
         disk' = [disk EXCEPT ![outFile].pkts = Append(@, p)]
  PROVE  /\ OnDisk' = OnDisk \cup {p}
         /\ \A t \in Time : Contents(disk'[t]) =
               IF t = outFile THEN Contents(disk[t]) \cup {p} ELSE Contents(disk[t])
<1>1. outFile \in Time /\ disk \in [Time -> File]
  BY DEF TypeInv, WriterTypeOK
<1>2. /\ disk'[outFile] = [disk[outFile] EXCEPT !.pkts = Append(@, p)]
      /\ \A t \in Time : t # outFile => disk'[t] = disk[t]
  BY <1>1
<1>3. Contents(disk'[outFile]) = Contents(disk[outFile]) \cup {p}
  BY <1>1, <1>2, AppendContents
<1>4. \A t \in Time : Contents(disk'[t]) =
         IF t = outFile THEN Contents(disk[t]) \cup {p} ELSE Contents(disk[t])
  <2> TAKE t \in Time
  <2>1. CASE t = outFile
    BY <1>3, <2>1
  <2>2. CASE t # outFile
    <3>1. disk'[t] = disk[t]
      BY <1>2, <2>2
    <3> QED BY <2>2, <3>1
  <2> QED BY <2>1, <2>2
<1> HIDE DEF Contents
<1>5. OnDisk' = UNION {Contents(disk'[t]) : t \in Time}
  BY DEF OnDisk, Contents
<1>6. ASSUME NEW x \in OnDisk'
      PROVE  x \in OnDisk \cup {p}
  <2>1. PICK t \in Time : x \in Contents(disk'[t])
    BY <1>5
  <2>2. x \in Contents(disk[t]) \cup {p}
    BY <1>4, <2>1
  <2>3. Contents(disk[t]) \subseteq OnDisk
    BY DEF OnDisk
  <2> QED BY <2>2, <2>3
<1>7. ASSUME NEW x \in OnDisk \cup {p}
      PROVE  x \in OnDisk'
  <2>1. CASE x \in OnDisk
    <3>1. PICK t \in Time : x \in Contents(disk[t])
      BY <2>1 DEF OnDisk
    <3> QED BY <1>4, <1>5, <3>1
  <2>2. CASE x = p
    <3>1. x \in Contents(disk'[outFile]) /\ outFile \in Time
      BY <1>1, <1>3, <2>2
    <3> QED BY <1>5, <3>1
  <2> QED BY <2>1, <2>2
<1> QED BY <1>4, <1>6, <1>7

LEMMA OpenedDisk ==
  ASSUME TypeInv, PlaceInv, NEW o \in Time, NEW st \in FileState,
         disk' = [disk EXCEPT ![o] = [state |-> st, pkts |-> <<>>]]
  PROVE  /\ OnDisk' = OnDisk \ Contents(disk[o])
         /\ \A t \in Time : Contents(disk'[t]) =
               IF t = o THEN {} ELSE Contents(disk[t])
<1>1. disk \in [Time -> File]
  BY DEF TypeInv, WriterTypeOK
<1>2. disk'[o].pkts = <<>> /\ \A t \in Time : t # o => disk'[t] = disk[t]
  BY <1>1
<1>a. Contents(disk'[o]) = {}
  <2>1. DOMAIN disk'[o].pkts = {}
    BY <1>2
  <2> QED BY <2>1 DEF Contents
<1>3. \A t \in Time : Contents(disk'[t]) = IF t = o THEN {} ELSE Contents(disk[t])
  <2> TAKE t \in Time
  <2>1. CASE t = o
    BY <1>a, <2>1
  <2>2. CASE t # o
    <3>1. disk'[t] = disk[t]
      BY <1>2, <2>2
    <3> QED BY <2>2, <3>1
  <2> QED BY <2>1, <2>2
<1>4. \A t \in Time : t # o => Contents(disk[t]) \cap Contents(disk[o]) = {}
  BY DEF PlaceInv
<1> QED BY <1>3, <1>4 DEF OnDisk

LEMMA PlaceInvStep ==
  ASSUME TypeInv, TypeInv', OrderInv, OrderInv', PlaceInv, Took \/ Wrote \/ Opened \/ Kept
  PROVE  PlaceInv'
<1>0. Departed \in Nat /\ Departed' \in Nat
  BY DEF OrderInv
<1>1. CASE Took \/ Kept
  <2>1. \A t \in Time : disk'[t].pkts = disk[t].pkts
    BY <1>1 DEF Took, Kept
  <2>2. Departed' = Departed /\ lost' = lost /\ clobbered' = clobbered
    BY <1>1 DEF Took, Kept
  <2>3. OnDisk' = OnDisk /\ \A t \in Time : Contents(disk'[t]) = Contents(disk[t])
    BY <2>1, KeptDisk
  <2> QED BY <2>2, <2>3 DEF PlaceInv
<1>2. CASE Wrote
  <2> DEFINE p == Departed + 1
  <2>1. 1..Departed' = 1..Departed \cup {p} /\ p \notin 1..Departed
    BY <1>0, <1>2 DEF Wrote
  <2>2. p \notin OnDisk /\ p \notin lost /\ p \notin clobbered
    BY <2>1 DEF PlaceInv
  <2>3. \A t \in Time : p \notin Contents(disk[t])
    BY <2>2 DEF OnDisk
  <2>4. p \in Packet
    <3>1. /\ accepted' \in Nat /\ accepted' <= MaxPackets
          /\ Len(buf') - at' \in Nat /\ Behind' \in {0, 1}
      BY BoundAssumption DEF TypeInv, WriterTypeOK, Behind
    <3>2. Departed' <= MaxPackets
      BY <1>0, <3>1, BoundAssumption DEF Departed
    <3> QED BY <1>0, <1>2, <3>2, BoundAssumption DEF Wrote, Packet
  <2>5. clobbered' = clobbered
    BY <1>2 DEF Wrote
  <2>6. CASE disk' = [disk EXCEPT ![outFile].pkts = Append(@, p)] /\ lost' = lost
    <3>1. /\ OnDisk' = OnDisk \cup {p}
          /\ \A t \in Time : Contents(disk'[t]) =
                IF t = outFile THEN Contents(disk[t]) \cup {p} ELSE Contents(disk[t])
      BY <2>4, <2>6, WrittenDisk
    <3> HIDE DEF p
    <3>2. /\ OnDisk' \cup lost' \cup clobbered' = 1..Departed'
          /\ lost' \cap clobbered' = {} /\ OnDisk' \cap (lost' \cup clobbered') = {}
      BY <2>1, <2>2, <2>5, <2>6, <3>1 DEF PlaceInv
    <3>3. ASSUME NEW s \in Time, NEW t \in Time, s # t
          PROVE  Contents(disk'[s]) \cap Contents(disk'[t]) = {}
      <4>1. Contents(disk[s]) \cap Contents(disk[t]) = {}
        BY <3>3 DEF PlaceInv
      <4> QED BY <2>3, <3>1, <3>3, <4>1
    <3> QED BY <3>2, <3>3 DEF PlaceInv
  <2>7. CASE disk' = disk /\ lost' = lost \cup {p}
    <3>1. OnDisk' = OnDisk /\ \A t \in Time : Contents(disk'[t]) = Contents(disk[t])
      BY <2>7, KeptDisk
    <3> HIDE DEF p
    <3> QED BY <2>1, <2>2, <2>5, <2>7, <3>1 DEF PlaceInv
  <2> QED BY <1>2, <2>6, <2>7 DEF Wrote
<1>3. CASE Opened
  <2>1. PICK o \in Time, st \in FileState :
          /\ disk' = [disk EXCEPT ![o] = [state |-> st, pkts |-> <<>>]]
          /\ clobbered' = clobbered \cup Contents(disk[o])
    BY <1>3 DEF Opened
  <2>2. Departed' = Departed /\ lost' = lost
    BY <1>3 DEF Opened
  <2>3. /\ OnDisk' = OnDisk \ Contents(disk[o])
        /\ \A t \in Time : Contents(disk'[t]) = IF t = o THEN {} ELSE Contents(disk[t])
    BY <2>1, OpenedDisk
  <2>4. Contents(disk[o]) \subseteq OnDisk
    BY DEF OnDisk
  <2>5. /\ OnDisk' \cup lost' \cup clobbered' = 1..Departed'
        /\ lost' \cap clobbered' = {} /\ OnDisk' \cap (lost' \cup clobbered') = {}
    BY <2>1, <2>2, <2>3, <2>4 DEF PlaceInv
  <2>6. ASSUME NEW s \in Time, NEW t \in Time, s # t
        PROVE  Contents(disk'[s]) \cap Contents(disk'[t]) = {}
    <3>1. Contents(disk[s]) \cap Contents(disk[t]) = {}
      BY <2>6 DEF PlaceInv
    <3> QED BY <2>3, <3>1
  <2> QED BY <2>5, <2>6 DEF PlaceInv
<1> QED BY <1>1, <1>2, <1>3

-----------------------------------------------------------------------------
StoreInv == TypeInv /\ OrderInv /\ PlaceInv /\ (Paced => PaceInv)

LEMMA StoreInvInit == WriterInit => StoreInv
<1> SUFFICES ASSUME WriterInit PROVE StoreInv
  OBVIOUS
<1>1. TypeInv /\ (Paced => PaceInv)
  BY TypeInvInit, PaceInvInit
<1>2. OrderInv /\ Departed = 0
  <2>1. at = 0 /\ pend = NoPacket /\ accepted = 0
    BY DEF WriterInit
  <2>2. Len(buf) = 0 /\ Behind = 0
    BY DEF WriterInit, Behind
  <2>4. wpc = "uninit" /\ buf = <<>>
    BY DEF WriterInit
  <2>3. Departed = 0
    <3>1. accepted - (Len(buf) - at) - Behind = 0
      BY <2>1, <2>2, DepartedIs
    <3> QED BY <3>1 DEF Departed
  <2> QED BY <2>1, <2>2, <2>3, <2>4 DEF OrderInv
<1>3. \A t \in Time : Contents(disk[t]) = {}
  <2> TAKE t \in Time
  <2>1. DOMAIN disk[t].pkts = {}
    BY DEF WriterInit, NoFile
  <2> QED BY <2>1 DEF Contents
<1>4. PlaceInv
  BY <1>2, <1>3 DEF WriterInit, PlaceInv, OnDisk
<1> QED BY <1>1, <1>2, <1>4 DEF StoreInv

LEMMA StoreInvStep == StoreInv /\ [WriterNext]_wvars => StoreInv'
<1> SUFFICES ASSUME StoreInv, [WriterNext]_wvars PROVE StoreInv'
  OBVIOUS
<1>1. TypeInv'
  BY TypeInvStep DEF StoreInv
<1>2. OrderInv' /\ (Took \/ Wrote \/ Opened \/ Kept)
  BY StepEffect DEF StoreInv
<1>3. PlaceInv'
  BY <1>1, <1>2, PlaceInvStep DEF StoreInv
<1>4. Paced => PaceInv'
  BY PaceInvStep DEF StoreInv
<1>5. Paced' = Paced
  BY DEF Paced
<1> QED BY <1>1, <1>2, <1>3, <1>4, <1>5 DEF StoreInv

(* Every packet handed to buffer_frame is in exactly one place: in one     *)
(* file, in memory, lost by a failed write or in a truncated file          *)
(* (AVIO.c:125-175).                                                       *)
THEOREM EachPacketKeptOnce == WriterSpec => []EachPacketOnce
<1>1. StoreInv => EachPacketOnce
  <2> SUFFICES ASSUME StoreInv PROVE EachPacketOnce
    OBVIOUS
  <2>1. TypeInv /\ OrderInv /\ PlaceInv
    BY DEF StoreInv
  <2>2. InMemory = Departed + 1..accepted
    BY <2>1, InMemoryIs
  <2>3. Departed \in Nat /\ accepted \in Nat /\ Departed <= accepted
    BY <2>1, BoundAssumption DEF TypeInv, WriterTypeOK, OrderInv, Departed, Behind
  <2>4. 1..accepted = 1..Departed \cup InMemory /\ 1..Departed \cap InMemory = {}
    BY <2>2, <2>3
  <2> QED BY <2>1, <2>4 DEF PlaceInv, EachPacketOnce
<1> QED BY <1>1, StoreInvInit, StoreInvStep, PTL DEF WriterSpec

-----------------------------------------------------------------------------
InOrder ==
    /\ Waiting \in Seq(Packet) /\ Len(Waiting) = accepted - Departed
    /\ \A k \in 1..Len(Waiting) : Waiting[k] = Departed + k
    /\ Len(Waiting) <= MaxBufferSize + 1

LEMMA StaysInOrder == StoreInv => InOrder
<1> SUFFICES ASSUME StoreInv PROVE InOrder
  OBVIOUS
<1>1. /\ Waiting \in Seq(Packet) /\ Len(Waiting) = accepted - Departed
      /\ \A k \in 1..Len(Waiting) : Waiting[k] = Departed + k
  BY WaitingInOrder DEF StoreInv
<1>2. /\ accepted \in Nat /\ Departed \in Nat /\ Behind \in {0, 1}
      /\ Len(buf) \in Nat /\ at \in Nat /\ Len(buf) - at <= MaxBufferSize
  BY BufferAssumption, BoundAssumption
  DEF StoreInv, TypeInv, WriterTypeOK, OrderInv, Behind
<1>3. accepted - Departed <= MaxBufferSize + 1
  BY <1>2, BufferAssumption DEF Departed
<1> QED BY <1>1, <1>3 DEF InOrder

LEMMA StaysInOrderNext == StoreInv' => InOrder'
  BY StaysInOrder, PTL

(* Each step of the recorder is one of the store or leaves it alone.       *)
LEMMA StoreStep ==
  ASSUME StoreInv, StoreInv', [WriterNext]_wvars
  PROVE  [Store!StoreNext]_(Store!svars)
<1> DEFINE MayTruncate == RateBound >= MaxBufferSize \/ ClockMayStepBack
<1>0. InOrder /\ InOrder'
  BY StaysInOrder, StaysInOrderNext
<1>1. /\ accepted \in 0..MaxPackets /\ accepted' \in 0..MaxPackets
      /\ Departed \in Nat /\ Departed' \in Nat
  BY DEF StoreInv, TypeInv, WriterTypeOK, OrderInv
<1>2. Took \/ Wrote \/ Opened \/ Kept
  BY StepEffect DEF StoreInv
<1>3. /\ Waiting \in Seq(Packet) /\ Len(Waiting) = accepted - Departed
      /\ \A k \in 1..Len(Waiting) : Waiting[k] = Departed + k
      /\ Waiting' \in Seq(Packet) /\ Len(Waiting') = accepted' - Departed'
      /\ \A k \in 1..Len(Waiting') : Waiting'[k] = Departed' + k
  BY <1>0 DEF InOrder, Packet
<1>4. ASSUME accepted' = accepted, Departed' = Departed PROVE Waiting' = Waiting
  BY <1>3, <1>4, SeqEqual
<1>5. CASE Took
  <2>1. accepted' = accepted + 1 /\ Departed' = Departed
        /\ UNCHANGED <<disk, lost, clobbered>>
    BY <1>5 DEF Took
  <2>2. accepted + 1 \in Packet
    BY <1>1, <2>1, BoundAssumption DEF Packet
  <2>3. /\ Append(Waiting, accepted + 1) \in Seq(Packet)
        /\ Len(Append(Waiting, accepted + 1)) = Len(Waiting) + 1
        /\ \A i \in 1..Len(Waiting) : Append(Waiting, accepted + 1)[i] = Waiting[i]
        /\ Append(Waiting, accepted + 1)[Len(Waiting) + 1] = accepted + 1
    BY <1>3, <2>2, AppendProperties
  <2>4. \A i \in 1..Len(Waiting') : Waiting'[i] = Append(Waiting, accepted + 1)[i]
    BY <1>1, <1>3, <2>1, <2>3
  <2>5. Len(Waiting') = Len(Append(Waiting, accepted + 1))
    BY <1>1, <1>3, <2>1, <2>3
  <2>6. Waiting' = Append(Waiting, accepted + 1)
    BY <1>3, <2>3, <2>4, <2>5, SeqEqual
  <2>7. Len(Waiting) < MaxBufferSize + 1
    <3>1. Len(Waiting') <= MaxBufferSize + 1
      BY <1>0 DEF InOrder
    <3> QED BY <1>1, <1>3, <2>1, <3>1, BufferAssumption
  <2>8. OnDisk' = OnDisk
    BY <2>1 DEF OnDisk, Contents
  <2> QED BY <2>1, <2>6, <2>7, <2>8 DEF Store!StoreNext, Store!Accept
<1>6. CASE Wrote
  <2> DEFINE p == Departed + 1
  <2>1. accepted' = accepted /\ Departed' = Departed + 1 /\ clobbered' = clobbered
    BY <1>6 DEF Wrote
  <2>2. Waiting # <<>> /\ Head(Waiting) = p
    BY <1>1, <1>3, <2>1
  <2>3. p \in Packet
    BY <1>1, <1>3, <2>1, <2>2, BoundAssumption DEF Packet
  <2>4. Waiting' = Tail(Waiting)
    <3>1. /\ Tail(Waiting) \in Seq(Packet) /\ Len(Tail(Waiting)) = Len(Waiting) - 1
          /\ \A i \in 1..Len(Tail(Waiting)) : Tail(Waiting)[i] = Waiting[i + 1]
      BY <1>3, <2>2, HeadTailProperties
    <3>2. Len(Waiting') = Len(Tail(Waiting))
      BY <1>1, <1>3, <2>1, <3>1
    <3>3. \A i \in 1..Len(Waiting') : Waiting'[i] = Tail(Waiting)[i]
      BY <1>1, <1>3, <2>1, <3>1, <3>2
    <3> QED BY <1>3, <3>1, <3>2, <3>3, SeqEqual
  <2>5. CASE disk' = [disk EXCEPT ![outFile].pkts = Append(@, p)] /\ lost' = lost
    <3>1. OnDisk' = OnDisk \cup {p}
      BY <2>3, <2>5, WrittenDisk DEF StoreInv
    <3> QED BY <2>1, <2>2, <2>4, <2>5, <3>1 DEF Store!StoreNext, Store!LeaveMemory
  <2>6. CASE disk' = disk /\ lost' = lost \cup {p}
    <3>1. OnDisk' = OnDisk
      BY <2>6 DEF OnDisk, Contents
    <3>2. (lost \cup clobbered)' = (lost \cup clobbered) \cup {p}
      BY <2>1, <2>6
    <3> QED BY <2>1, <2>2, <2>4, <3>1, <3>2 DEF Store!StoreNext, Store!LeaveMemory
  <2> QED BY <1>6, <2>5, <2>6 DEF Wrote
<1>7. CASE Opened
  <2>1. PICK o \in Time, st \in FileState :
          /\ disk' = [disk EXCEPT ![o] = [state |-> st, pkts |-> <<>>]]
          /\ clobbered' = clobbered \cup Contents(disk[o])
    BY <1>7 DEF Opened
  <2>2. accepted' = accepted /\ lost' = lost /\ Waiting' = Waiting
    BY <1>4, <1>7 DEF Opened
  <2>3. OnDisk' = OnDisk \ Contents(disk[o])
    BY <2>1, OpenedDisk DEF StoreInv
  <2>4. Contents(disk[o]) \in SUBSET OnDisk
    BY DEF OnDisk
  <2>5. (lost \cup clobbered)' = (lost \cup clobbered) \cup Contents(disk[o])
    BY <2>1, <2>2
  <2>6. CASE MayTruncate
    BY <2>2, <2>3, <2>4, <2>5, <2>6 DEF Store!StoreNext, Store!Truncate
  <2>7. CASE ~MayTruncate
    <3>1. Paced
      BY <2>7, BufferAssumption, RateAssumption DEF Paced
    <3>2. clobbered' = {}
      BY <3>1 DEF StoreInv, Paced, PaceInv
    <3>3. Contents(disk[o]) = {}
      BY <2>1, <3>2
    <3> QED BY <2>2, <2>3, <2>5, <3>3 DEF Store!svars
  <2> QED BY <2>6, <2>7
<1>8. CASE Kept
  <2>1. OnDisk' = OnDisk
    BY <1>8, KeptDisk DEF Kept
  <2> QED BY <1>4, <1>8, <2>1 DEF Kept, Store!svars
<1> QED BY <1>2, <1>5, <1>6, <1>7, <1>8

(* The recorder implements the packet store with the variables mapped as   *)
(* in the module RtspStreamWriter: at most one packet more than the buffer *)
(* holds waits in memory, packets leave it one by one and in order, and    *)
(* what is stored is destroyed only when TruncationNeedsBurst allows it    *)
(* (AVIO.c:125-204).                                                       *)
THEOREM RecorderIsPacketStore == WriterSpec => ImplementsPacketStore
<1>1. WriterInit => Store!StoreInit
  <2> SUFFICES ASSUME WriterInit PROVE Store!StoreInit
    OBVIOUS
  <2>1. StoreInv
    BY StoreInvInit
  <2>2. accepted = 0 /\ Departed = 0 /\ lost = {} /\ clobbered = {}
    <3>1. accepted = 0 /\ lost = {} /\ clobbered = {} /\ at = 0
      BY DEF WriterInit
    <3>2. Len(buf) = 0 /\ Behind = 0
      BY DEF WriterInit, Behind
    <3>3. accepted - (Len(buf) - at) - Behind = 0
      BY <3>1, <3>2, DepartedIs
    <3> QED BY <3>1, <3>3 DEF Departed
  <2>3. Waiting = <<>>
    <3>1. Waiting \in Seq(Packet) /\ Len(Waiting) = accepted - Departed
      BY <2>1, StaysInOrder DEF InOrder
    <3>2. Len(Waiting) = 0
      BY <2>2, <3>1
    <3> QED BY <3>1, <3>2, EmptySeq
  <2>4. OnDisk = {}
    <3>1. 1..Departed = {}
      BY <2>2
    <3> QED BY <2>1, <3>1 DEF StoreInv, PlaceInv
  <2> QED BY <2>2, <2>3, <2>4 DEF Store!StoreInit
<1>2. StoreInv /\ StoreInv' /\ [WriterNext]_wvars => [Store!StoreNext]_(Store!svars)
  BY StoreStep
<1> QED BY <1>1, <1>2, StoreInvInit, StoreInvStep, PTL
        DEF WriterSpec, ImplementsPacketStore, Store!StoreSpec
=============================================================================
