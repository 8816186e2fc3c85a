-------------------------- MODULE StreamWriterProofs --------------------------
(***************************************************************************)
(* What holds of the stream writer for every set of names, of frame rates  *)
(* and of rollover times, and for every clock that does not go back.       *)
(***************************************************************************)
EXTENDS StreamWriter, TLAPS

(* A stored name is shorter than the size computed for it, if that is not  *)
(* 0.                                                                      *)
LEMMA KeptBelowSize ==
    ASSUME NEW f \in Nat, NEW e \in Nat
    PROVE  /\ MaxSize(f, e) \in 0..255 /\ Kept(f, e) \in 0..255
           /\ MaxSize(f, e) # 0 => Kept(f, e) < MaxSize(f, e)
<1>1. MaxSize(f, e) \in 0..255
  BY DEF MaxSize
<1> QED BY <1>1 DEF Kept, Clamp, Least, TextLen, StampLen

LEMMA ShownIsNat ==
    ASSUME NEW f \in Nat, NEW e \in Nat, NEW t \in Nat
    PROVE  Shown(f, e, t) \in Nat
<1>1. KeptStamp(f, e) \in 0..20
  <2>1. Kept(f, e) \in 0..255
    BY KeptBelowSize
  <2>2. Kept(f, e) \in Int
    BY <2>1
  <2> QED BY <2>2 DEF KeptStamp, Clamp, Least, StampLen
<1>2. \A n \in Nat \ {0} : t \div n \in Nat
  OBVIOUS
<1>3. t \div 10 \in Nat /\ t \div 60 \in Nat
  BY <1>2
<1> QED BY <1>1, <1>3 DEF Shown

(* With an extension of three characters a name shows the whole clock.     *)
LEMMA ShowsTheSecond ==
    ASSUME NEW f \in Nat, NEW e \in Nat, NEW t \in Nat, e >= 3, f + e + 18 < 256
    PROVE  Shown(f, e, t) = t
<1>1. MaxSize(f, e) = f + e + 18
  BY DEF MaxSize
<1>2. Kept(f, e) = f + e + 17
  BY <1>1 DEF Kept, Clamp, Least, TextLen, StampLen
<1>3. KeptStamp(f, e) = 20
  BY <1>2 DEF KeptStamp, Clamp, Least, StampLen
<1> QED BY <1>3 DEF Shown

LEMMA FramesAreNat ==
    ASSUME NEW s \in Nat, NEW r \in Nat \X Nat
    PROVE  Frames(s, r) \subseteq Nat
<1>1. CASE r[2] = 0
  BY <1>1, PacketsAssumption DEF Frames
<1>2. CASE r[2] # 0
  <2> DEFINE q == (r[1] + r[2] - 1) \div r[2]
  <2>1. r[1] + r[2] - 1 \in Nat /\ r[2] \in Nat \ {0}
    BY <1>2
  <2>2. q \in Nat
    BY <2>1
  <2>3. s * q \in Nat
    BY <2>2
  <2> QED BY <1>2, <2>3 DEF Frames
<1> QED BY <1>1, <1>2

(* A change of the last file, and a new one.                               *)
LEMMA LastFileChanges ==
    ASSUME NEW s \in Seq(File), s # <<>>, NEW x \in File
    PROVE  LET t == [s EXCEPT ![Len(s)] = x]
           IN /\ t \in Seq(File) /\ t # <<>> /\ Len(t) = Len(s)
              /\ t[Len(s)] = x
              /\ \A i \in 1..Len(s) : i # Len(s) => t[i] = s[i]
OBVIOUS

LEMMA FileIsAdded ==
    ASSUME NEW s \in Seq(File), NEW x \in File
    PROVE  LET t == Append(s, x)
           IN /\ t \in Seq(File) /\ t # <<>> /\ Len(t) = Len(s) + 1
              /\ t[Len(t)] = x
              /\ \A i \in 1..Len(s) : t[i] = s[i]
OBVIOUS

-----------------------------------------------------------------------------
(* Nothing counts the frames, so that the rollovers are none or all; as    *)
(* long as there was none the file the transcoder began with is the one    *)
(* that pb points to.                                                      *)
CountInv ==
    /\ StreamWriterTypeOK /\ DeathNeedsFailure
    /\ fqn = Kept(fn, ext) /\ EveryNameLeaks
    /\ curr = 0 /\ rolls = (IF desired = 0 THEN sent ELSE 0)
    /\ phase \in {"new", "header"} => sent = 0 /\ mux = "new"
    /\ phase \notin {"new", "header", "dead"} => mux # "new"
    /\ dctx = "input" => mux \in {"new", "unset"}
    /\ mux \in {"new", "unset"} => muxed = 0 /\ phase \notin {"release", "end"}
    /\ phase = "write" => muxed < sent
    /\ pb = "dangling" => misclosed
    /\ rolls = 0 => (pb = "open" /\ Len(files) = 1) \/ (pb = "null" /\ files = <<>>)

(* What is known of file i: only the first has a header, only the last one *)
(* a trailer, and neither is lost to a rollover that does not come.        *)
FileInv(i) ==
    /\ files[i].shown = Shown(fn, ext, files[i].at)
    /\ files[i].headed => dctx = "encoder"
    /\ files[i].headed /\ i = Len(files) /\ pb = "open" => rolls = 0
    /\ files[i].sealed => i = Len(files) /\ pb = "open" /\ phase \in {"release", "end"}
    /\ rolls = 0 /\ dctx = "encoder" => files[i].pkts = muxed

FilesInv == \A i \in 1..Len(files) : FileInv(i)

WriterInv == CountInv /\ FilesInv

LEMMA NewFileIsFile ==
    ASSUME fn \in Nat, ext \in Nat, now \in Times
    PROVE  NewFile \in File
<1>1. now \in Nat
  BY TimeAssumption
<1>2. Shown(fn, ext, now) \in Nat
  BY <1>1, ShownIsNat
<1> QED BY <1>2 DEF NewFile, File

LEMMA WriterInvInit == StreamWriterInit => WriterInv
<1> SUFFICES ASSUME StreamWriterInit PROVE WriterInv
  OBVIOUS
<1>1. fn \in Nat /\ ext \in Nat /\ now \in Times
  BY LengthAssumption, TimeAssumption DEF StreamWriterInit
<1>2. NewFile \in File
  BY <1>1, NewFileIsFile
<1>3. /\ files \in Seq(File) /\ Len(files) \in {0, 1}
      /\ (pb = "open" /\ Len(files) = 1) \/ (pb = "null" /\ files = <<>>)
      /\ \A i \in 1..Len(files) : files[i] = NewFile
  <2>1. CASE files = <<>>
    BY <2>1 DEF StreamWriterInit
  <2>2. CASE files = <<NewFile>>
    BY <1>2, <2>2 DEF StreamWriterInit
  <2> QED BY <2>1, <2>2 DEF StreamWriterInit
<1>4. Kept(fn, ext) \in 0..255
  BY <1>1, KeptBelowSize
<1>5. StreamWriterTypeOK
  <2>1. desired \in Nat /\ curr \in Nat /\ blocks \in Nat /\ named \in Nat
        /\ sent \in 0..MaxPackets /\ muxed \in 0..sent /\ rolls \in 0..sent
    BY PacketsAssumption DEF StreamWriterInit
  <2>2. phase \in Phases /\ ret \in {"OK", "ERROR"} /\ misclosed \in BOOLEAN /\ mux = "new"
    BY DEF StreamWriterInit, Phases
  <2>3. pb \in {"null", "open", "dangling"} /\ (pb = "open" => files # <<>>)
    BY <1>3
  <2> QED BY <1>1, <1>3, <1>4, <2>1, <2>2, <2>3 DEF StreamWriterInit, StreamWriterTypeOK
<1>6. DeathNeedsFailure /\ EveryNameLeaks
  BY DEF StreamWriterInit, DeathNeedsFailure, EveryNameLeaks
<1>7. CountInv
  BY <1>3, <1>5, <1>6 DEF StreamWriterInit, CountInv
<1>8. FilesInv
  BY <1>3 DEF StreamWriterInit, FilesInv, FileInv, NewFile
<1> QED BY <1>7, <1>8 DEF WriterInv

-----------------------------------------------------------------------------
(* What a rollover does to the files and to their names.                   *)
LEMMA Rollover ==
    ASSUME CountInv, rollover_split, UNCHANGED <<fn, ext, now>>
    PROVE  /\ \/ pb' = "open" /\ files' = Append(files, NewFile)
              \/ pb' # "open" /\ files' = files
           /\ pb' \in {"null", "open", "dangling"} /\ (pb' = "dangling" => misclosed')
           /\ misclosed' \in BOOLEAN
           /\ fqn' = Kept(fn, ext) /\ blocks' \in Nat /\ named' \in Nat /\ EveryNameLeaks'
<1>1. fn \in Nat /\ ext \in Nat
  BY LengthAssumption DEF CountInv, StreamWriterTypeOK
<1>2. CASE avio_close_fails
  BY <1>2 DEF avio_close_fails, names, CountInv, StreamWriterTypeOK, EveryNameLeaks
<1>3. CASE init_output_filename /\ avio_open /\ UNCHANGED misclosed
  <2>1. MaxSize(fn, ext) # 0 => Allocates(fqn, fn, ext)
    <3>1. MaxSize(fn, ext) # 0 => Kept(fn, ext) < MaxSize(fn, ext)
      BY <1>1, KeptBelowSize
    <3> QED BY <3>1 DEF CountInv, Allocates
  <2>2. fqn' = Kept(fn, ext) /\ named' = named + 1
        /\ blocks' = blocks + 1 + (IF Allocates(fqn, fn, ext) THEN 1 ELSE 0)
    BY <1>3 DEF init_output_filename
  <2>3. blocks \in Nat /\ named \in Nat /\ (MaxSize(fn, ext) # 0 => blocks = 2 * named)
    BY DEF CountInv, StreamWriterTypeOK, EveryNameLeaks
  <2>4. blocks' \in Nat /\ named' \in Nat
    BY <2>2, <2>3
  <2>5. MaxSize(fn, ext) # 0 => blocks' = 2 * named'
    BY <2>1, <2>2, <2>3
  <2>6. EveryNameLeaks'
    BY <2>5 DEF EveryNameLeaks
  <2> QED BY <1>3, <2>2, <2>4, <2>6 DEF avio_open, CountInv, StreamWriterTypeOK
<1> QED BY <1>2, <1>3 DEF rollover_split

(* Header, packet and trailer mark the file that is open, if any.          *)
LEMMA Marked ==
    ASSUME CountInv, Reaches, UNCHANGED pb,
           NEW x \in File, files' = [files EXCEPT ![Len(files)] = x]
    PROVE  /\ files' \in Seq(File) /\ files' # <<>> /\ Len(files') = Len(files)
           /\ Len(files) \in 1..Len(files)
           /\ files'[Len(files)] = x
           /\ \A i \in 1..Len(files) : i # Len(files) => files'[i] = files[i]
<1>1. files \in Seq(File) /\ files # <<>>
  BY DEF CountInv, StreamWriterTypeOK, Reaches, Takes
<1>2. Len(files) \in 1..Len(files)
  BY <1>1
<1> QED BY <1>1, <1>2, LastFileChanges

(* What header, packet and trailer do to the counters and to the muxer,    *)
(* whichever file they mark.                                               *)
LEMMA CallCounts ==
    ASSUME CountInv, write_header \/ write_trailer \/ write_packet_ends,
           files' \in Seq(File), Len(files') = Len(files)
    PROVE  CountInv'
<1>0. StreamWriterTypeOK
  BY DEF CountInv
<1>1. UNCHANGED <<fn, ext, dctx, desired, curr, pb, misclosed, fqn, blocks, named, now, sent, rolls>>
  BY DEF write_header, write_trailer, write_packet_ends, config, names, counts
<1>2. /\ phase' \in {"packets", "release", "dead"} /\ ret' \in {"OK", "ERROR"}
      /\ phase' = "dead" => mux \in {"unset", "shut"} \/ dctx = "input" \/ NoFile
      /\ mux' \in {"new", "unset", "shut", "ready"}
      /\ mux \in {"unset", "shut"} => mux' = mux
      /\ muxed' \in 0..sent
      /\ phase' # "dead" => mux' # "new"
      /\ dctx = "input" => mux' \in {"new", "unset"}
      /\ mux' \in {"new", "unset"} => muxed' = 0 /\ phase' # "release"
  <2>1. CASE write_header
    BY <1>0, <2>1 DEF write_header, counts, CountInv, StreamWriterTypeOK
  <2>2. CASE write_trailer
    BY <1>0, <2>2 DEF write_trailer, Muxes, counts, CountInv, StreamWriterTypeOK
  <2>3. CASE write_packet_ends
    <3>1. /\ phase = "write" /\ mux' = mux /\ muxed \in 0..sent /\ muxed < sent /\ sent \in Nat
          /\ muxed' = IF Takes THEN muxed + 1 ELSE muxed
      BY <1>0, <2>3 DEF write_packet_ends, CountInv, StreamWriterTypeOK
    <3>2. muxed' \in 0..sent
      BY <3>1
    <3> QED BY <1>0, <2>3, <3>1, <3>2 DEF write_packet_ends, Muxes, StaysOutside, Takes,
          CountInv, StreamWriterTypeOK
  <2> QED BY <2>1, <2>2, <2>3
<1>3. StreamWriterTypeOK'
  <2>1. files' # <<>> <=> files # <<>>
    BY <1>0 DEF StreamWriterTypeOK
  <2> QED BY <1>0, <1>1, <1>2, <2>1 DEF StreamWriterTypeOK, Phases
<1>4. DeathNeedsFailure'
  BY <1>0, <1>1, <1>2 DEF StreamWriterTypeOK, DeathNeedsFailure, NoFile
<1>5. EveryNameLeaks'
  BY <1>1 DEF CountInv, EveryNameLeaks
<1>6. rolls' = 0 => (pb' = "open" /\ Len(files') = 1) \/ (pb' = "null" /\ files' = <<>>)
  BY <1>0, <1>1 DEF CountInv, StreamWriterTypeOK
<1> QED BY <1>1, <1>2, <1>3, <1>4, <1>5, <1>6 DEF CountInv

LEMMA HeaderStep == WriterInv /\ write_header => WriterInv'
<1> SUFFICES ASSUME WriterInv, write_header PROVE WriterInv'
  OBVIOUS
<1> DEFINE x == [files[Len(files)] EXCEPT !.headed = TRUE]
<1>1. CASE Reaches
  <2>1. files \in Seq(File) /\ files # <<>> /\ Len(files) \in 1..Len(files)
    BY <1>1 DEF WriterInv, CountInv, StreamWriterTypeOK, Reaches
  <2>2. files[Len(files)] \in File
    BY <2>1
  <2>3. x \in File
    BY <2>2 DEF File
  <2>4. files' = [files EXCEPT ![Len(files)] = x]
    BY <1>1 DEF write_header
  <2>5. /\ files' \in Seq(File) /\ files' # <<>> /\ Len(files') = Len(files)
        /\ files'[Len(files)] = x
        /\ \A i \in 1..Len(files) : i # Len(files) => files'[i] = files[i]
    <3>1. UNCHANGED pb /\ CountInv
      BY DEF WriterInv, write_header
    <3> HIDE DEF x
    <3> QED BY <1>1, <2>3, <2>4, <3>1, Marked
  <2>6. CountInv'
    BY <2>5, CallCounts DEF WriterInv
  <2>7. \A i \in 1..Len(files) : FileInv(i)'
    <3> TAKE i \in 1..Len(files)
    <3>1. FileInv(i) /\ files[i] \in File
      BY <2>1 DEF WriterInv, FilesInv
    <3>2. CASE i = Len(files)
      BY <1>1, <2>2, <2>5, <3>1, <3>2 DEF WriterInv, CountInv, FileInv, write_header, Reaches, Takes,
         config, counts, File, StreamWriterTypeOK
    <3>3. CASE i # Len(files)
      BY <1>1, <2>1, <2>5, <3>1, <3>3 DEF WriterInv, CountInv, FileInv, write_header, Reaches, Takes,
         config, counts
    <3> QED BY <3>2, <3>3
  <2> QED BY <2>5, <2>6, <2>7 DEF WriterInv, FilesInv
<1>2. CASE ~Reaches
  <2>1. files' = files
    BY <1>2 DEF write_header
  <2>2. CountInv'
    <3>1. files \in Seq(File)
      BY DEF WriterInv, CountInv, StreamWriterTypeOK
    <3> QED BY <2>1, <3>1, CallCounts DEF WriterInv
  <2>3. FilesInv'
    BY <2>1 DEF WriterInv, CountInv, FilesInv, FileInv, write_header, Muxes, config, counts
  <2> QED BY <2>2, <2>3 DEF WriterInv
<1> QED BY <1>1, <1>2

LEMMA TrailerStep == WriterInv /\ write_trailer => WriterInv'
<1> SUFFICES ASSUME WriterInv, write_trailer PROVE WriterInv'
  OBVIOUS
<1> DEFINE x == [files[Len(files)] EXCEPT !.sealed = TRUE]
<1>1. CASE Reaches
  <2>1. files \in Seq(File) /\ files # <<>> /\ Len(files) \in 1..Len(files)
    BY <1>1 DEF WriterInv, CountInv, StreamWriterTypeOK, Reaches
  <2>2. files[Len(files)] \in File
    BY <2>1
  <2>3. x \in File
    BY <2>2 DEF File
  <2>4. files' = [files EXCEPT ![Len(files)] = x]
    BY <1>1 DEF write_trailer
  <2>5. /\ files' \in Seq(File) /\ files' # <<>> /\ Len(files') = Len(files)
        /\ files'[Len(files)] = x
        /\ \A i \in 1..Len(files) : i # Len(files) => files'[i] = files[i]
    <3>1. UNCHANGED pb /\ CountInv
      BY DEF WriterInv, write_trailer
    <3> HIDE DEF x
    <3> QED BY <1>1, <2>3, <2>4, <3>1, Marked
  <2>6. CountInv'
    BY <2>5, CallCounts DEF WriterInv
  <2>7. \A i \in 1..Len(files) : FileInv(i)'
    <3> TAKE i \in 1..Len(files)
    <3>1. FileInv(i) /\ files[i] \in File
      BY <2>1 DEF WriterInv, FilesInv
    <3>2. CASE i = Len(files)
      BY <1>1, <2>2, <2>5, <3>1, <3>2 DEF WriterInv, CountInv, FileInv, write_trailer, Reaches, Takes,
         Muxes, config, counts, File, StreamWriterTypeOK
    <3>3. CASE i # Len(files)
      BY <1>1, <2>1, <2>5, <3>1, <3>3 DEF WriterInv, CountInv, FileInv, write_trailer, Reaches, Takes,
         Muxes, config, counts
    <3> QED BY <3>2, <3>3
  <2> QED BY <2>5, <2>6, <2>7 DEF WriterInv, FilesInv
<1>2. CASE ~Reaches
  <2>1. files' = files
    BY <1>2 DEF write_trailer
  <2>2. CountInv'
    <3>1. files \in Seq(File)
      BY DEF WriterInv, CountInv, StreamWriterTypeOK
    <3> QED BY <2>1, <3>1, CallCounts DEF WriterInv
  <2>3. FilesInv'
    BY <2>1 DEF WriterInv, CountInv, FilesInv, FileInv, write_trailer, Muxes, config, counts
  <2> QED BY <2>2, <2>3 DEF WriterInv
<1> QED BY <1>1, <1>2

LEMMA PacketStep == WriterInv /\ write_packet_ends => WriterInv'
<1> SUFFICES ASSUME WriterInv, write_packet_ends PROVE WriterInv'
  OBVIOUS
<1> DEFINE x == [files[Len(files)] EXCEPT !.pkts = @ + 1]
<1>1. CASE Reaches
  <2>1. files \in Seq(File) /\ files # <<>> /\ Len(files) \in 1..Len(files)
    BY <1>1 DEF WriterInv, CountInv, StreamWriterTypeOK, Reaches
  <2>2. files[Len(files)] \in File
    BY <2>1
  <2>3. x \in File
    BY <2>2 DEF File
  <2>4. files' = [files EXCEPT ![Len(files)] = x]
    BY <1>1 DEF write_packet_ends
  <2>5. /\ files' \in Seq(File) /\ files' # <<>> /\ Len(files') = Len(files)
        /\ files'[Len(files)] = x
        /\ \A i \in 1..Len(files) : i # Len(files) => files'[i] = files[i]
    <3>1. UNCHANGED pb /\ CountInv
      BY DEF WriterInv, write_packet_ends
    <3> HIDE DEF x
    <3> QED BY <1>1, <2>3, <2>4, <3>1, Marked
  <2>6. CountInv'
    BY <2>5, CallCounts DEF WriterInv
  <2>7. \A i \in 1..Len(files) : FileInv(i)'
    <3> TAKE i \in 1..Len(files)
    <3>1. FileInv(i) /\ files[i] \in File
      BY <2>1 DEF WriterInv, FilesInv
    <3>2. CASE i = Len(files)
      BY <1>1, <2>2, <2>5, <3>1, <3>2 DEF WriterInv, CountInv, FileInv, write_packet_ends, Reaches, Takes,
         Muxes, StaysOutside, config, File, StreamWriterTypeOK
    <3>3. CASE i # Len(files)
      BY <1>1, <2>1, <2>5, <3>1, <3>3 DEF WriterInv, CountInv, FileInv, write_packet_ends, Reaches, Takes,
         Muxes, StaysOutside, config
    <3> QED BY <3>2, <3>3
  <2> QED BY <2>5, <2>6, <2>7 DEF WriterInv, FilesInv
<1>2. CASE ~Reaches
  <2>1. files' = files
    BY <1>2 DEF write_packet_ends
  <2>2. CountInv'
    <3>1. files \in Seq(File)
      BY DEF WriterInv, CountInv, StreamWriterTypeOK
    <3> QED BY <2>1, <3>1, CallCounts DEF WriterInv
  <2>3. FilesInv'
    <3>1. rolls = 0 /\ dctx = "encoder" /\ files # <<>> => muxed' = muxed
      BY <1>2 DEF WriterInv, CountInv, write_packet_ends, Reaches
    <3>2. UNCHANGED <<fn, ext, dctx, rolls, pb>> /\ phase = "write"
      BY DEF write_packet_ends, config
    <3> QED BY <2>1, <3>1, <3>2 DEF WriterInv, CountInv, FilesInv, FileInv
  <2> QED BY <2>2, <2>3 DEF WriterInv
<1> QED BY <1>1, <1>2

-----------------------------------------------------------------------------
(* A packet comes: with or without a rollover, or the process dies of it.  *)
LEMMA RolloverStep == WriterInv /\ write_packet_begins => WriterInv'
<1> SUFFICES ASSUME WriterInv, write_packet_begins PROVE WriterInv'
  OBVIOUS
<1>1. /\ UNCHANGED <<fn, ext, dctx, desired, curr, mux, ret, now, muxed>>
      /\ phase = "packets" /\ sent' = sent + 1 /\ sent' \in 0..MaxPackets
      /\ rolls' = (IF RollsOver THEN rolls + 1 ELSE rolls)
  BY PacketsAssumption DEF write_packet_begins, config, WriterInv, CountInv, StreamWriterTypeOK
<1>2. RollsOver <=> desired = 0
  BY DEF RollsOver, WriterInv, CountInv, StreamWriterTypeOK
<1>3. /\ rolls' = (IF desired = 0 THEN sent' ELSE 0)
      /\ rolls' \in 0..sent' /\ muxed' \in 0..sent' /\ muxed < sent'
  BY <1>1, <1>2 DEF WriterInv, CountInv, StreamWriterTypeOK
<1>4. CASE RollsOver /\ phase' = "write" /\ rollover_split
  <2>1. /\ \/ pb' = "open" /\ files' = Append(files, NewFile)
           \/ pb' # "open" /\ files' = files
        /\ pb' \in {"null", "open", "dangling"} /\ (pb' = "dangling" => misclosed')
        /\ misclosed' \in BOOLEAN
        /\ fqn' = Kept(fn, ext) /\ blocks' \in Nat /\ named' \in Nat /\ EveryNameLeaks'
    BY <1>1, <1>4, Rollover DEF WriterInv
  <2>2. rolls' > 0 /\ rolls' = rolls + 1
    BY <1>1, <1>4 DEF WriterInv, CountInv, StreamWriterTypeOK
  <2>3. fn \in Nat /\ ext \in Nat /\ now \in Times
    BY LengthAssumption DEF WriterInv, CountInv, StreamWriterTypeOK
  <2>4. files \in Seq(File) /\ NewFile \in File
    BY <2>3, NewFileIsFile DEF WriterInv, CountInv, StreamWriterTypeOK
  <2>5. Kept(fn, ext) \in 0..255
    BY <2>3, KeptBelowSize
  <2>6. CASE pb' = "open" /\ files' = Append(files, NewFile)
    <3>1. /\ files' \in Seq(File) /\ files' # <<>> /\ Len(files') = Len(files) + 1
          /\ files'[Len(files')] = NewFile
          /\ \A i \in 1..Len(files) : files'[i] = files[i]
      BY <2>4, <2>6, FileIsAdded
    <3>2. CountInv'
      BY <1>1, <1>3, <1>4, <2>1, <2>2, <2>5, <3>1 DEF WriterInv, CountInv, StreamWriterTypeOK,
         DeathNeedsFailure, Phases
    <3>3. \A i \in 1..Len(files') : FileInv(i)'
      <4> TAKE i \in 1..Len(files')
      <4>1. CASE i = Len(files')
        BY <1>1, <2>2, <3>1, <4>1 DEF FileInv, NewFile
      <4>2. CASE i # Len(files')
        <5>1. i \in 1..Len(files) /\ files'[i] = files[i]
          BY <2>4, <3>1, <4>2
        <5>2. FileInv(i) /\ ~files[i].sealed
          BY <1>1, <5>1 DEF WriterInv, FilesInv, FileInv
        <5> QED BY <1>1, <2>2, <4>2, <5>1, <5>2 DEF FileInv
      <4> QED BY <4>1, <4>2
    <3> QED BY <3>2, <3>3 DEF WriterInv, FilesInv
  <2>7. CASE pb' # "open" /\ files' = files
    <3>1. CountInv'
      BY <1>1, <1>3, <1>4, <2>1, <2>2, <2>5, <2>7 DEF WriterInv, CountInv, StreamWriterTypeOK,
         DeathNeedsFailure, Phases
    <3>2. FilesInv'
      BY <1>1, <2>2, <2>7 DEF WriterInv, FilesInv, FileInv
    <3> QED BY <3>1, <3>2 DEF WriterInv
  <2> QED BY <2>1, <2>6, <2>7
<1>5. CASE /\ \/ ~RollsOver /\ phase' = "write"
              \/ RollsOver /\ pb = "dangling" /\ phase' = "dead"
           /\ UNCHANGED <<pb, files, misclosed, names>>
  <2>1. rolls' = 0 => rolls = 0
    BY <1>1 DEF WriterInv, CountInv, StreamWriterTypeOK
  <2>2. CountInv'
    <3>1. StreamWriterTypeOK'
      BY <1>1, <1>3, <1>5 DEF WriterInv, CountInv, StreamWriterTypeOK, names, Phases
    <3>2. DeathNeedsFailure' /\ EveryNameLeaks'
      <4>1. EveryNameLeaks'
        BY <1>1, <1>5 DEF WriterInv, CountInv, names, EveryNameLeaks
      <4>2. phase' = "dead" => pb = "dangling" /\ misclosed /\ UNCHANGED <<pb, misclosed>>
        BY <1>5 DEF WriterInv, CountInv
      <4>3. DeathNeedsFailure'
        BY <1>1, <4>2 DEF WriterInv, CountInv, StreamWriterTypeOK, DeathNeedsFailure, Contexts
      <4> QED BY <4>1, <4>3
    <3> QED BY <1>1, <1>3, <1>5, <2>1, <3>1, <3>2 DEF WriterInv, CountInv, names
  <2>3. FilesInv'
    BY <1>1, <1>5, <2>1 DEF WriterInv, FilesInv, FileInv
  <2> QED BY <2>2, <2>3 DEF WriterInv
<1> QED BY <1>4, <1>5 DEF write_packet_begins

(* The other steps leave the files alone.                                  *)
LEMMA QuietStep ==
    WriterInv /\ (init_writer \/ free_transcoder \/ Tick \/ UNCHANGED wvars) => WriterInv'
<1> SUFFICES ASSUME WriterInv, init_writer \/ free_transcoder \/ Tick \/ UNCHANGED wvars
             PROVE  WriterInv'
  OBVIOUS
<1>1. CASE init_writer
  <2>1. PICK seconds \in RolloverTimes, rate \in Rates : desired' \in Frames(seconds, rate)
    BY <1>1 DEF init_writer
  <2>2. desired' \in Nat
    BY <2>1, FramesAreNat, RateAssumption
  <2> QED BY <1>1, <2>2 DEF init_writer, WriterInv, CountInv, FilesInv, FileInv, StreamWriterTypeOK,
         DeathNeedsFailure, EveryNameLeaks, config, names, counts, Phases
<1>2. CASE free_transcoder
  BY <1>2 DEF free_transcoder, WriterInv, CountInv, FilesInv, FileInv, StreamWriterTypeOK,
     DeathNeedsFailure, EveryNameLeaks, config, names, counts, Phases
<1>3. CASE Tick
  <2>1. StreamWriterTypeOK'
    BY <1>3, TimeAssumption DEF Tick, WriterInv, CountInv, StreamWriterTypeOK, config, names, counts
  <2>2. CountInv'
    BY <1>3, <2>1 DEF Tick, WriterInv, CountInv, DeathNeedsFailure, EveryNameLeaks,
       config, names, counts
  <2>3. FilesInv'
    BY <1>3 DEF Tick, WriterInv, FilesInv, FileInv, config, counts
  <2> QED BY <2>2, <2>3 DEF WriterInv
<1>4. CASE UNCHANGED wvars
  <2>1. StreamWriterTypeOK'
    BY <1>4 DEF wvars, WriterInv, CountInv, StreamWriterTypeOK, config, names, counts
  <2>2. CountInv'
    BY <1>4, <2>1 DEF wvars, WriterInv, CountInv, DeathNeedsFailure, EveryNameLeaks,
       config, names, counts
  <2>3. FilesInv'
    BY <1>4 DEF wvars, WriterInv, FilesInv, FileInv, config, counts
  <2> QED BY <2>2, <2>3 DEF WriterInv
<1> QED BY <1>1, <1>2, <1>3, <1>4

LEMMA WriterInvStep == WriterInv /\ [StreamWriterNext]_wvars => WriterInv'
BY HeaderStep, TrailerStep, PacketStep, RolloverStep, QuietStep DEF StreamWriterNext, Client, Stopped

-----------------------------------------------------------------------------
(* The inductive invariant of the stream writer.                           *)
THEOREM WriterInvariant == StreamWriterSpec => []WriterInv
BY WriterInvInit, WriterInvStep, PTL DEF StreamWriterSpec

(* The type invariant of the stream writer: no counter, no length and no   *)
(* file leaves its range, whatever the rates and the names.                *)
THEOREM StreamWriterTypeCorrect == StreamWriterSpec => []StreamWriterTypeOK
<1>1. WriterInv => StreamWriterTypeOK
  BY DEF WriterInv, CountInv
<1> QED BY <1>1, WriterInvariant, PTL

(* write_packet rolls over for every packet or for none, whatever the rate *)
(* of the source and the time asked for.                                   *)
THEOREM RolloverIsAlwaysOrNever == StreamWriterSpec => []RolloverAlwaysOrNever
<1>1. WriterInv => RolloverAlwaysOrNever
  BY DEF WriterInv, CountInv, RolloverAlwaysOrNever
<1> QED BY <1>1, WriterInvariant, PTL

(* A whole file holds all the muxer took, and there was no rollover.       *)
THEOREM OnlyTheWholeIsWhole == StreamWriterSpec => []WholeFileHoldsAll
<1>1. WriterInv => WholeFileHoldsAll
  <2> SUFFICES ASSUME WriterInv, NEW i \in DOMAIN files, files[i].headed, files[i].sealed
               PROVE  rolls = 0 /\ files[i].pkts = muxed
    BY DEF WholeFileHoldsAll
  <2>1. i \in 1..Len(files)
    BY DEF WriterInv, CountInv, StreamWriterTypeOK
  <2> QED BY <2>1 DEF WriterInv, FilesInv, FileInv
<1> QED BY <1>1, WriterInvariant, PTL

(* A process that muxes to a context for output dies of a failed header or *)
(* a missing file.                                                         *)
THEOREM DeathOnlyByFailure == StreamWriterSpec => []DeathNeedsFailure
<1>1. WriterInv => DeathNeedsFailure
  BY DEF WriterInv, CountInv
<1> QED BY <1>1, WriterInvariant, PTL

(* No packet is taken, and no trailer is survived, without a header that   *)
(* set up the muxer: a transcoder that writes to its input, as av_cli does,*)
(* has none (StreamWriter.c:35-51; av_cli/src/main.c:370).                 *)
HeaderNeeded ==
    muxed > 0 \/ phase \in {"release", "end"} => dctx # "input" /\ mux # "unset"

(* The safety half of FailedHeaderIsFatal: whoever gets past the trailer,  *)
(* or muxes a packet, had a header that set up the muxer.                  *)
THEOREM HeaderIsNeeded == StreamWriterSpec => []HeaderNeeded
<1>1. WriterInv => HeaderNeeded
  BY DEF WriterInv, CountInv, StreamWriterTypeOK, HeaderNeeded
<1> QED BY <1>1, WriterInvariant, PTL

(* Two blocks are lost with every name, for names of every length but those*)
(* whose size is computed to be 0.                                         *)
THEOREM TwoBlocksPerName == StreamWriterSpec => []EveryNameLeaks
<1>1. WriterInv => EveryNameLeaks
  BY DEF WriterInv, CountInv
<1> QED BY <1>1, WriterInvariant, PTL

(* Files opened in different seconds have different names, as long as the  *)
(* size of a name fits eight bits and the extension has three characters.  *)
THEOREM LaterFilesHaveNewNames == StreamWriterSpec => []LaterFilesAreNew
<1>1. WriterInv => LaterFilesAreNew
  <2> SUFFICES ASSUME WriterInv, ext >= 3, fn + ext + 18 < 256,
                      NEW i \in DOMAIN files, NEW j \in DOMAIN files,
                      files[i].at # files[j].at
               PROVE  files[i].shown # files[j].shown
    BY DEF LaterFilesAreNew
  <2>1. /\ i \in 1..Len(files) /\ j \in 1..Len(files)
        /\ files[i].at \in Nat /\ files[j].at \in Nat /\ fn \in Nat /\ ext \in Nat
    <3>1. files \in Seq(File) /\ fn \in Nat /\ ext \in Nat
      BY LengthAssumption DEF WriterInv, CountInv, StreamWriterTypeOK
    <3>2. /\ i \in 1..Len(files) /\ j \in 1..Len(files)
          /\ files[i] \in File /\ files[j] \in File
      BY <3>1
    <3>3. files[i].at \in Times /\ files[j].at \in Times
      BY <3>2 DEF File
    <3> QED BY <3>1, <3>2, <3>3, TimeAssumption
  <2>2. files[i].shown = files[i].at /\ files[j].shown = files[j].at
    BY <2>1, ShowsTheSecond DEF WriterInv, FilesInv, FileInv
  <2> QED BY <2>2
<1> QED BY <1>1, WriterInvariant, PTL
=============================================================================
