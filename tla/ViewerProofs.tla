---------------------------- MODULE ViewerProofs ----------------------------
(***************************************************************************)
(* What the viewer, the camera stream it reads and the recorder behind it  *)
(* guarantee together, for every camera, every buffer size and every       *)
(* number of tries.                                                        *)
(***************************************************************************)
EXTENDS Viewer, RecordingProofs, FiniteSetTheorems

USE DEF NoPacket

(* The actions of main that leave the recorder alone or kill its process,  *)
(* and those in which the stream calls the recorder.                       *)
LEMMA StreamCalls ==
  ASSUME InMain,
         \/ init_stream \/ init_buffers_continues \/ init_buffers_ends
         \/ init_formatter \/ get_next_frame \/ format_frame
         \/ free_stream_begins \/ free_stream_releases \/ free_stream_ends
  PROVE  [WriterStep]_wvars
<1> USE DEF Crash
<1>0. Die("client") => WriterStep
  BY DEF InMain, WriterStep, client_ends
<1>1. CASE init_stream
  <2>1. CASE StreamFails
    BY <2>1 DEF StreamFails
  <2>2. CASE StreamHasNoAudio
    BY <1>0, <2>2 DEF StreamHasNoAudio
  <2>3. CASE StreamOpens
    BY <2>3 DEF StreamOpens, WriterStep
  <2> QED BY <1>1, <2>1, <2>2, <2>3 DEF init_stream
<1>2. CASE init_buffers_continues
  <2> PICK i \in StreamIndices : BuffersTry(i)
    BY <1>2 DEF init_buffers_continues
  <2>1. Die("client") \/ UNCHANGED wvars
    BY DEF BuffersTry
  <2> QED BY <1>0, <2>1
<1>3. CASE init_buffers_ends
  BY <1>0, <1>3 DEF init_buffers_ends
<1>4. CASE init_formatter
  BY <1>0, <1>4 DEF init_formatter
<1>5. CASE get_next_frame
  <2>1. ASSUME NEW i \in StreamIndices, NextFrameRead(i) PROVE WriterStep
    BY <2>1 DEF NextFrameRead, WriterStep
  <2>2. ASSUME NEW i \in StreamIndices, NextFrameUndecodable(i) PROVE WriterStep
    BY <1>0, <2>2 DEF NextFrameUndecodable
  <2>3. NextFrameFails => UNCHANGED wvars
    BY DEF NextFrameFails
  <2> QED BY <1>5, <2>1, <2>2, <2>3 DEF get_next_frame
<1>6. CASE format_frame
  BY <1>0, <1>6 DEF format_frame
<1>7. CASE free_stream_begins
  BY <1>7 DEF free_stream_begins, WriterStep
<1>8. CASE free_stream_releases
  BY <1>0, <1>8 DEF free_stream_releases
<1>9. CASE free_stream_ends
  BY <1>9 DEF free_stream_ends, WriterStep
<1> QED BY <1>1, <1>2, <1>3, <1>4, <1>5, <1>6, <1>7, <1>8, <1>9

(* A step of the viewer is a step of the recorder or leaves it alone.      *)
LEMMA ViewerStepDrives == [ViewerNext]_vvars => [WriterNext]_wvars
<1> SUFFICES ASSUME [ViewerNext]_vvars PROVE [WriterNext]_wvars
  OBVIOUS
<1>2. CASE StartGlfw \/ OpenWindow
  BY <1>2 DEF StartGlfw, OpenWindow, Leave, At, InMain, WriterNext, WriterStep, client_ends
<1>3. CASE \/ InitStream \/ InitBuffers \/ InitFormatter
           \/ GetNextFrame \/ FormatFrame
           \/ Close \/ Release \/ FreeWriter
  BY <1>3, StreamCalls DEF InitStream, InitBuffers, InitFormatter, GetNextFrame,
     FormatFrame, Close, Release, FreeWriter, At, WriterNext
<1>4. CASE Upload
  BY <1>4 DEF Upload, Crash, At, InMain, WriterNext, WriterStep, client_ends
<1>5. CASE Flush
  BY <1>5 DEF Flush, WriterNext, WriterStep
<1>6. CASE AskClose \/ Ended \/ UNCHANGED vvars
  BY <1>6 DEF AskClose, Ended, vvars
<1>7. CASE ClockTick
  BY <1>7 DEF ClockTick, WriterNext
<1> QED BY <1>2, <1>3, <1>4, <1>5, <1>6, <1>7 DEF ViewerNext, Main

(* The viewer calls its recorder only in ways the recorder allows, so what *)
(* is proved of the recorder holds behind the viewer (main.cpp:50-170,     *)
(* RtspStream.c:44-87, 201-230).                                           *)
THEOREM ViewerDrivesWriter == ViewerSpec => DrivesWriter
<1>1. ViewerInit => WriterInit
  BY DEF ViewerInit, StreamInit
<1> QED BY <1>1, ViewerStepDrives, PTL DEF ViewerSpec, DrivesWriter, WriterSpec

(* What the viewer records keeps every packet in one place, in the order   *)
(* read and in whole chunks, and is a packet store (main.cpp:101-170,      *)
(* AVIO.c:123-201).                                                        *)
THEOREM ViewerRecordsWhole ==
  ViewerSpec => [](EachPacketOnce /\ ReadOrder /\ WholeChunks) /\ ImplementsPacketStore
<1> QED BY ViewerDrivesWriter, EachPacketKeptOnce, FilesKeepReadOrder, FilesHoldWholeChunks,
        RecorderIsPacketStore, PTL DEF DrivesWriter
-----------------------------------------------------------------------------
(* Induction over the numbers of a set. *)
LEMMA LeastNatural ==
  ASSUME NEW T \in SUBSET Nat, T # {}
  PROVE  \E m \in T : \A n \in T : m <= n
<1> DEFINE R == StrictSubsetOrdering(Nat)
           U == {0..n : n \in T}
<1>1. IsWellFoundedOn(R, FiniteSubsetsOf(Nat))
  BY FS_StrictSubsetOrderingWellFounded
<1>2. \A n \in Nat : 0..n \in FiniteSubsetsOf(Nat)
  BY FS_Interval DEF FiniteSubsetsOf
<1>3. U \subseteq FiniteSubsetsOf(Nat) /\ U # {}
  BY <1>2
<1>4. \A m, n \in Nat : n < m => <<0..n, 0..m>> \in R
  <2> SUFFICES ASSUME NEW m \in Nat, NEW n \in Nat, n < m PROVE <<0..n, 0..m>> \in R
    OBVIOUS
  <2>1. 0..n \subseteq 0..m /\ 0..n # 0..m
    <3>1. m \in 0..m /\ m \notin 0..n
      OBVIOUS
    <3> QED BY <3>1
  <2>2. 0..n \in SUBSET Nat /\ 0..m \in SUBSET Nat
    OBVIOUS
  <2> DEFINE A == 0..n
             B == 0..m
  <2> HIDE DEF A, B
  <2>3. <<A, B>> \in (SUBSET Nat) \X (SUBSET Nat)
    BY <2>2 DEF A, B
  <2> QED BY <2>1, <2>3 DEF StrictSubsetOrdering, A, B
<1> HIDE DEF R
<1>5. PICK u \in U : \A v \in U : ~ (<<v, u>> \in R)
  BY <1>1, <1>3, WFMin
<1>6. PICK m \in T : u = 0..m
  OBVIOUS
<1>7. \A n \in T : ~ (n < m)
  BY <1>4, <1>5, <1>6
<1> QED BY <1>7

LEMMA SetInduction ==
  ASSUME NEW S, 0 \in S, \A n \in Nat : n \in S => n + 1 \in S
  PROVE  Nat \subseteq S
<1> SUFFICES ASSUME ~(Nat \subseteq S) PROVE FALSE
  OBVIOUS
<1> DEFINE T == Nat \ S
<1>1. PICK m \in T : \A n \in T : m <= n
  <2>1. T \in SUBSET Nat /\ T # {}
    OBVIOUS
  <2> QED BY <2>1, LeastNatural
<1>2. m # 0 /\ m - 1 \in Nat /\ m - 1 \notin T
  BY <1>1
<1> QED BY <1>2

(* What the search of init_stream has found after n of the streams of l:   *)
(* for either kind the first stream of it, or none among these, unless the *)
(* other index, at 2 or more, has ended the search.                        *)
FoundFirst(f, l, n, k, other) ==
    /\ f[k] \in -1..n - 1
    /\ f[k] # -1 => l[f[k] + 1] = k /\ \A j \in 1..f[k] : l[j] # k
    /\ f[k] = -1 => f[other] >= 2 \/ \A j \in 1..n : l[j] # k

SearchInv(f, l, n) ==
    /\ FoundFirst(f, l, n, "video", "audio")
    /\ FoundFirst(f, l, n, "audio", "video")

(* The search of init_stream, which is defined by recursion, is the fold   *)
(* of its steps.                                                           *)
SearchStep(f, l, i) ==
    IF f.video + f.audio >= 1 THEN f
    ELSE [video |-> IF f.video = -1 /\ l[i] = "video" THEN i - 1 ELSE f.video,
          audio |-> IF f.audio = -1 /\ l[i] = "audio" THEN i - 1 ELSE f.audio]

LEMMA SelectionUnfolds ==
  ASSUME NEW l \in Seq(Kind)
  PROVE  \E f : /\ Selection(l) = f[Len(l)]
                /\ f[0] = [video |-> -1, audio |-> -1]
                /\ \A i \in 1..Len(l) : f[i] = SearchStep(f[i - 1], l, i)
<1> DEFINE Body(f, i) == IF i = 0 THEN [video |-> -1, audio |-> -1]
                         ELSE SearchStep(f[i - 1], l, i)
           S == {n \in Nat : \E f : f = [i \in 0..n |-> Body(f, i)]}
           found == CHOOSE f : f = [i \in 0..Len(l) |-> Body(f, i)]
<1>1. Selection(l) = found[Len(l)]
  BY DEF Selection, SearchStep
<1>2. 0 \in S
  <2> DEFINE f == [i \in 0..0 |-> [video |-> -1, audio |-> -1]]
  <2>1. f = [i \in 0..0 |-> Body(f, i)]
    OBVIOUS
  <2> QED BY <2>1
<1>3. ASSUME NEW n \in Nat, n \in S PROVE n + 1 \in S
  <2> PICK f : f = [i \in 0..n |-> Body(f, i)]
    BY <1>3
  <2> DEFINE g == [i \in 0..n + 1 |-> IF i \in 0..n THEN f[i] ELSE Body(f, n + 1)]
  <2>1. \A i \in 0..n + 1 : g[i] = Body(g, i)
    <3> SUFFICES ASSUME NEW i \in 0..n + 1 PROVE g[i] = Body(g, i)
      OBVIOUS
    <3>1. i # 0 => i - 1 \in 0..n /\ g[i - 1] = f[i - 1]
      OBVIOUS
    <3>2. Body(g, i) = Body(f, i)
      BY <3>1
    <3>3. CASE i \in 0..n
      <4>1. f[i] = Body(f, i)
        BY <3>3
      <4> QED BY <3>2, <3>3, <4>1
    <3>4. CASE i = n + 1
      BY <3>2, <3>4
    <3> QED BY <3>3, <3>4
  <2>2. g = [i \in 0..n + 1 |-> Body(g, i)]
    <3>1. g = [i \in 0..n + 1 |-> g[i]]
      OBVIOUS
    <3> HIDE DEF g
    <3> QED BY <2>1, <3>1
  <2>3. \E h : h = [i \in 0..n + 1 |-> Body(h, i)]
    <3> HIDE DEF g, Body
    <3> QED BY <2>2
  <2> QED BY <2>3
<1>4. Len(l) \in S
  <2>1. Nat \subseteq S
    <3> HIDE DEF S
    <3> QED BY <1>2, <1>3, SetInduction
  <2> QED BY <2>1
<1>5. found = [i \in 0..Len(l) |-> Body(found, i)]
  <2>1. \E f : f = [i \in 0..Len(l) |-> Body(f, i)]
    BY <1>4
  <2> HIDE DEF Body
  <2> QED BY <2>1, Zenon
<1> HIDE DEF found
<1>6. \A i \in 0..Len(l) : found[i] = Body(found, i)
  BY <1>5
<1> QED BY <1>1, <1>6

LEMMA SelectionFindsFirst ==
  ASSUME NEW l \in Seq(Kind)
  PROVE  SearchInv(Selection(l), l, Len(l))
<1> PICK f : /\ Selection(l) = f[Len(l)]
             /\ f[0] = [video |-> -1, audio |-> -1]
             /\ \A i \in 1..Len(l) : f[i] = SearchStep(f[i - 1], l, i)
  BY SelectionUnfolds
<1> DEFINE S == {n \in Nat : n <= Len(l) => SearchInv(f[n], l, n)}
<1>1. 0 \in S
  BY DEF SearchInv, FoundFirst
<1>2. ASSUME NEW n \in Nat, n \in S PROVE n + 1 \in S
  <2> SUFFICES ASSUME n + 1 <= Len(l) PROVE SearchInv(f[n + 1], l, n + 1)
    OBVIOUS
  <2> DEFINE F == f[n]
             G == f[n + 1]
  <2>1. SearchInv(F, l, n) /\ G = SearchStep(F, l, n + 1)
    <3>1. n + 1 \in 1..Len(l) /\ n + 1 - 1 = n /\ n <= Len(l)
      OBVIOUS
    <3>2. SearchInv(f[n], l, n)
      BY <1>2, <3>1
    <3>3. f[n + 1] = SearchStep(f[n], l, n + 1)
      BY <3>1
    <3> QED BY <3>2, <3>3
  <2> HIDE DEF F, G
  <2>2. F.video \in -1..n - 1 /\ F.audio \in -1..n - 1
    BY <2>1 DEF SearchInv, FoundFirst
  <2>3. CASE F.video + F.audio >= 1
    <3>1. G = F
      BY <2>1, <2>3 DEF SearchStep
    <3>2. FoundFirst(G, l, n + 1, "video", "audio")
      BY <2>1, <2>2, <2>3, <3>1 DEF SearchInv, FoundFirst
    <3>3. FoundFirst(G, l, n + 1, "audio", "video")
      BY <2>1, <2>2, <2>3, <3>1 DEF SearchInv, FoundFirst
    <3> QED BY <3>2, <3>3 DEF SearchInv, G
  <2>4. CASE ~(F.video + F.audio >= 1)
    <3>1. /\ G.video = IF F.video = -1 /\ l[n + 1] = "video" THEN n ELSE F.video
          /\ G.audio = IF F.audio = -1 /\ l[n + 1] = "audio" THEN n ELSE F.audio
      BY <2>1, <2>4 DEF SearchStep
    <3>2. /\ F.video = -1 => ~(F.audio >= 2)
          /\ F.audio = -1 => ~(F.video >= 2)
      BY <2>2, <2>4
    <3>3. /\ F.video = -1 => \A j \in 1..n : l[j] # "video"
          /\ F.audio = -1 => \A j \in 1..n : l[j] # "audio"
      BY <2>1, <3>2 DEF SearchInv, FoundFirst
    <3>4. FoundFirst(G, l, n + 1, "video", "audio")
      BY <2>1, <2>2, <3>1, <3>3 DEF SearchInv, FoundFirst
    <3>5. FoundFirst(G, l, n + 1, "audio", "video")
      BY <2>1, <2>2, <3>1, <3>3 DEF SearchInv, FoundFirst
    <3> QED BY <3>4, <3>5 DEF SearchInv, G
  <2> QED BY <2>3, <2>4
<1>3. Nat \subseteq S
  <2> HIDE DEF S
  <2> QED BY <1>1, <1>2, SetInduction
<1> QED BY <1>3

LEMMA FirstOfIs ==
  ASSUME layout \in Seq(Kind), NEW k \in Kind
  PROVE  /\ \A m \in 1..Len(layout) :
               layout[m] = k /\ (\A j \in 1..m - 1 : layout[j] # k) => FirstOf(k) = m - 1
         /\ (\A j \in 1..Len(layout) : layout[j] # k) => FirstOf(k) = -1
<1> DEFINE I == {i \in 1..Len(layout) : layout[i] = k}
<1>1. ASSUME NEW m \in 1..Len(layout), layout[m] = k,
             \A j \in 1..m - 1 : layout[j] # k
      PROVE  FirstOf(k) = m - 1
  <2>1. m \in I /\ \A j \in I : m <= j
    BY <1>1
  <2>2. \A i \in I : (\A j \in I : i <= j) => i = m
    BY <2>1
  <2>3. (CHOOSE i \in I : \A j \in I : i <= j) = m
    <3> HIDE DEF I
    <3> QED BY <2>1, <2>2
  <2> QED BY <2>1, <2>3 DEF FirstOf
<1>2. (\A j \in 1..Len(layout) : layout[j] # k) => FirstOf(k) = -1
  BY DEF FirstOf
<1> QED BY <1>1, <1>2

(* What the search selects, in the terms of SelectionIsFirst.              *)
LEMMA SelectedIsFirst ==
  ASSUME layout \in Layouts
  PROVE  LET s == Selection(layout)
         IN  /\ s.video \in -1..Len(layout)-1 /\ s.audio \in -1..Len(layout)-1
             /\ s.video \in {-1, FirstOf("video")} /\ s.audio \in {-1, FirstOf("audio")}
             /\ s.video # FirstOf("video") => s.audio >= 2
             /\ s.audio # FirstOf("audio") => s.video >= 2
<1> DEFINE s == Selection(layout)
<1>1. layout \in Seq(Kind) /\ Len(layout) \in Nat
  BY LayoutAssumption
<1>2. SearchInv(s, layout, Len(layout))
  BY <1>1, SelectionFindsFirst
<1> HIDE DEF s
<1>3. ASSUME NEW k \in {"video", "audio"}, NEW o, FoundFirst(s, layout, Len(layout), k, o)
      PROVE  /\ s[k] \in -1..Len(layout)-1 /\ s[k] \in {-1, FirstOf(k)}
             /\ s[k] # FirstOf(k) => s[o] >= 2
  <2>1. k \in Kind
    BY DEF Kind
  <2>2. CASE s[k] = -1
    BY <1>1, <1>3, <2>1, <2>2, FirstOfIs DEF FoundFirst
  <2>3. CASE s[k] # -1
    <3>1. /\ s[k] + 1 \in 1..Len(layout) /\ layout[s[k] + 1] = k
          /\ \A j \in 1..s[k] : layout[j] # k
      BY <1>1, <1>3, <2>3 DEF FoundFirst
    <3>2. FirstOf(k) = s[k]
      <4> DEFINE m == s[k] + 1
      <4>1. m \in 1..Len(layout) /\ s[k] = m - 1
        BY <1>1, <1>3, <3>1 DEF FoundFirst
      <4>2. layout[m] = k /\ \A j \in 1..m - 1 : layout[j] # k
        BY <3>1, <4>1
      <4> HIDE DEF m
      <4>3. FirstOf(k) = m - 1
        BY <1>1, <2>1, <4>1, <4>2, FirstOfIs, ZenonT(30)
      <4> QED BY <4>1, <4>3
    <3> QED BY <1>1, <1>3, <3>1, <3>2 DEF FoundFirst
  <2> QED BY <2>2, <2>3
<1>4. /\ FoundFirst(s, layout, Len(layout), "video", "audio")
      /\ FoundFirst(s, layout, Len(layout), "audio", "video")
  BY <1>2 DEF SearchInv
<1>5. /\ s["video"] \in -1..Len(layout)-1 /\ s["video"] \in {-1, FirstOf("video")}
      /\ s["video"] # FirstOf("video") => s["audio"] >= 2
  BY <1>3, <1>4
<1>6. /\ s["audio"] \in -1..Len(layout)-1 /\ s["audio"] \in {-1, FirstOf("audio")}
      /\ s["audio"] # FirstOf("audio") => s["video"] >= 2
  BY <1>3, <1>4
<1> QED BY <1>5, <1>6 DEF s
-----------------------------------------------------------------------------
(* The type invariant, with the indices of an open camera as selected. *)
ViewerTypeInv ==
    /\ ViewerTypeOK
    /\ inCtx = "open" => vIdx = Selection(layout).video /\ aIdx = Selection(layout).audio

LEMMA ViewerTypeInit == ViewerInit => ViewerTypeInv
<1> SUFFICES ASSUME ViewerInit PROVE ViewerTypeInv
  OBVIOUS
<1>1. WriterTypeOK
  BY TypeInvInit DEF ViewerInit, StreamInit, TypeInv
<1>2. layout \in Layouts /\ Len(layout) \in Nat
  BY LayoutAssumption DEF ViewerInit, StreamInit
<1>3. vIdx \in -1..Len(layout)-1 /\ aIdx \in -1..Len(layout)-1 /\ tries \in 0..MaxTries
  BY <1>2, TriesAssumption DEF ViewerInit, StreamInit
<1>4. StreamTypeOK /\ inCtx # "open"
  BY <1>2, <1>3 DEF ViewerInit, StreamInit, StreamTypeOK
<1> QED BY <1>1, <1>4 DEF ViewerInit, ViewerTypeInv, ViewerTypeOK, Points

(* What a call of the stream leaves of the types of its variables. *)
LEMMA StreamStepTypes ==
  ASSUME TypeInv, ViewerTypeInv,
         \/ init_stream \/ init_buffers_continues \/ init_buffers_ends
         \/ init_formatter \/ get_next_frame \/ format_frame
         \/ free_stream_begins \/ free_stream_releases \/ free_stream_ends
  PROVE  /\ StreamTypeOK'
         /\ inCtx' = "open" => vIdx' = Selection(layout').video /\ aIdx' = Selection(layout').audio
<1> USE DEF Crash, StreamTypeOK, demuxer, codecs, buffers, frames, picture
<1>0. StreamTypeOK
  BY DEF ViewerTypeInv, ViewerTypeOK
<1>1. CASE init_stream
  <2> DEFINE s == Selection(layout)
  <2>1. /\ s.video \in -1..Len(layout)-1 /\ s.audio \in -1..Len(layout)-1
    BY <1>0, SelectedIsFirst
  <2> HIDE DEF s
  <2>2. /\ UNCHANGED <<layout, buffers, frames, picture>>
        /\ \/ UNCHANGED <<inCtx, vIdx, aIdx>>
           \/ inCtx' = "open" /\ vIdx' = s.video /\ aIdx' = s.audio
    BY <1>1 DEF init_stream, StreamFails, StreamHasNoAudio, StreamOpens, s
  <2>3. /\ vCtx' \in {"uninit", "alloc", "open"} /\ aCtx' \in {"uninit", "alloc", "open"}
        /\ death' \in {death, "init"}
    BY <1>0, <1>1 DEF init_stream, StreamFails, StreamHasNoAudio, StreamOpens
  <2>4. initRet' \in {"none", "NO_ERROR"} \cup InitErrors \cup WriterErrors
    BY <1>0, <1>1 DEF init_stream, StreamFails, StreamHasNoAudio, StreamOpens,
       InitErrors, WriterErrors, WriterOutcomes, WriterResult
  <2> QED BY <1>0, <2>1, <2>2, <2>3, <2>4 DEF ViewerTypeInv, s
<1>2. CASE init_buffers_continues
  <2> PICK i \in StreamIndices : BuffersTry(i)
    BY <1>2 DEF init_buffers_continues
  <2>1. tries > 0 /\ (UNCHANGED tries \/ tries' = tries - 1)
    BY DEF BuffersTry
  <2>2. tries' \in 0..MaxTries
    BY <1>0, <2>1, TriesAssumption
  <2>3. buffersRet' \in {"NO_ERROR", "INIT_BUFFER_FAILED"} \cup DecodeErrors
    <3>1. UNCHANGED buffersRet \/ \E c \in {vCtx, aCtx} : buffersRet' \in DecodeResults(c)
      BY DEF BuffersTry
    <3> QED BY <1>0, <3>1 DEF DecodeResults, DecodeErrors
  <2>4. /\ UNCHANGED fbInit \/ \E r : fbInit' = (r = "NO_ERROR")
        /\ UNCHANGED abInit \/ \E r : abInit' = (r = "NO_ERROR")
        /\ death' \in {death, "decode"}
    BY DEF BuffersTry
  <2>5. fbInit' \in BOOLEAN /\ abInit' \in BOOLEAN
    BY <1>0, <2>4
  <2> QED BY <1>0, <1>2, <2>2, <2>3, <2>4, <2>5 DEF init_buffers_continues, ViewerTypeInv
<1>3. CASE init_buffers_ends
  BY <1>0, <1>3 DEF init_buffers_ends, ViewerTypeInv
<1>4. CASE init_formatter
  BY <1>0, <1>4 DEF init_formatter, ViewerTypeInv
<1>5. CASE get_next_frame
  <2>1. ASSUME NEW i \in StreamIndices, NextFrameRead(i)
        PROVE  {vFrame', aFrame', lastV', lastA'} \subseteq Packet \cup {NoPacket}
               /\ UNCHANGED death
    <3>1. accepted + 1 \in Packet
      BY <2>1, BoundAssumption DEF NextFrameRead, buffer_frame, Packet, TypeInv, WriterTypeOK
    <3> QED BY <1>0, <2>1, <3>1 DEF NextFrameRead
  <2>2. /\ {vFrame', aFrame', lastV', lastA'} \subseteq Packet \cup {NoPacket}
        /\ death' \in {death, "decode"}
    BY <1>0, <1>5, <2>1 DEF get_next_frame, NextFrameUndecodable, NextFrameFails
  <2> QED BY <1>0, <1>5, <2>2 DEF get_next_frame, ViewerTypeInv
<1>6. CASE format_frame
  BY <1>0, <1>6 DEF format_frame, ViewerTypeInv
<1>7. CASE free_stream_begins \/ free_stream_ends
  BY <1>0, <1>7 DEF free_stream_begins, free_stream_ends, rvars, ViewerTypeInv
<1>8. CASE free_stream_releases
  <2>1. UNCHANGED <<layout, vIdx, aIdx, tries, buffersRet, lastV, lastA,
                    shown, formatRet, initRet>>
    BY <1>8 DEF free_stream_releases
  <2>2. /\ vFrame' \in {vFrame, NoPacket} /\ aFrame' \in {aFrame, NoPacket}
        /\ inCtx' \in {inCtx, "null"} /\ vCtx' \in {vCtx, "uninit"}
        /\ aCtx' \in {aCtx, "uninit"} /\ sws' \in {sws, "null"}
        /\ UNCHANGED fbInit \/ fbInit' = FALSE
        /\ UNCHANGED abInit \/ abInit' = FALSE
        /\ death' \in {death, "release"}
    BY <1>8 DEF free_stream_releases
  <2>3. /\ vIdx' \in -1..Len(layout')-1 /\ aIdx' \in -1..Len(layout')-1 /\ tries' \in 0..MaxTries
        /\ layout' \in Layouts
    BY <1>0, <2>1
  <2>4. {vFrame', aFrame', shown', lastV', lastA'} \subseteq Packet \cup {NoPacket}
    BY <1>0, <2>1, <2>2
  <2>5. fbInit' \in BOOLEAN /\ abInit' \in BOOLEAN
    BY <1>0, <2>2
  <2>6. /\ inCtx' \in {"null", "open"} /\ sws' \in {"null", "garbage", "ok"}
        /\ vCtx' \in {"uninit", "alloc", "open"} /\ aCtx' \in {"uninit", "alloc", "open"}
    BY <1>0, <2>2
  <2>7. /\ buffersRet' \in {"NO_ERROR", "INIT_BUFFER_FAILED"} \cup DecodeErrors
        /\ formatRet' \in {"NO_ERROR", "FRAME_FORMAT_FAILED"}
        /\ initRet' \in {"none", "NO_ERROR"} \cup InitErrors \cup WriterErrors
        /\ death' \in {"none", "init", "buffers", "formatter", "decode", "format",
                     "release", "client"}
    BY <1>0, <2>1, <2>2
  <2>8. StreamTypeOK'
    BY <2>3, <2>4, <2>5, <2>6, <2>7
  <2> QED BY <2>1, <2>2, <2>8 DEF ViewerTypeInv
<1> QED BY <1>1, <1>2, <1>3, <1>4, <1>5, <1>6, <1>7, <1>8

LEMMA ViewerTypeStep ==
  ASSUME TypeInv, ViewerTypeInv, [ViewerNext]_vvars
  PROVE  ViewerTypeInv'
<1> DEFINE Sel == inCtx = "open" => /\ vIdx = Selection(layout).video
                                    /\ aIdx = Selection(layout).audio
<1>1. WriterTypeOK'
  BY ViewerStepDrives, TypeInvStep DEF TypeInv
<1>2. SUFFICES /\ StreamTypeOK' /\ Sel' /\ pc' \in Points /\ closeAsked' \in BOOLEAN
               /\ {pbo', screen'} \subseteq Packet \cup {NoPacket}
  BY <1>1 DEF ViewerTypeInv, ViewerTypeOK
<1>3. /\ StreamTypeOK /\ Sel /\ pc \in Points /\ closeAsked \in BOOLEAN
      /\ {pbo, screen} \subseteq Packet \cup {NoPacket}
  BY DEF ViewerTypeInv, ViewerTypeOK
<1>4. UNCHANGED rvars => StreamTypeOK' /\ Sel'
  BY <1>3 DEF rvars, demuxer, codecs, buffers, frames, picture, StreamTypeOK
<1> HIDE DEF Sel
<1>5. CASE \/ InitStream \/ InitBuffers \/ InitFormatter \/ GetNextFrame \/ FormatFrame
           \/ Close \/ Release \/ FreeWriter
  <2>1. StreamTypeOK' /\ Sel'
    BY <1>5, StreamStepTypes DEF InitStream, InitBuffers, InitFormatter, GetNextFrame,
       FormatFrame, Close, Release, FreeWriter, Sel
  <2>2. pc' \in Points /\ UNCHANGED <<closeAsked, screenvars>>
    BY <1>3, <1>5 DEF InitStream, InitBuffers, InitFormatter, GetNextFrame,
       FormatFrame, Close, Release, FreeWriter, Goto, Points
  <2> QED BY <1>3, <2>1, <2>2 DEF screenvars
<1>6. CASE StartGlfw \/ OpenWindow
  BY <1>3, <1>4, <1>6 DEF StartGlfw, OpenWindow, Leave, Goto, Points, screenvars
<1>7. CASE Upload
  <2>1. shown \in Packet \cup {NoPacket}
    BY <1>3 DEF StreamTypeOK
  <2>2. CASE UNCHANGED rvars
    BY <1>3, <1>4, <1>7, <2>1, <2>2 DEF Upload, Goto, Points, screenvars
  <2>3. CASE death' = "client" /\ UNCHANGED <<demuxer, codecs, buffers, frames, picture, initRet,
                         pc, screenvars, closeAsked>>
    BY <1>3, <2>3 DEF Sel, StreamTypeOK, demuxer, codecs, buffers, frames, picture, screenvars
  <2> QED BY <1>7, <2>2, <2>3 DEF Upload, Crash
<1>8. CASE Flush \/ ClockTick \/ AskClose \/ Ended \/ UNCHANGED vvars
  BY <1>3, <1>4, <1>8 DEF Flush, ClockTick, AskClose, Ended, vvars, screenvars
<1> QED BY <1>5, <1>6, <1>7, <1>8 DEF ViewerNext, Main

(* What is always known of the recorder and of the types. *)
ViewerInv == StoreInv /\ ChunkInv /\ ViewerTypeInv

LEMMA ViewerAlways == ViewerSpec => []ViewerInv
<1>1. ViewerInit => ViewerInv
  BY StoreInvInit, ChunkInvInit, ViewerTypeInit DEF ViewerInv, ViewerInit, StreamInit
<1>2. ViewerInv /\ [ViewerNext]_vvars => ViewerInv'
  BY StoreInvStep, ChunkInvStep, ViewerTypeStep, ViewerStepDrives DEF ViewerInv, StoreInv
<1> QED BY <1>1, <1>2, PTL DEF ViewerSpec

(* Every variable of the viewer keeps its type; the indices init_stream    *)
(* selects lie within the streams of the camera (RtspStream.c:113-129).    *)
THEOREM ViewerTypeCorrect == ViewerSpec => []ViewerTypeOK
<1>1. ViewerInv => ViewerTypeOK
  BY DEF ViewerInv, ViewerTypeInv
<1> QED BY <1>1, ViewerAlways, PTL

(* For every camera init_stream selects the first stream of each kind, and *)
(* misses a kind only behind a stream of the other one at index 2 or more  *)
(* (RtspStream.c:117-129).                                                 *)
THEOREM SelectionAlwaysFirst == ViewerSpec => []SelectionIsFirst
<1>1. ViewerInv => SelectionIsFirst
  BY SelectedIsFirst DEF ViewerInv, ViewerTypeInv, ViewerTypeOK, StreamTypeOK, SelectionIsFirst
<1> QED BY <1>1, ViewerAlways, PTL
-----------------------------------------------------------------------------
(* The steps that are not main's leave all but the wish to close and the   *)
(* clock alone, and a process that has ended takes no other.               *)
Rest == UNCHANGED <<thread, buffer, output, closing, disk, accepted, ghosts,
                    rvars, pc, screenvars>>

LEMMA MainOrRest ==
  ASSUME [ViewerNext]_vvars
  PROVE  Rest \/ (Main /\ wpc \notin {"gone", "crash"})
<1>1. Main => wpc \notin {"gone", "crash"}
  BY DEF Main, StartGlfw, InitStream, InitBuffers, InitFormatter, OpenWindow, GetNextFrame,
     FormatFrame, Upload, Close, Release, FreeWriter, Flush, At, InMain, WriterFlush,
     flush_write, flush_seal, rollover_output_file, RollOver
<1>2. AskClose \/ ClockTick \/ Ended \/ UNCHANGED vvars => Rest
  BY DEF AskClose, ClockTick, Ended, vvars, wvars, Tick, Rest
<1> QED BY <1>1, <1>2 DEF ViewerNext

(* The numbers of the packets shown and read. *)
LEMMA NumbersAre ==
  ASSUME ViewerInv
  PROVE  /\ screen \in Nat /\ pbo \in Nat /\ shown \in Nat /\ lastV \in Nat /\ lastA \in Nat
         /\ vFrame \in Nat /\ aFrame \in Nat /\ accepted \in Nat
<1>1. Packet \cup {NoPacket} \subseteq Nat
  BY DEF Packet
<1>2. accepted \in Nat
  BY BoundAssumption DEF ViewerInv, StoreInv, TypeInv, WriterTypeOK
<1> QED BY <1>1, <1>2 DEF ViewerInv, ViewerTypeInv, ViewerTypeOK, StreamTypeOK

(* What get_next_frame may have changed, and what format_frame.            *)
LEMMA GetNextFrameEffect ==
  ASSUME GetNextFrame
  PROVE  /\ pc = "loop" /\ pc' = "format"
         /\ UNCHANGED <<demuxer, codecs, buffers, picture, initRet, screenvars, closing>>
         /\ \/ /\ UNCHANGED <<wvars, frames, death>>
            \/ /\ UNCHANGED frames /\ Die("client") /\ death' = "decode"
            \/ /\ buffer_frame /\ UNCHANGED death
               /\ \/ lastV' = accepted + 1 /\ vFrame' \in {NoPacket, lastV'}
                  \/ UNCHANGED <<lastV, vFrame>>
               /\ \/ lastA' = accepted + 1 /\ aFrame' \in {NoPacket, lastA'}
                  \/ UNCHANGED <<lastA, aFrame>>
<1>1. pc = "loop" /\ pc' = "format" /\ get_next_frame /\ UNCHANGED screenvars
  BY DEF GetNextFrame, At, Goto
<1>2. ASSUME NEW i \in StreamIndices, NextFrameRead(i)
      PROVE  /\ buffer_frame /\ UNCHANGED death
             /\ \/ lastV' = accepted + 1 /\ vFrame' \in {NoPacket, lastV'}
                \/ UNCHANGED <<lastV, vFrame>>
             /\ \/ lastA' = accepted + 1 /\ aFrame' \in {NoPacket, lastA'}
                \/ UNCHANGED <<lastA, aFrame>>
  BY <1>2 DEF NextFrameRead
<1>3. ASSUME NEW i \in StreamIndices, NextFrameUndecodable(i)
      PROVE  UNCHANGED frames /\ Die("client") /\ death' = "decode"
  BY <1>3 DEF NextFrameUndecodable, Crash
<1>4. UNCHANGED <<demuxer, codecs, buffers, picture, initRet>>
  BY <1>1 DEF get_next_frame
<1>5. (UNCHANGED wvars \/ Die("client") \/ buffer_frame) => UNCHANGED closing
  BY DEF wvars, Die, buffer_frame
<1> QED BY <1>1, <1>2, <1>3, <1>4, <1>5 DEF get_next_frame, NextFrameFails

LEMMA FormatFrameEffect ==
  ASSUME FormatFrame
  PROVE  /\ pc = "format" /\ pc' = "upload"
         /\ UNCHANGED <<demuxer, codecs, buffers, frames, sws, initRet, screenvars>>
         /\ \/ /\ vFrame = NoPacket \/ sws # "ok"
               /\ Die("client") /\ death' = "format"
               /\ UNCHANGED <<shown, formatRet>>
            \/ /\ vFrame # NoPacket /\ UNCHANGED <<wvars, death>>
               /\ \/ formatRet' = "NO_ERROR" /\ shown' = vFrame
                  \/ formatRet' = "FRAME_FORMAT_FAILED" /\ UNCHANGED shown
BY DEF FormatFrame, format_frame, At, Goto, Crash

(* The steps of main that leave the pictures and the packets read alone.   *)
LEMMA OtherMainSteps ==
  ASSUME Main, ~GetNextFrame, ~FormatFrame, ~Upload
  PROVE  /\ UNCHANGED <<lastV, lastA, shown, formatRet, screenvars>>
         /\ pc' # "upload" \/ (Flush /\ pc' = pc)
         /\ \/ UNCHANGED <<vFrame, aFrame>>
            \/ vFrame' = NoPacket /\ aFrame' = NoPacket /\ pc' = "writer"
         /\ UNCHANGED accepted
<1> USE DEF frames, picture, rvars, wvars
<1>0. \A c : Die(c) => UNCHANGED accepted
  BY DEF Die
<1>1. CASE StartGlfw \/ OpenWindow
  BY <1>0, <1>1 DEF StartGlfw, OpenWindow, Leave, Goto
<1>2. CASE InitStream
  BY <1>0, <1>2 DEF InitStream, init_stream, Goto, StreamFails, StreamHasNoAudio, StreamOpens,
     init_stream_writer, Crash
<1>3. CASE InitBuffers
  <2>1. pc = "buffers" /\ pc' \in {pc, "formatter"} /\ UNCHANGED <<frames, picture, screenvars>>
    BY <1>3 DEF InitBuffers, init_buffers_continues, init_buffers_ends, At, Goto
  <2>2. UNCHANGED accepted
    BY <1>0, <1>3 DEF InitBuffers, init_buffers_continues, init_buffers_ends, BuffersTry, Crash
  <2> QED BY <2>1, <2>2
<1>4. CASE InitFormatter
  BY <1>0, <1>4 DEF InitFormatter, init_formatter, Crash, Goto
<1>5. CASE Close
  BY <1>0, <1>5 DEF Close, free_stream_begins, close_writer, Goto
<1>6. CASE Release
  BY <1>0, <1>6 DEF Release, free_stream_releases, Goto, Crash
<1>7. CASE FreeWriter
  BY <1>0, <1>7 DEF FreeWriter, free_stream_ends, free_stream_writer, Goto
<1>8. CASE Flush
  <2>1. UNCHANGED accepted
    BY <1>0, <1>8 DEF Flush, WriterFlush, flush_write, flush_seal, rollover_output_file
  <2> QED BY <1>8, <2>1 DEF Flush
<1> QED BY <1>1, <1>2, <1>3, <1>4, <1>5, <1>6, <1>7, <1>8 DEF Main

(* A living viewer has counted each packet it has read. *)
StageInv == StagesInOrder /\ (Dead \/ lastV <= accepted)

LEMMA StageInvStep ==
  ASSUME ViewerInv, StageInv, [ViewerNext]_vvars
  PROVE  StageInv'
<1> USE NumbersAre DEF StageInv, StagesInOrder, Dead, screenvars, frames, picture
<1>1. CASE Rest
  BY <1>1 DEF Rest, rvars, thread
<1>2. CASE GetNextFrame /\ ~Dead
  <2>1. UNCHANGED <<screen, pbo, shown>>
    BY <1>2, GetNextFrameEffect
  <2>2. CASE UNCHANGED frames
    <3>1. UNCHANGED wvars \/ Die("client") \/ buffer_frame
      BY <1>2, GetNextFrameEffect
    <3>2. wpc' = "crash" \/ accepted' \in {accepted, accepted + 1}
      BY <3>1 DEF wvars, Die, buffer_frame
    <3> QED BY <1>2, <2>1, <2>2, <3>2
  <2>3. CASE ~UNCHANGED frames
    <3>1. buffer_frame
      BY <1>2, <2>3, GetNextFrameEffect
    <3>2. wpc' = "crash" \/ accepted' = accepted + 1
      BY <3>1 DEF buffer_frame, Die
    <3>3. /\ \/ lastV' = accepted + 1 /\ vFrame' \in {NoPacket, lastV'}
             \/ UNCHANGED <<lastV, vFrame>>
          /\ \/ lastA' = accepted + 1 /\ aFrame' \in {NoPacket, lastA'}
             \/ UNCHANGED <<lastA, aFrame>>
      BY <1>2, <2>3, GetNextFrameEffect
    <3> QED BY <1>2, <2>1, <3>2, <3>3
  <2> QED BY <2>2, <2>3
<1>3. CASE FormatFrame /\ ~Dead
  <2>1. UNCHANGED <<screen, pbo, vFrame, aFrame, lastV, lastA>>
    BY <1>3, FormatFrameEffect
  <2>2. shown' = shown \/ (vFrame # NoPacket /\ shown' = vFrame)
    BY <1>3, FormatFrameEffect
  <2>3. wpc' = "crash" \/ UNCHANGED accepted
    BY <1>3, FormatFrameEffect DEF wvars, Die
  <2> QED BY <1>3, <2>1, <2>2, <2>3
<1>4. CASE Upload /\ ~Dead
  <2>1. /\ UNCHANGED <<shown, vFrame, aFrame, lastV, lastA, accepted>>
        /\ \/ UNCHANGED <<screen, pbo>>
           \/ screen' = pbo /\ pbo' = shown
    BY <1>4 DEF Upload, Crash, Die, rvars, wvars
  <2> QED BY <1>4, <2>1
<1>5. CASE Main /\ ~Dead /\ ~GetNextFrame /\ ~FormatFrame /\ ~Upload
  BY <1>5, OtherMainSteps
<1> QED BY <1>1, <1>2, <1>3, <1>4, <1>5, MainOrRest

(* Pictures pass from the decoder to the screen in order: none overtakes   *)
(* another and the screen never goes back (main.cpp:103-136).              *)
THEOREM StagesStayInOrder == ViewerSpec => []StagesInOrder
<1>1. ViewerInit => StageInv
  BY DEF ViewerInit, StreamInit, WriterInit, StageInv, StagesInOrder
<1>2. ViewerInv /\ StageInv /\ [ViewerNext]_vvars => StageInv'
  BY StageInvStep
<1>3. StageInv => StagesInOrder
  BY DEF StageInv
<1> QED BY <1>1, <1>2, <1>3, ViewerAlways, PTL DEF ViewerSpec

(* A picture that format_frame has just delivered is the one of the newest *)
(* video packet (RtspStream.c:206-211, 231-245).                           *)
THEOREM PictureAlwaysNewest == ViewerSpec => []PictureIsNewest
<1> USE DEF PictureIsNewest, Dead
<1>1. ViewerInit => StageInv /\ PictureIsNewest
  BY DEF ViewerInit, StreamInit, WriterInit, StageInv, StagesInOrder
<1>2. ViewerInv /\ StageInv /\ [ViewerNext]_vvars => StageInv'
  BY StageInvStep
<1>3. ASSUME StageInv, PictureIsNewest, [ViewerNext]_vvars PROVE PictureIsNewest'
  <2>1. CASE Rest
    BY <1>3, <2>1 DEF Rest, rvars, picture, frames, thread
  <2>2. CASE GetNextFrame
    BY <2>2, GetNextFrameEffect
  <2>3. CASE FormatFrame
    <3>1. vFrame \in {NoPacket, lastV} /\ UNCHANGED lastV
      BY <1>3, <2>3, FormatFrameEffect DEF StageInv, StagesInOrder, frames
    <3> QED BY <2>3, <3>1, FormatFrameEffect DEF Die
  <2>4. CASE Upload
    BY <2>4 DEF Upload, Crash, Die, Goto
  <2>5. CASE Main /\ wpc # "crash" /\ ~GetNextFrame /\ ~FormatFrame /\ ~Upload
    BY <1>3, <2>5, OtherMainSteps
  <2> QED BY <1>3, <2>1, <2>2, <2>3, <2>4, <2>5, MainOrRest
<1> QED BY <1>1, <1>2, <1>3, ViewerAlways, PTL DEF ViewerSpec
-----------------------------------------------------------------------------
(* A viewer that dies in the stream is dead, and before free_stream has    *)
(* released it a frame is missing only while no packet, or a newer one     *)
(* than is shown, was read.                                                *)
FrameInv ==
    /\ ShownPictureStays
    /\ death # "none" => Dead
    /\ pc \notin {"writer", "done"} /\ vFrame = NoPacket => lastV = NoPacket \/ shown < lastV

(* Only format_frame dies of a missing frame, and nothing but              *)
(* init_formatter and free_stream sets the scaler.                         *)
LEMMA OtherDeaths ==
  ASSUME Main, ~FormatFrame
  PROVE  /\ \/ death' = death
            \/ death' # "format" /\ (death' = "release" => Release) /\ wpc' = "crash"
         /\ pc' \notin {"writer", "done"} => pc \notin {"writer", "done"}
<1> USE DEF rvars, Crash, Die
<1>1. CASE StartGlfw \/ OpenWindow
  BY <1>1 DEF StartGlfw, OpenWindow, Leave, Goto, At
<1>2. CASE InitStream
  BY <1>2 DEF InitStream, init_stream, Goto, At, StreamFails, StreamHasNoAudio, StreamOpens
<1>3. CASE InitBuffers
  BY <1>3 DEF InitBuffers, init_buffers_continues, init_buffers_ends, BuffersTry, At
<1>4. CASE InitFormatter
  BY <1>4 DEF InitFormatter, init_formatter, Goto, At
<1>5. CASE GetNextFrame
  BY <1>5, GetNextFrameEffect
<1>6. CASE Upload
  BY <1>6 DEF Upload, Goto, At
<1>7. CASE Close
  BY <1>7 DEF Close, free_stream_begins, Goto, At
<1>8. CASE Release
  BY <1>8 DEF Release, free_stream_releases, Goto, At
<1>9. CASE FreeWriter
  BY <1>9 DEF FreeWriter, free_stream_ends, Goto, At
<1>10. CASE Flush
  BY <1>10 DEF Flush
<1> QED BY <1>1, <1>2, <1>3, <1>4, <1>5, <1>6, <1>7, <1>8, <1>9, <1>10 DEF Main

LEMMA FrameInvStep ==
  ASSUME ViewerInv, StageInv, FrameInv, [ViewerNext]_vvars
  PROVE  FrameInv'
<1> USE NumbersAre DEF FrameInv, ShownPictureStays, Dead
<1>1. CASE Rest
  BY <1>1 DEF Rest, rvars, picture, frames, thread
<1> SUFFICES ASSUME Main, wpc # "crash" PROVE FrameInv'
  BY <1>1, MainOrRest
<1>2. death = "none"
  OBVIOUS
<1>3. shown <= lastV /\ vFrame \in {NoPacket, lastV} /\ lastV <= accepted
  BY DEF StageInv, StagesInOrder
<1>4. CASE FormatFrame
  <2>1. pc = "format" /\ UNCHANGED <<vFrame, lastV, sws>>
    BY <1>4, FormatFrameEffect DEF frames
  <2>2. CASE Die("client") /\ death' = "format" /\ UNCHANGED shown
                /\ (vFrame = NoPacket \/ sws # "ok")
    BY <2>1, <2>2 DEF Die
  <2>3. CASE vFrame # NoPacket /\ UNCHANGED <<wvars, death>>
    BY <1>2, <2>1, <2>3
  <2> QED BY <1>4, <2>2, <2>3, FormatFrameEffect
<1>5. ASSUME ~FormatFrame
      PROVE  /\ death' # "format" /\ (death' # "none" => wpc' = "crash")
             /\ pc' \notin {"writer", "done"} => pc \notin {"writer", "done"}
  BY <1>2, <1>5, OtherDeaths
<1>6. CASE GetNextFrame
  <2>1. ~FormatFrame
    BY <1>6, GetNextFrameEffect, FormatFrameEffect
  <2>2. UNCHANGED shown
    BY <1>6, GetNextFrameEffect DEF picture
  <2>3. (lastV' = accepted + 1) \/ UNCHANGED <<lastV, vFrame>>
    BY <1>6, GetNextFrameEffect DEF frames
  <2> QED BY <1>3, <1>5, <2>1, <2>2, <2>3
<1>7. CASE Upload /\ ~FormatFrame
  <2>1. UNCHANGED <<shown, vFrame, lastV>>
    BY <1>7 DEF Upload, rvars, frames, picture
  <2> QED BY <1>5, <1>7, <2>1
<1>8. CASE ~GetNextFrame /\ ~FormatFrame /\ ~Upload
  <2>1. UNCHANGED <<shown, lastV>> /\ (vFrame' = vFrame \/ pc' = "writer")
    BY <1>8, OtherMainSteps
  <2> QED BY <1>5, <1>8, <2>1
<1> QED BY <1>4, <1>6, <1>7, <1>8

(* With a scaler, only a newer video packet that did not decode takes a    *)
(* picture away that was shown before: failed reads and audio packets      *)
(* leave the frame alone (RtspStream.c:203-227, 236).                      *)
THEOREM ShownPictureAlwaysStays == ViewerSpec => []ShownPictureStays
<1>1. ViewerInit => StageInv /\ FrameInv
  BY DEF ViewerInit, StreamInit, WriterInit, StageInv, StagesInOrder, FrameInv, ShownPictureStays
<1>2. ViewerInv /\ StageInv /\ FrameInv /\ [ViewerNext]_vvars => StageInv' /\ FrameInv'
  BY StageInvStep, FrameInvStep
<1>3. FrameInv => ShownPictureStays
  BY DEF FrameInv
<1> QED BY <1>1, <1>2, <1>3, ViewerAlways, PTL DEF ViewerSpec
-----------------------------------------------------------------------------
LEMMA DecodeErrorStep ==
  ASSUME DecodeErrorMeansMissing, [ViewerNext]_vvars
  PROVE  DecodeErrorMeansMissing'
<1> USE DEF DecodeErrorMeansMissing, buffers
<1>1. CASE InitBuffers
  <2>1. ASSUME NEW i \in StreamIndices, BuffersTry(i) PROVE DecodeErrorMeansMissing'
    BY <2>1 DEF BuffersTry, DecodeErrors
  <2>2. CASE init_buffers_ends
    BY <2>2 DEF init_buffers_ends, DecodeErrors
  <2> QED BY <1>1, <2>1, <2>2 DEF InitBuffers, init_buffers_continues
<1>2. CASE Release
  BY <1>2 DEF Release, free_stream_releases
<1>3. CASE UNCHANGED buffers
  BY <1>3
<1>4. CASE \/ StartGlfw \/ OpenWindow \/ InitStream \/ InitFormatter \/ Upload
           \/ GetNextFrame \/ FormatFrame \/ Close \/ FreeWriter \/ Flush
  <2>1. UNCHANGED buffers
    BY <1>4 DEF StartGlfw, OpenWindow, Leave, InitStream, init_stream, InitFormatter,
       init_formatter, Upload, GetNextFrame, get_next_frame, FormatFrame, format_frame,
       Close, free_stream_begins, FreeWriter, free_stream_ends, Flush, rvars
  <2> QED BY <1>3, <2>1
<1> QED BY <1>1, <1>2, <1>3, <1>4, MainOrRest DEF Main, Rest, rvars

(* A decoding error of init_buffers means that a buffer is missing         *)
(* (RtspStream.c:164-188).                                                 *)
THEOREM DecodeErrorAlwaysMeansMissing == ViewerSpec => []DecodeErrorMeansMissing
<1>1. ViewerInit => DecodeErrorMeansMissing
  BY DEF ViewerInit, StreamInit, DecodeErrorMeansMissing, DecodeErrors
<1> QED BY <1>1, DecodeErrorStep, PTL DEF ViewerSpec
-----------------------------------------------------------------------------
(* Before the writer is set up nothing is shown, kept or on disk; from     *)
(* then on both decoders are there until free_stream releases them.  A     *)
(* writer without a context or a file writes nothing.                      *)
Blank == \A t \in Time : disk[t].pkts = <<>>
NoOutput == (WriterErrors \ {"HEADER_WRITE_FAILED"}) \cup {"CODEC_INIT_FAILED"}

Untouched ==
    /\ wpc \in {"uninit", "crash"} /\ (wpc = "uninit" => vFrame = NoPacket)
    /\ shown = NoPacket /\ pbo = NoPacket /\ screen = NoPacket
    /\ accepted = 0 /\ disk = [t \in Time |-> NoFile]
    /\ mux = "null" /\ pb = "null" /\ ~aliased

Decoding ==
    /\ vIdx # -1 /\ aIdx # -1
    /\ (vCtx = "open" /\ aCtx = "open") \/ pc \in {"writer", "done"}

SetupInv ==
    /\ pc \in {"start", "init"} => initRet = "none" /\ Untouched
    /\ Untouched \/ (Decoding /\ wpc # "uninit")
    /\ initRet \in NoOutput =>
          /\ wpc # "roll" /\ Blank
          /\ mux # "live" /\ pb = "null" /\ ~aliased

(* Only init_stream sets its result, and it is called once. *)
LEMMA OnlyInitStream ==
  ASSUME Main, ~InitStream
  PROVE  UNCHANGED initRet /\ (pc' \in {"start", "init"} => pc \in {"start", "init"})
<1> USE DEF rvars
<1>1. CASE StartGlfw \/ OpenWindow
  BY <1>1 DEF StartGlfw, OpenWindow, Leave, Goto, At
<1>2. CASE InitBuffers
  BY <1>2 DEF InitBuffers, init_buffers_continues, init_buffers_ends, Goto
<1>3. CASE InitFormatter
  BY <1>3 DEF InitFormatter, init_formatter, Goto
<1>4. CASE GetNextFrame
  BY <1>4, GetNextFrameEffect
<1>5. CASE FormatFrame
  BY <1>5, FormatFrameEffect
<1>6. CASE Upload
  BY <1>6 DEF Upload, Goto, At
<1>7. CASE Close \/ Release \/ FreeWriter
  BY <1>7 DEF Close, free_stream_begins, Release, free_stream_releases, FreeWriter,
     free_stream_ends, Goto
<1>8. CASE Flush
  BY <1>8 DEF Flush
<1> QED BY <1>1, <1>2, <1>3, <1>4, <1>5, <1>6, <1>7, <1>8 DEF Main

(* A viewer whose writer was never set up can only show less, or die. *)
LEMMA UninitStep ==
  ASSUME Main, ~InitStream, wpc = "uninit", vFrame = NoPacket
  PROVE  /\ UNCHANGED <<accepted, disk, mux, pb, aliased, shown>>
         /\ wpc' \in {"uninit", "crash"} /\ (wpc' = "uninit" => vFrame' = NoPacket)
         /\ screen' \in {screen, pbo} /\ pbo' \in {pbo, shown}
<1> DEFINE Still == UNCHANGED <<accepted, disk, mux, pb, aliased>> /\ wpc' \in {"uninit", "crash"}
<1>0. /\ \A c : Die(c) => Still /\ wpc' = "crash"
      /\ UNCHANGED wvars => Still
  BY DEF Die, wvars, thread, output
<1>1. CASE \/ StartGlfw \/ OpenWindow \/ InitBuffers \/ InitFormatter \/ Close
           \/ Release \/ FreeWriter \/ Flush
  <2>1. Still
    <3>1. CASE StartGlfw \/ OpenWindow \/ InitFormatter \/ Close
      BY <1>0, <3>1 DEF StartGlfw, OpenWindow, Leave, InitFormatter, init_formatter, Crash,
         Close, free_stream_begins, close_writer
    <3>2. CASE InitBuffers
      BY <1>0, <3>2 DEF InitBuffers, init_buffers_continues, init_buffers_ends, BuffersTry, Crash
    <3>3. ~(Release \/ FreeWriter \/ Flush)
      BY DEF Release, free_stream_releases, FreeWriter, free_stream_ends, free_stream_writer,
         Flush, WriterFlush, flush_write, flush_seal, rollover_output_file, RollOver
    <3> QED BY <1>1, <3>1, <3>2, <3>3
  <2>2. ~GetNextFrame /\ ~FormatFrame /\ ~Upload
    BY <1>1 DEF StartGlfw, OpenWindow, InitBuffers, InitFormatter, Close, Release, FreeWriter,
       Flush, At, GetNextFrame, FormatFrame, Upload, InMain, WriterFlush, flush_write,
       flush_seal, rollover_output_file, RollOver, close_writer, free_stream_begins,
       free_stream_releases, free_stream_ends, free_stream_writer
  <2>3. UNCHANGED <<shown, screenvars>> /\ vFrame' = NoPacket
    BY <2>2, OtherMainSteps
  <2> QED BY <2>1, <2>3 DEF screenvars
<1>2. CASE GetNextFrame
  <2>1. UNCHANGED <<shown, screenvars>>
    BY <1>2, GetNextFrameEffect DEF picture
  <2>2. \/ UNCHANGED <<wvars, vFrame>>
        \/ Die("client")
        \/ buffer_frame
    BY <1>2, GetNextFrameEffect DEF frames
  <2>3. buffer_frame => Die("uninit")
    BY DEF buffer_frame
  <2> QED BY <1>0, <2>1, <2>2, <2>3 DEF screenvars
<1>3. CASE FormatFrame
  <2>1. Die("client") /\ UNCHANGED <<shown, screenvars>>
    BY <1>3, FormatFrameEffect
  <2> QED BY <1>0, <2>1 DEF screenvars
<1>4. CASE Upload
  <2>1. /\ UNCHANGED <<shown, vFrame>> /\ screen' \in {screen, pbo} /\ pbo' \in {pbo, shown}
        /\ Die("client") \/ UNCHANGED wvars
    BY <1>4 DEF Upload, Crash, rvars, frames, picture, screenvars
  <2> QED BY <1>0, <2>1
<1> QED BY <1>1, <1>2, <1>3, <1>4 DEF Main

(* The first flush of a writer that has no file is its last act. *)
LEMMA NoOutputStep ==
  ASSUME ViewerInv, wpc \notin {"uninit", "roll"}, Blank, mux # "live", pb = "null", ~aliased,
         [WriterNext]_wvars
  PROVE  wpc' \notin {"uninit", "roll"} /\ Blank' /\ mux' # "live" /\ pb' = "null" /\ ~aliased'
<1> USE DEF output, Blank
<1>0. \A c : Die(c) => UNCHANGED <<disk, mux, pb, aliased>> /\ wpc' = "crash"
  BY DEF Die
<1>1. CASE buffer_frame \/ close_writer
  BY <1>0, <1>1 DEF buffer_frame, close_writer
<1>2. CASE flush_write
  BY <1>0, <1>2 DEF flush_write, thread
<1>3. CASE flush_seal
  <2>1. CASE Die("seal")
    BY <1>0, <2>1
  <2>2. CASE ~Die("seal")
    <3>1. wpc = "write" /\ buf = <<>>
      BY <1>3, <2>2 DEF flush_seal
    <3>2. closing
      BY <3>1, BufferAssumption DEF ViewerInv, ChunkInv
    <3>3. /\ UNCHANGED <<disk, aliased>> /\ mux' = "dead"
          /\ pb' = (IF pb = "open" THEN "freed" ELSE pb)
          /\ wpc' = IF closing THEN "closed" ELSE "roll"
      BY <1>3, <2>2 DEF flush_seal
    <3> QED BY <3>2, <3>3
  <2> QED BY <2>1, <2>2
<1>4. CASE free_stream_writer
  BY <1>0, <1>4 DEF free_stream_writer
<1>5. CASE client_ends \/ Tick \/ UNCHANGED wvars
  BY <1>0, <1>5 DEF client_ends, Tick, wvars, thread
<1>6. ~rollover_output_file /\ \A o \in WriterOutcomes : ~init_stream_writer(o)
  BY DEF rollover_output_file, RollOver, init_stream_writer
<1> QED BY <1>1, <1>2, <1>3, <1>4, <1>5, <1>6 DEF WriterNext, WriterStep, WriterFlush, WriterEnded

(* No decoder is given up but by free_stream. *)
LEMMA DecodingStays ==
  ASSUME Main, ~InitStream, Decoding
  PROVE  Decoding'
<1> USE DEF Decoding, rvars, demuxer, codecs
<1>1. CASE StartGlfw \/ OpenWindow
  BY <1>1 DEF StartGlfw, OpenWindow, Leave, Goto, At
<1>2. CASE InitBuffers
  BY <1>2 DEF InitBuffers, init_buffers_continues, init_buffers_ends, Goto, At
<1>3. CASE InitFormatter
  BY <1>3 DEF InitFormatter, init_formatter, Goto, At
<1>4. CASE GetNextFrame
  BY <1>4, GetNextFrameEffect
<1>5. CASE FormatFrame
  BY <1>5 DEF FormatFrame, format_frame, Goto, At
<1>6. CASE Upload
  BY <1>6 DEF Upload, Goto, At
<1>7. CASE Close
  BY <1>7 DEF Close, free_stream_begins, Goto, At
<1>8. CASE Release
  BY <1>8 DEF Release, free_stream_releases, Goto
<1>9. CASE FreeWriter
  BY <1>9 DEF FreeWriter, free_stream_ends, Goto
<1>10. CASE Flush
  BY <1>10 DEF Flush
<1> QED BY <1>1, <1>2, <1>3, <1>4, <1>5, <1>6, <1>7, <1>8, <1>9, <1>10 DEF Main

LEMMA StaysSetUp ==
  ASSUME [WriterNext]_wvars, wpc # "uninit"
  PROVE  wpc' # "uninit"
BY DEF WriterNext, WriterStep, WriterFlush, WriterEnded, init_stream_writer, buffer_frame,
   close_writer, flush_write, flush_seal, rollover_output_file, RollOver,
   free_stream_writer, client_ends, Die, Tick, thread, wvars

LEMMA UntouchedIsBlank == Untouched => Blank /\ wpc # "roll"
BY DEF Untouched, Blank, NoFile

LEMMA SetupInvStep ==
  ASSUME ViewerInv, SetupInv, [ViewerNext]_vvars
  PROVE  SetupInv'
<1>1. CASE Rest
  BY <1>1 DEF Rest, rvars, demuxer, codecs, picture, frames, thread, output, screenvars,
     SetupInv, Untouched, Decoding, Blank
<1> SUFFICES ASSUME Main, wpc # "crash" PROVE SetupInv'
  BY <1>1, MainOrRest
<1>2. CASE InitStream
  <2>1. /\ pc = "init" /\ pc' = "buffers" /\ init_stream
        /\ UNCHANGED <<frames, picture, screenvars>>
    BY <1>2 DEF InitStream, init_stream, At, Goto
  <2>2. Untouched /\ wpc = "uninit" /\ initRet = "none"
    BY <2>1 DEF SetupInv, Untouched
  <2>3. UNCHANGED <<vFrame, shown, pbo, screen>>
    BY <2>1 DEF frames, picture, screenvars
  <2>4. CASE StreamFails
    <3>1. UNCHANGED <<wpc, accepted, disk, mux, pb, aliased>>
      BY <2>4 DEF StreamFails, wvars, thread, output
    <3>2. Untouched'
      BY <2>2, <2>3, <3>1 DEF Untouched
    <3>3. Blank' /\ wpc' # "roll"
      BY <2>2, <3>1, UntouchedIsBlank DEF Blank
    <3> QED BY <2>1, <3>2, <3>3 DEF SetupInv, Untouched
  <2>5. CASE StreamHasNoAudio
    <3>1. Die("client") /\ UNCHANGED initRet
      BY <2>5 DEF StreamHasNoAudio, Crash
    <3>2. UNCHANGED <<accepted, disk, mux, pb, aliased>> /\ wpc' = "crash"
      BY <3>1 DEF Die, output
    <3>3. Untouched'
      BY <2>2, <2>3, <3>2 DEF Untouched
    <3>4. initRet' \notin NoOutput
      BY <2>2, <3>1 DEF NoOutput, WriterErrors
    <3> QED BY <2>1, <3>3, <3>4 DEF SetupInv
  <2>6. CASE StreamOpens
    <3> PICK o \in WriterOutcomes : init_stream_writer(o) /\ initRet' = WriterResult(o)
      BY <2>6 DEF StreamOpens
    <3>1. vIdx' # -1 /\ aIdx' # -1 /\ vCtx' = "open" /\ aCtx' = "open"
      BY <2>6 DEF StreamOpens
    <3>2. wpc' = "idle" /\ ~aliased'
      BY <2>2 DEF init_stream_writer, Untouched
    <3>3. Decoding'
      BY <3>1 DEF Decoding
    <3>4. Blank
      BY <2>2, UntouchedIsBlank
    <3>5. CASE o \in {"format", "streams", "codec"}
      <4>1. mux' # "live" /\ UNCHANGED <<pb, disk>>
        BY <3>5 DEF init_stream_writer
      <4> QED BY <2>1, <2>2, <3>2, <3>3, <3>4, <4>1 DEF SetupInv, Blank, Untouched
    <3>6. CASE o = "open"
      <4>1. OpenNext("open")
        BY <3>6 DEF init_stream_writer
      <4>2. UNCHANGED disk /\ pb' = "null" /\ mux' = "dead"
        BY <4>1 DEF OpenNext
      <4> QED BY <2>1, <3>2, <3>3, <3>4, <4>2 DEF SetupInv, Blank
    <3>7. CASE o \in {"ok", "header"}
      <4>1. initRet' \notin NoOutput
        BY <3>7 DEF WriterResult, NoOutput, WriterErrors
      <4> QED BY <2>1, <3>2, <3>3, <4>1 DEF SetupInv
    <3> QED BY <3>5, <3>6, <3>7 DEF WriterOutcomes
  <2> QED BY <2>1, <2>4, <2>5, <2>6 DEF init_stream
<1>3. CASE ~InitStream
  <2>1. UNCHANGED initRet /\ (pc' \in {"start", "init"} => pc \in {"start", "init"})
    BY <1>3, OnlyInitStream
  <2>2. CASE Untouched
    <3>1. wpc = "uninit" /\ vFrame = NoPacket
      BY <2>2 DEF Untouched
    <3>2. /\ UNCHANGED <<accepted, disk, mux, pb, aliased, shown>>
          /\ wpc' \in {"uninit", "crash"} /\ (wpc' = "uninit" => vFrame' = NoPacket)
          /\ screen' \in {screen, pbo} /\ pbo' \in {pbo, shown}
      BY <1>3, <3>1, UninitStep
    <3>3. Untouched'
      BY <2>2, <3>2 DEF Untouched
    <3>4. Blank' /\ wpc' # "roll"
      BY <2>2, <3>2, UntouchedIsBlank DEF Blank
    <3> QED BY <2>1, <3>3, <3>4 DEF SetupInv, Untouched
  <2>3. CASE ~Untouched
    <3>1. Decoding /\ wpc # "uninit" /\ pc \notin {"start", "init"}
      BY <2>3 DEF SetupInv
    <3>2. [WriterNext]_wvars
      BY ViewerStepDrives
    <3>3. Decoding' /\ wpc' # "uninit" /\ pc' \notin {"start", "init"}
      BY <1>3, <2>1, <3>1, <3>2, DecodingStays, StaysSetUp
    <3>4. ASSUME initRet' \in NoOutput
          PROVE  wpc' # "roll" /\ Blank' /\ mux' # "live" /\ pb' = "null" /\ ~aliased'
      <4>1. wpc # "roll" /\ Blank /\ mux # "live" /\ pb = "null" /\ ~aliased
        BY <2>1, <3>4 DEF SetupInv
      <4> QED BY <3>1, <3>2, <4>1, NoOutputStep
    <3> QED BY <3>3, <3>4 DEF SetupInv
  <2> QED BY <2>2, <2>3
<1> QED BY <1>2, <1>3

LEMMA SetupInvInit == ViewerInit => SetupInv
BY DEF ViewerInit, StreamInit, WriterInit, SetupInv, Untouched, NoOutput, WriterErrors

LEMMA BlankDisk == Blank => OnDisk = {}
BY DEF Blank, OnDisk, Contents

(* Pictures, packets kept and files need both decoders, whatever became of *)
(* the errors main ignores (RtspStream.c:117-154, main.cpp:50-52,          *)
(* 103-104).                                                               *)
THEOREM ShowsOnlyWithBothDecoders == ViewerSpec => []NeedsBothDecoders
<1>1. ViewerInv /\ SetupInv /\ [ViewerNext]_vvars => SetupInv'
  BY SetupInvStep
<1>2. SetupInv => NeedsBothDecoders
  <2>1. Untouched => /\ screen = NoPacket /\ ~(accepted > 0)
                     /\ \A t \in Time : disk[t].state = "absent"
    BY DEF Untouched, NoFile
  <2> QED BY <2>1 DEF SetupInv, Decoding, NeedsBothDecoders
<1> QED BY <1>1, <1>2, SetupInvInit, ViewerAlways, PTL DEF ViewerSpec

(* A writer that got no context, no parameters or no file never records    *)
(* anything, however long the viewer goes on (main.cpp:50, AVIO.c:66-112,  *)
(* 140-175).                                                               *)
THEOREM FailedWriterNeverRecords == ViewerSpec => []FailedWriterRecordsNothing
<1>1. ViewerInv /\ SetupInv /\ [ViewerNext]_vvars => SetupInv'
  BY SetupInvStep
<1>2. SetupInv => FailedWriterRecordsNothing
  BY BlankDisk DEF SetupInv, FailedWriterRecordsNothing, NoOutput
<1> QED BY <1>1, <1>2, SetupInvInit, ViewerAlways, PTL DEF ViewerSpec
-----------------------------------------------------------------------------
(* What the flush of free_stream leaves: nothing in memory and, if no call *)
(* failed, no file unfinished.  Until then only the file being recorded is *)
(* unfinished.                                                             *)
Finished(t) == disk[t].state \in {"absent", "complete"}
Saved ==
    /\ buf = <<>> /\ at = 0 /\ pend = NoPacket
    /\ ~faulted => \A t \in Time : Finished(t)

KeepInv ==
    /\ closing => pend = NoPacket
    /\ wpc \in {"closed", "gone"} \/ why = "teardown" => Saved
    /\ ~faulted => \A t \in Time : Finished(t) \/ (t = outFile /\ wpc \notin {"uninit", "roll"})

(* A death other than in free_stream_writer, and the one in it. *)
LEMMA KeepDeath ==
  ASSUME KeepInv, ChunkInv, NEW c \in Deaths, Die(c),
         wpc \notin {"gone", "crash"}, c = "teardown" => wpc = "closed"
  PROVE  KeepInv'
<1>1. /\ wpc' = "crash" /\ why' = c
      /\ UNCHANGED <<buf, at, pend, outFile, closing, disk, faulted>>
  BY DEF Die, buffer, output, ghosts
<1> QED BY <1>1 DEF KeepInv, Saved, Finished

(* A new file is the only unfinished one. *)
LEMMA KeepOpen ==
  ASSUME TypeInv, KeepInv, ChunkInv, wpc \in {"uninit", "roll"}, wpc' = "idle", why' = why,
         NEW o \in {"ok", "open", "header"}, OpenNext(o)
  PROVE  /\ why' # "teardown"
         /\ ~faulted' => \A t \in Time : Finished(t)' \/ t = outFile'
<1>1. why' # "teardown"
  BY DEF ChunkInv
<1>2. ASSUME ~faulted', NEW t \in Time, t # outFile' PROVE Finished(t)'
  <2>1. o = "ok" /\ ~faulted
    BY <1>2 DEF OpenNext
  <2>2. disk' = [disk EXCEPT ![outFile'] = [state |-> "open", pkts |-> <<>>]]
    BY <2>1 DEF OpenNext, OpenFile
  <2>3. disk'[t] = disk[t]
    BY <1>2, <2>2 DEF TypeInv, WriterTypeOK
  <2> QED BY <2>1, <2>3 DEF KeepInv, Finished
<1> QED BY <1>1, <1>2

LEMMA KeepSeal ==
  ASSUME TypeInv, KeepInv, ChunkInv, flush_seal, ~Die("seal")
  PROVE  KeepInv'
<1>1. /\ wpc = "write" /\ wpc' = (IF closing THEN "closed" ELSE "roll")
      /\ buf' = <<>> /\ at' = 0 /\ UNCHANGED <<why, pend, outFile, closing>>
  BY DEF flush_seal
<1>2. why = "none"
  BY <1>1 DEF ChunkInv
<1>3. ASSUME ~faulted', NEW t \in Time PROVE Finished(t)'
  <2>1. ~faulted /\ (mux = "live" => disk' = [disk EXCEPT ![outFile].state = "complete"])
    BY <1>3 DEF flush_seal
  <2>2. mux = "live" /\ disk \in [Time -> File] /\ outFile \in Time
    BY <1>1, <2>1 DEF ChunkInv, TypeInv, WriterTypeOK
  <2>3. disk' = [disk EXCEPT ![outFile] = [disk[outFile] EXCEPT !.state = "complete"]]
    BY <2>1, <2>2
  <2>4. disk[outFile] \in File
    BY <2>2
  <2>5. CASE t = outFile
    BY <2>2, <2>3, <2>4, <2>5 DEF File, Finished
  <2>6. CASE t # outFile
    BY <2>1, <2>2, <2>3, <2>6 DEF KeepInv, Finished
  <2> QED BY <2>5, <2>6
<1>4. closing' => pend' = NoPacket
  BY <1>1 DEF KeepInv
<1>5. wpc' \in {"closed", "gone"} => Saved'
  BY <1>1, <1>3, <1>4 DEF Saved
<1>6. ~faulted' => \A t \in Time : Finished(t)'
  BY <1>3
<1> QED BY <1>1, <1>2, <1>4, <1>5, <1>6 DEF KeepInv

LEMMA KeepInvStep ==
  ASSUME TypeInv, OrderInv, KeepInv, ChunkInv, [WriterNext]_wvars
  PROVE  KeepInv'
<1> USE DEF thread, buffer, output, ghosts
<1>0. wpc = "crash" <=> why # "none"
  BY DEF ChunkInv
<1>1. ASSUME NEW o \in WriterOutcomes, init_stream_writer(o) PROVE KeepInv'
  <2>1. wpc = "uninit" /\ wpc' = "idle" /\ why' = why /\ UNCHANGED <<pend, closing>>
    BY <1>1 DEF init_stream_writer
  <2>2. (closing => pend = NoPacket) /\ why' # "teardown"
    BY <1>0, <2>1 DEF KeepInv
  <2>3. CASE o \in {"format", "streams", "codec"}
    BY <1>1, <2>1, <2>2, <2>3 DEF init_stream_writer, KeepInv
  <2>4. CASE o \in {"ok", "open", "header"}
    <3>1. OpenNext(o)
      BY <1>1, <2>4 DEF init_stream_writer
    <3> QED BY <2>1, <2>2, <2>4, <3>1, KeepOpen DEF KeepInv
  <2> QED BY <2>3, <2>4 DEF WriterOutcomes
<1>2. CASE buffer_frame
  <2>1. CASE Die("uninit")
    BY <1>2, <2>1, KeepDeath DEF buffer_frame, Deaths
  <2>2. CASE wpc = "idle"
    BY <1>0, <1>2, <2>2 DEF buffer_frame, KeepInv, Finished
  <2> QED BY <1>2, <2>1, <2>2 DEF buffer_frame
<1>3. CASE close_writer
  <2>1. CASE wpc = "uninit" /\ Die("uninit")
    BY <2>1, KeepDeath DEF Deaths
  <2>2. CASE wpc = "idle"
    BY <1>0, <1>3, <2>2 DEF close_writer, KeepInv, Finished, OrderInv
  <2> QED BY <1>3, <2>1, <2>2 DEF close_writer
<1>4. CASE flush_write
  <2>1. CASE Die("write")
    BY <1>4, <2>1, KeepDeath DEF flush_write, Deaths
  <2>2. CASE ~Die("write")
    <3>1. /\ wpc = "write" /\ UNCHANGED <<wpc, why, pend, outFile, closing>>
          /\ \/ disk' = [disk EXCEPT ![outFile].pkts = Append(@, buf[at + 1])]
                /\ UNCHANGED faulted
             \/ faulted' = TRUE
      BY <1>4, <2>2 DEF flush_write
    <3>2. ASSUME ~faulted', NEW t \in Time PROVE Finished(t)' \/ t = outFile
      <4>1. ~faulted /\ disk' = [disk EXCEPT ![outFile].pkts = Append(@, buf[at + 1])]
        BY <3>1, <3>2
      <4>2. t # outFile => disk'[t] = disk[t]
        BY <4>1 DEF TypeInv, WriterTypeOK
      <4> QED BY <4>1, <4>2 DEF KeepInv, Finished
    <3> QED BY <1>0, <3>1, <3>2 DEF KeepInv
  <2> QED BY <2>1, <2>2
<1>5. CASE flush_seal
  <2>1. CASE Die("seal")
    BY <1>5, <2>1, KeepDeath DEF flush_seal, Deaths
  <2> QED BY <1>5, <2>1, KeepSeal
<1>6. CASE rollover_output_file
  <2> PICK o \in {"ok", "open", "header"} : RollOver(o)
    BY <1>6 DEF rollover_output_file
  <2>1. wpc = "roll" /\ wpc' = "idle" /\ OpenNext(o) /\ pend' = NoPacket /\ UNCHANGED why
    BY <1>6 DEF rollover_output_file, RollOver
  <2> QED BY <2>1, KeepOpen DEF KeepInv
<1>7. CASE free_stream_writer
  <2>1. CASE Die("teardown")
    BY <1>7, <2>1, KeepDeath DEF free_stream_writer, Deaths
  <2>2. CASE ~Die("teardown")
    BY <1>7, <2>2 DEF free_stream_writer, KeepInv, Saved, Finished
  <2> QED BY <2>1, <2>2
<1>8. CASE client_ends
  BY <1>8, KeepDeath DEF client_ends, Deaths
<1>9. CASE Tick \/ UNCHANGED wvars
  BY <1>9 DEF Tick, wvars, KeepInv, Saved, Finished
<1> QED BY <1>1, <1>2, <1>3, <1>4, <1>5, <1>6, <1>7, <1>8, <1>9
        DEF WriterNext, WriterStep, WriterFlush, WriterEnded

(* free_stream dies between its flush and free_stream_writer, or ends. *)
EndInv ==
    /\ death # "none" => Dead
    /\ death = "release" => Saved
    /\ pc = "done" => wpc = "gone" \/ why = "teardown"

LEMMA EndInvStep ==
  ASSUME ChunkInv, KeepInv, EndInv, [ViewerNext]_vvars
  PROVE  EndInv'
<1> USE DEF rvars, Crash
<1>1. CASE Rest
  BY <1>1 DEF Rest, thread, buffer, ghosts, EndInv, Saved, Finished, Dead
<1> SUFFICES ASSUME Main, wpc \notin {"gone", "crash"} PROVE EndInv'
  BY <1>1, MainOrRest
<1>0. wpc # "gone" /\ why = "none"
  BY DEF ChunkInv
<1>2. death = "none"
  BY DEF EndInv, Dead
<1>3. CASE Release
  <2>1. wpc = "closed" /\ pc' = "writer"
    BY <1>3 DEF Release, free_stream_releases, Goto
  <2>2. Saved
    BY <2>1 DEF KeepInv
  <2>3. CASE Die("client") /\ death' = "release"
    BY <2>1, <2>2, <2>3 DEF EndInv, Saved, Finished, Dead, Die, buffer, ghosts
  <2>4. CASE UNCHANGED death
    BY <1>2, <2>1, <2>4 DEF EndInv
  <2> QED BY <1>3, <2>3, <2>4 DEF Release, free_stream_releases
<1>4. CASE FreeWriter
  BY <1>2, <1>4 DEF FreeWriter, free_stream_ends, free_stream_writer, Die, EndInv
<1>5. CASE ~Release /\ ~FreeWriter
  <2>1. death' = death \/ (death' # "release" /\ wpc' = "crash")
    BY <1>5, OtherDeaths, FormatFrameEffect DEF Die
  <2>2. pc' # "done"
    <3>1. CASE Flush \/ Upload \/ InitBuffers
      <4>1. pc # "done"
        BY <1>0 DEF EndInv
      <4> QED BY <3>1, <4>1 DEF Flush, Upload, InitBuffers, Goto
    <3>2. CASE \/ StartGlfw \/ InitStream \/ InitFormatter \/ OpenWindow
               \/ GetNextFrame \/ FormatFrame \/ Close
      BY <3>2 DEF StartGlfw, InitStream, InitFormatter, OpenWindow, GetNextFrame,
         FormatFrame, Close, Leave, Goto
    <3> QED BY <1>5, <3>1, <3>2 DEF Main
  <2> QED BY <1>2, <2>1, <2>2 DEF EndInv, Dead
<1> QED BY <1>3, <1>4, <1>5

(* Nothing waits behind a saved recording. *)
LEMMA SavedIsEmpty ==
  ASSUME TypeInv, OrderInv, Saved
  PROVE  Waiting = <<>>
<1>1. Waiting \in Seq(Packet) /\ Len(Waiting) = accepted - Departed
  BY WaitingInOrder
<1>2. accepted \in Nat /\ Len(buf) = 0 /\ at = 0 /\ Behind = 0
  BY BoundAssumption DEF TypeInv, WriterTypeOK, Saved, Behind
<1>3. accepted - Departed = 0
  BY <1>2 DEF Departed
<1> HIDE DEF Waiting
<1> QED BY <1>1, <1>3, EmptySeq

(* Closing the window loses no packet in memory: when free_stream is over, *)
(* or dies of what it releases a second time, the buffer was written and,  *)
(* if no call failed, each file finished (RtspStream.c:47-48, 59-69, 87).  *)
THEOREM CloseAlwaysKeeps == ViewerSpec => []CloseKeepsRecording
<1>1. ViewerInit => KeepInv /\ EndInv
  BY DEF ViewerInit, StreamInit, WriterInit, KeepInv, EndInv, Saved, Finished, NoFile
<1>2. ViewerInv /\ KeepInv /\ EndInv /\ [ViewerNext]_vvars => KeepInv' /\ EndInv'
  BY KeepInvStep, EndInvStep, ViewerStepDrives DEF ViewerInv, StoreInv
<1>3. ASSUME ViewerInv, KeepInv, EndInv PROVE CloseKeepsRecording
  <2>1. TypeInv /\ OrderInv
    BY <1>3 DEF ViewerInv, StoreInv
  <2>2. death = "release" \/ why = "teardown" \/ pc = "done" => Saved
    BY <1>3 DEF EndInv, KeepInv
  <2> QED BY <2>1, <2>2, SavedIsEmpty DEF CloseKeepsRecording, Saved, Finished
<1> QED BY <1>1, <1>2, <1>3, ViewerAlways, PTL DEF ViewerSpec
=============================================================================
