---------------------------- MODULE StreamWriter ----------------------------
(***************************************************************************)
(* The stream writer (StreamWriter.c) with rollover_split and              *)
(* free_transcoder (Transcode.c), under a client that calls them in the    *)
(* order of av_cli: header, packets, trailer, release.                     *)
(*                                                                         *)
(* Header, packets and trailer go to the format context of the *decoder*,  *)
(* files are opened for that of the encoder.  What the client has made of  *)
(* the former is a parameter: the input, as av_cli has it, which has no    *)
(* output format; another output; or the encoder's context itself, with    *)
(* which alone the files get what is written.  The client drops what       *)
(* write_header and write_packet return.                                   *)
(***************************************************************************)
EXTENDS OutputName, Sequences

CONSTANTS
    FileNames, Extensions, \* lengths of m_pFN and m_pOutExt
    Rates,                 \* frame rates of the source, <<num, den>>
    RolloverTimes,         \* _nRolloverTime
    Times,                 \* seconds the clock may show
    MaxPackets             \* bound on the packets of the client

ASSUME LengthAssumption == FileNames \subseteq Nat /\ Extensions \subseteq Nat
ASSUME RateAssumption == Rates \subseteq Nat \X Nat /\ RolloverTimes \subseteq Nat
ASSUME TimeAssumption == Times \subseteq Nat /\ 0 \in Times
ASSUME PacketsAssumption == MaxPackets \in Nat

VARIABLES
    fn, ext,       \* the lengths of m_pFN and m_pOutExt
    dctx,          \* m_pDecoderCtx->m_pFormatCtx
    desired, curr, \* m_nDesiredNumFrames, m_nCurrNumFrames
    mux,           \* the muxer of dctx: no header yet ("new"), not set up
                   \* ("unset"), shut down ("shut") or set up ("ready")
    pb,            \* the encoder's pb: "null", "open" or "dangling"
    fqn,           \* strlen(m_pFQN)
    phase,         \* what the client does next
    ret,           \* what the last function returned
    now,           \* the clock
    sent,          \* packets given to write_packet
    muxed,         \* history: packets the muxer took
    rolls,         \* history: calls of rollover_split
    files,         \* history: the files opened, in order, and what they hold
    blocks, named, \* history: blocks taken for names, names made
    misclosed      \* history: an avio_close has failed

config == <<fn, ext, dctx>>
names  == <<fqn, blocks, named>>
counts == <<sent, muxed, rolls>>
wvars  == <<config, desired, curr, mux, pb, files, misclosed, names,
            phase, ret, now, counts>>

Contexts == {"input", "output", "encoder"}
Phases   == {"new", "header", "packets", "write", "release", "end", "dead"}
File     == [at : Times, shown : Nat, headed : BOOLEAN, sealed : BOOLEAN, pkts : Nat]

StreamWriterTypeOK ==
    /\ fn \in FileNames /\ ext \in Extensions /\ dctx \in Contexts
    /\ desired \in Nat /\ curr \in Nat
    /\ mux \in {"new", "unset", "shut", "ready"}
    /\ pb \in {"null", "open", "dangling"} /\ fqn \in 0..255
    /\ phase \in Phases /\ ret \in {"OK", "ERROR"} /\ now \in Times
    /\ sent \in 0..MaxPackets /\ muxed \in 0..sent /\ rolls \in 0..sent
    /\ files \in Seq(File) /\ (pb = "open" => files # <<>>)
    /\ blocks \in Nat /\ named \in Nat /\ misclosed \in BOOLEAN

NewFile == [at |-> now, shown |-> Shown(fn, ext, now),
            headed |-> FALSE, sealed |-> FALSE, pkts |-> 0]

(* A transcoder as init_transcoder leaves it, its first file open or not.  *)
StreamWriterInit ==
    /\ fn \in FileNames /\ ext \in Extensions /\ dctx \in Contexts
    /\ desired = 0 /\ curr = 0 /\ phase = "new" /\ ret = "OK" /\ now = 0
    /\ sent = 0 /\ muxed = 0 /\ rolls = 0
    /\ fqn = Kept(fn, ext) /\ named = 1 /\ blocks = 2 /\ misclosed = FALSE
    /\ mux = "new"
    /\ \/ pb = "open" /\ files = <<NewFile>>
       \/ pb = "null" /\ files = <<>>

(* The frames between two rollovers.  A denominator of 0 makes the         *)
(* quotient no number that fits, and the conversion yields 0 or a number   *)
(* no count of frames reaches.                                             *)
Frames(seconds, rate) ==
    LET num == rate[1] den == rate[2]
    IN IF den = 0 THEN {0, MaxPackets + 1}
       ELSE {seconds * ((num + den - 1) \div den)}

init_writer ==
    /\ phase = "new" /\ phase' = "header"
    /\ \E seconds \in RolloverTimes, rate \in Rates : desired' \in Frames(seconds, rate)
    /\ curr' = 0 /\ ret' = "OK"
    /\ UNCHANGED <<config, mux, pb, files, misclosed, names, now, counts>>

-----------------------------------------------------------------------------
(* The muxer is to write to a file that is not there. *)
NoFile == dctx = "encoder" /\ pb # "open"

(* What went well reached the muxer, and through it the open file. *)
Takes   == phase' # "dead" /\ ret' = "OK" /\ mux # "unset"
Reaches == Takes /\ dctx = "encoder" /\ pb = "open"

(* avformat_write_header.  It may fail before the muxer is set up, after   *)
(* that it shuts the muxer down; an input's context, if it lasts until a   *)
(* check fails, is never set up.                                           *)
write_header ==
    /\ phase = "header"
    /\ \/ /\ dctx = "input" \/ NoFile
          /\ phase' = "dead" /\ UNCHANGED <<ret, mux>>
       \/ /\ phase' = "packets"
          /\ \/ mux' = "unset" /\ ret' = "ERROR"
             \/ dctx # "input" /\ mux' = "shut" /\ ret' = "ERROR"
             \/ dctx # "input" /\ mux' = "ready" /\ ret' = "OK"
    /\ files' = IF Reaches THEN [files EXCEPT ![Len(files)].headed = TRUE] ELSE files
    /\ UNCHANGED <<config, desired, curr, pb, misclosed, names, now, counts>>

(* A packet or a trailer for the muxer: one that is not set up is called   *)
(* through a pointer that is not there, one that was shut down, or that    *)
(* has no file, may be the end of the process too.                         *)
Muxes(next) ==
    \/ /\ mux # "ready" \/ NoFile
       /\ phase' = "dead" /\ UNCHANGED ret
    \/ /\ mux # "unset"
       /\ phase' = next /\ ret' \in {"OK", "ERROR"}

(* Mutant: the trailer of a muxer that was not set up is refused. *)
write_trailer_checked ==
    /\ phase = "packets"
    /\ Muxes("release") \/ (mux = "unset" /\ phase' = "release" /\ ret' = "ERROR")
    /\ files' = IF Reaches THEN [files EXCEPT ![Len(files)].sealed = TRUE] ELSE files
    /\ UNCHANGED <<config, desired, curr, mux, pb, misclosed, names, now, counts>>

write_trailer ==
    /\ phase = "packets" /\ Muxes("release")
    /\ files' = IF Reaches THEN [files EXCEPT ![Len(files)].sealed = TRUE] ELSE files
    /\ UNCHANGED <<config, desired, curr, mux, pb, misclosed, names, now, counts>>

-----------------------------------------------------------------------------
(* init_output_filename: the path of the last name is left behind, and its *)
(* name too unless the buffer can be used again.                           *)
init_output_filename ==
    /\ fqn' = Kept(fn, ext)
    /\ named' = named + 1
    /\ blocks' = blocks + 1 + (IF Allocates(fqn, fn, ext) THEN 1 ELSE 0)

(* Mutant: a failed open leaves pb as the close has left it. *)
avio_open_keeps ==
    \/ pb' = "open" /\ files' = Append(files, NewFile)
    \/ pb' = "dangling" /\ UNCHANGED files

(* avio_open forgets pb before it tries. *)
avio_open ==
    \/ pb' = "open" /\ files' = Append(files, NewFile)
    \/ pb' = "null" /\ UNCHANGED files

(* avio_close fails: pb keeps the address of what it has released. *)
avio_close_fails ==
    /\ pb # "null"
    /\ pb' = "dangling" /\ misclosed' = TRUE
    /\ UNCHANGED <<names, files>>

(* Mutant: the next file gets a header. *)
rollover_split_headed ==
    /\ init_output_filename
    /\ pb' = "open" /\ files' = Append(files, [NewFile EXCEPT !.headed = TRUE])
    /\ UNCHANGED misclosed

(* rollover_split, when it returns. *)
rollover_split ==
    \/ avio_close_fails
    \/ init_output_filename /\ avio_open /\ UNCHANGED misclosed

RollsOver == curr >= desired

(* Mutant: the frames are counted. *)
write_packet_begins_counting ==
    /\ phase = "packets" /\ sent < MaxPackets /\ sent' = sent + 1
    /\ phase' = "write"
    /\ IF RollsOver THEN rolls' = rolls + 1 /\ curr' = 1 /\ rollover_split
       ELSE curr' = curr + 1 /\ UNCHANGED <<rolls, pb, files, misclosed, names>>
    /\ UNCHANGED <<config, desired, mux, ret, now, muxed>>

(* write_packet as far as the rollover, whose result is dropped.  To       *)
(* release again what pb pointed to may be the end.                        *)
write_packet_begins ==
    /\ phase = "packets" /\ sent < MaxPackets /\ sent' = sent + 1
    /\ rolls' = IF RollsOver THEN rolls + 1 ELSE rolls
    /\ \/ RollsOver /\ phase' = "write" /\ rollover_split
       \/ /\ \/ ~RollsOver /\ phase' = "write"
             \/ RollsOver /\ pb = "dangling" /\ phase' = "dead"
          /\ UNCHANGED <<pb, files, misclosed, names>>
    /\ UNCHANGED <<config, desired, curr, mux, ret, now, muxed>>

(* A packet for a muxer that is not set up may be refused before that is   *)
(* asked, or be kept by a filter of its stream.                            *)
StaysOutside ==
    /\ mux = "unset" /\ phase' = "packets"
    /\ ret' = "ERROR" \/ (dctx # "input" /\ ret' = "OK")

(* The rest of write_packet. *)
write_packet_ends ==
    /\ phase = "write" /\ (Muxes("packets") \/ StaysOutside)
    /\ muxed' = IF Takes THEN muxed + 1 ELSE muxed
    /\ files' = IF Reaches THEN [files EXCEPT ![Len(files)].pkts = @ + 1] ELSE files
    /\ UNCHANGED <<config, desired, curr, mux, pb, misclosed, names, now, sent, rolls>>

(* free_writer and free_transcoder: neither closes pb nor releases a name. *)
free_transcoder ==
    /\ phase = "release" /\ phase' = "end"
    /\ UNCHANGED <<config, desired, curr, mux, pb, files, misclosed, names, ret, now, counts>>

Tick ==
    /\ phase \notin {"end", "dead"}
    /\ now' \in {t \in Times : t > now}
    /\ UNCHANGED <<config, desired, curr, mux, pb, files, misclosed, names, phase,
                   ret, counts>>

Stopped == phase \in {"end", "dead"} /\ UNCHANGED wvars

Client ==
    \/ init_writer \/ write_header \/ write_packet_begins \/ write_packet_ends
    \/ write_trailer \/ free_transcoder

StreamWriterNext == Client \/ Tick \/ Stopped

StreamWriterSpec == StreamWriterInit /\ [][StreamWriterNext]_wvars

(* The client goes on until its input ends, and then writes the trailer.   *)
StreamWriterFairSpec == StreamWriterSpec /\ WF_wvars(Client)
-----------------------------------------------------------------------------
(* The rollover is taken for every packet or for none, whatever number of  *)
(* frames was asked for: a source whose frame rate is 0 or unknown, or a   *)
(* rollover time of 0, makes a file of every packet (StreamWriter.c:28,    *)
(* 48).                                                                    *)
RolloverAlwaysOrNever == rolls \in {0, sent}

(* A file with header and trailer was never rolled over, and holds         *)
(* whatever the muxer has taken: as soon as there is a rollover no file is *)
(* whole (Transcode.c:371-386; StreamWriter.c:33-53).                      *)
WholeFileHoldsAll ==
    \A i \in DOMAIN files :
        files[i].headed /\ files[i].sealed => rolls = 0 /\ files[i].pkts = muxed

(* What kills a process that muxes to a context for output is a header     *)
(* that failed, or a file that failed to close and that the next rollover  *)
(* closes again; one that failed to open is harmless unless the muxer is   *)
(* to write there (Transcode.c:373-383; StreamWriter.c:33-51; mux.c:182-   *)
(* 325, 1099, 1268; av_cli/src/main.c:370).                                *)
DeathNeedsFailure ==
    phase = "dead" =>
        \/ mux \in {"unset", "shut"}
        \/ dctx = "input"
        \/ dctx = "output" /\ misclosed
        \/ dctx = "encoder" /\ pb # "open"

(* A header that fails before the muxer is set up is fatal, at the latest  *)
(* in the trailer: its result is dropped, and the process never gets past  *)
(* what it writes next.  So is any header for the input, which is where    *)
(* av_cli sends it (StreamWriter.c:35-51; av_cli/src/main.c:370, 384, 389, *)
(* 397; mux.c:204-257, 310).                                               *)
FailedHeaderIsFatal ==
    (mux = "unset" \/ (dctx = "input" /\ phase = "header")) ~> (phase = "dead")

(* Every name costs two blocks that are never released, the test for reuse *)
(* in get_next_filename notwithstanding; only where the size of the name   *)
(* is 0 modulo 256 the old buffer is used (AVUtil.h:33, Transcode.c:15).   *)
EveryNameLeaks == MaxSize(fn, ext) # 0 => blocks = 2 * named

(* With an extension of three characters or more, and a name that does not *)
(* wrap, files opened in different seconds are different files: a rollover *)
(* truncates nothing older than a second (AVUtil.h:32-38).                 *)
LaterFilesAreNew ==
    ext >= 3 /\ fn + ext + 18 < 256 =>
        \A i, j \in DOMAIN files :
            files[i].at # files[j].at => files[i].shown # files[j].shown
=============================================================================
