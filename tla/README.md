# A verification project for the security camera viewer and transcoder

Models, model-checking runs and machine-checked proofs for the C and C++ code under
`backend/`: a viewer that shows and records an RTSP camera, and a command line transcoder.

- **Modelled**: the recorder, the camera stream, the viewer's main loop; the set-up of the
  transcoder, the transcoding of a stream, its stream writer and the names of its files; and the
  send/receive API of the libavcodec shipped with the project, on which both programs depend.
- **Checked**: twelve runs of TLC, nine of properties that hold and three that each refute a
  statement made in a comment or a header.
- **Proved**: 35 of the 39 properties the passing runs check, refinements among them, for every
  value of the constants; the other four are liveness.

## 1. The system

| part | files | state it keeps | operations |
| --- | --- | --- | --- |
| camera stream | `av/src/RtspStream.c` | demuxer, two decoders, current frames, picture buffer, scaler | `init_stream`, `init_buffers`, `init_formatter`, `get_next_frame`, `format_frame`, `free_stream` |
| recorder | `av/src/AVIO.c` | packet buffer, output context, file name, closing flag | `init_stream_writer`, `buffer_frame`, `flush_buffer`, `rollover_output_file`, `free_stream_writer` |
| desktop viewer | `desktop/src/main.cpp` | window, pixel buffer object, texture | `main` |
| transcoding | `av/src/Transcode.c` | decoder and encoder contexts, output names | `init_transcoder`, `transcode_video`, `transcode_audio`, `rollover_split` |
| stream writer | `av/src/StreamWriter.c` | frame counters of the rollover | `init_writer`, `write_header`, `write_packet`, `write_trailer` |
| output names | `av/include/AVUtil.h` | the name buffer | `get_next_filename` |
| command line transcoder | `av_cli/src/main.c` | the packet loop | `main` |
| libavcodec, libavformat | `av/third-party/ffmpeg` | what a codec or a muxer holds between two calls | send/receive, open, write |

How they interact. `main.cpp` calls the camera stream, which hands *every* packet it reads to
its recorder; the recorder writes 500 packets at a time to a file named after the wall clock
and opens the next one. `av_cli` reads packets itself, passes each through `Transcode.c` with
one output packet and writes that with `StreamWriter.c`. Everything is called directly on one
thread; results are mostly ignored. What interleaves with that thread is the environment: the
camera, the wall clock (file names), the file system, the user closing the window, and the
codecs, which keep packets and pictures between two calls.

What is hard here is therefore not locks but long sequences of legal calls: a call whose
effect depends on what an earlier one left in a library; an ignored failure that bites one
buffer later; a name that repeats. `PROJECT.json` lists these under `hazards`, each at its
line with the properties that watch it.

### State of the program at this commit

Three facts a reader should know before reading the models:

- `AVIO.c` is commented out from the first to the last line. It is the only implementation of
  `AVIO.h`, which `RtspStream.c` includes and calls, so the viewer does not link at this commit.
  The recorder is modelled as that text has it, line by line.
- `av_cli` as it is, with its names of `"output"` and `"mp4"`, never sets up its
  encoders (`TranscoderSetup`, `EncodersNeedFormat`). `alloc_transcoder` leaves the structures uninitialised
  and `get_stream_refs` reads `m_pDecoderCtx->m_pFormatCtx` (`Transcode.c:116`), which nothing
  assigns. The size of a name is five too small (`AVUtil.h:32`; one of the five is the newline), so
  that a name loses an extension of up to four characters and `avformat_alloc_output_context2`
  finds no format for it (`Transcode.c:154`): the first encoder is made for a missing context. A client with a longer extension, whose
  fresh memory happens to hold the input's address (`NeedsBothMedia`), comes to the header, which
  is written to the decoder's context (`StreamWriter.c:35`). It survives that only if a check of the
  muxer fails first, and then dies at a packet or at the trailer (`FailedHeaderIsFatal`). What comes
  after the set-up is therefore modelled as components under the order of calls `av_cli` has for
  them: `Transcode` with open contexts, as its functions ask of their callers, and `StreamWriter`
  with the context a client may have it write to.
- The decoder and encoder modules describe the code under
  `av/third-party/ffmpeg/libavcodec`, not FFmpeg in general.

## 2. Modules

| module | models | built on |
| --- | --- | --- |
| `RtspStreamWriter` | `AVIO.c`: the recorder with its files and the wall clock | |
| `PacketStore` | what a recorder promises (abstract) | |
| `RtspStream` | `RtspStream.c`: the camera stream | extends `RtspStreamWriter` |
| `Viewer` | `main.cpp`: the main loop, the user | extends `RtspStream` |
| `MCViewer` | cameras for the viewer's runs | extends `Viewer` |
| `Decoder` | `avcodec_send_packet`, `avcodec_receive_frame` | |
| `DecoderClient` | a decoder under a client that calls in any order | extends `Decoder` |
| `Encoder` | `avcodec_send_frame`, `avcodec_receive_packet` | |
| `Transcode` | `transcode_*`, `encode_*`, `remux` and their caller | extends `Decoder`, `Encoder` |
| `OutputName` | `get_next_filename`, on lengths | |
| `TranscoderSetup` | `main` of `av_cli` up to its loop, `alloc_transcoder`, `init_transcoder` | extends `OutputName` |
| `StreamWriter` | `StreamWriter.c`, `rollover_split`, `init_output_filename`, `free_transcoder` | extends `OutputName` |
| `MCTranscoderSetup`, `MCStreamWriter` | inputs and frame rates for the runs | extend the two |
| `RtspStreamWriterProofs`, `PacketStoreProofs`, `RecordingProofs` | theorems about the recorder | each extends the one before |
| `ViewerProofs` | theorems about the camera stream and the viewer | extends `Viewer`, `RecordingProofs` |
| `DecoderClientProofs` | theorems about a decoder | extends `DecoderClient` |
| `TranscodeProofs`, `TranscoderSetupProofs`, `StreamWriterProofs` | theorems about the transcoder | extend their modules |

Operators named `<definition>_<change>` or `<Definition><Change>` under a comment "Mutant" are
altered versions of the definition that follows; no specification uses them. They show that a
property can fail.

### 2.1 Recorder (`RtspStreamWriter`)

`wpc` is the point the thread has reached; `buf`, `at` and `pend` are
`m_pFrameBuffer[0..m_nCurrBufferSize-1]`, the index of the loop in `flush_buffer` and the
packet `buffer_frame` stores after the flush it called. `mux`, `pb`, `aliased` and
`outFile` are the output context, its file, whether its `url` is the name buffer of the writer,
and that name, which is the second it was made in. `disk` is the directory.

| action | code |
| --- | --- |
| `init_stream_writer(outcome)` | `init_stream_writer`, one outcome per return |
| `buffer_frame` | `buffer_frame` up to the flush, or all of it when there is room |
| `flush_write`, `flush_seal` | an iteration of the loop in `flush_buffer`; the trailer, `avio_close` and the resets |
| `rollover_output_file` | `rollover_output_file` and the way back to the line that stores the packet |
| `close_writer` | `m_nClosing = 1; flush_buffer()` in `free_stream` |
| `free_stream_writer` | `free_stream_writer` |
| `Tick`, `client_ends` | the wall clock; the process ends elsewhere |

`flush_buffer` is cut in pieces because the clock moves while it runs, and because the process
may be killed between any two of them. A packet is a number, in the order in which packets
were buffered. A file's `pkts` are the packets handed to the muxer, which may still
order them by timestamp within the file. Undefined behaviour is a choice: what follows a write
through a missing context, and what a second release of a pointer does, may be the end of the
process or nothing. `avio_open` leaves `pb` null on failure, `avio_close` leaves it dangling
(`pb = "freed"`), and `av_write_trailer` lets `avformat_write_header` be called again, as the
rollover does.

### 2.2 Camera stream and viewer (`RtspStream`, `Viewer`)

`RtspStream` has one action per function (`init_buffers` one per iteration of its loop);
`Viewer` says in which order `main` calls them and adds the three stages a picture passes
through: the picture buffer (`shown`), the pixel buffer object (`pbo`), the texture (`screen`).
A picture is named by the packet that yielded it. The search for the streams is a recursive
function (`Selection`) over the streams of the camera, with the loop guard of line 117.
Every ignored result is a further state of the loop: a stream without decoders, without
buffers, with a scaler made from sizes nobody set. `death` says where the process died.

The read of the camera is assumed to return, with a packet or an error. A change of the
picture size during a stream, failing allocations and leaks are not modelled.

### 2.3 Codecs (`Decoder`, `Encoder`, `DecoderClient`)

A decoder is the packet in its bitstream filter (`bsf`), the packet in work and the pieces left
of it (`inPkt`, `left`), the pictures the codec keeps for reordering (`inside`) and the frame
decoded ahead by a send (`bufFrame`). A call that decodes runs through
`decode_simple_receive_frame` iteration by iteration (`dpc`); what the codec makes of a piece is
a choice: a frame, no frame, an error, an invalid frame. The encoder is the mirror image,
with the check of the size of audio frames (`Refused`). Left out because no code here uses it:
flush packets and draining, codecs with receive callbacks, frame threads, hardware decoders,
and the discarding of samples.

### 2.4 Transcoding (`Transcode`)

`transcode_video` and `transcode_audio` differ only in the contexts they use, so one module
stands for both, with one frame in a packet (`Subframes = 1`) and any frame size for video, and
several frames and `FixedSize` for audio. Both go by `m_nRemuxVideo`, as the code does
(`Transcode.c:312`, `347`). `pc` is the place between two library calls. `got` is what the caller
found in its output packet after each call. At most two failures are counted; that is
what the property about them tells apart.

### 2.5 Set-up of the transcoder (`TranscoderSetup`)

`pc` is the call that comes next and `exit` how the process ended. `main` tests the results of its
own calls and returns; those of `init_transcoder` are dropped, so a failure there only shows
in what later calls find. A pointer is `"wild"` until something is assigned to it. To read
through a wild pointer is a choice (`Deref`): the end of the process or some value. `dctx` is
what the memory that `malloc` handed out happens to hold for the decoder's format context: nothing
readable (`"bad"`), something that looks like a context without streams (`"empty"`), or, the best
case, the input itself, which the old address of a released block may well be. A format is found by
`m_pFQN`, which `snprintf` terminates: by what is left of its extension or, where the size of the
name has wrapped, by an extension `m_pFN` may show where it is cut. The path `m_pFQP` has no NUL
(`Transcode.c:22-24`), so which file is opened at 165 depends on memory; whether one is, is a choice.

| action | code |
| --- | --- |
| `open_media2`, `prepare_decoder2` | the calls of `main` of that name, with its returns |
| `alloc_transcoder` | `alloc_transcoder`, `init_output_filename`, and the content of their memory |
| `RefStream`, `RefsEnd` | an iteration of the loop in `get_stream_refs`; its end |
| `init_context`, `init_video_encoder`, `init_audio_encoder`, `avio_open` | the functions of that name; the encoder of a stream ends in any state a failing call may leave it in |
| `CompareCodecs` | the last lines of `init_transcoder`, which read through both `AVCodec`s |
| `write_header` | the header, for a context that is no output: it ends the process or, if a check fails first, is dropped and the loop begins |

The client's parameters are the input and the extension: `av_cli` passes `"mp4"` and the name
`"output"`; other extensions are what `init_transcoder` can be given. The muxer's options
are as wild as the rest; where they can be read they are taken for none, which is the best
case. `init_default_params` is not modelled, for its only caller passes parameters.

### 2.6 Names and stream writer (`OutputName`, `StreamWriter`)

A name is its length and the part of the time it shows: `MaxSize` is the size computed in an
`unsigned char`, `Kept` what `snprintf` stores, `Shown` the second, the ten seconds or the
minute that a name cut in its time stands for. `StreamWriter` keeps `pb`, the list of the files
opened with what they hold, and the counters of the rollover. Header, packets and trailer go to
the context of the *decoder* and files are opened for that of the *encoder*; `dctx` is what the
client made of the former. `"input"` is what every client in the repository does; `"output"`
and `"encoder"` are the two ways in which the calls could be right, and only under them
there is anything to ask. `write_packet` is two steps, for the clock, and because the result of the
first is dropped. `pb` is null, open or dangling: `avio_close` releases its argument even when
it fails and `rollover_split` then leaves at once. What the files hold, how many blocks were taken
for names and whether a close has failed are histories.

`mux` is what the header has made of the muxer, and its result is dropped by the client
(`av_cli/src/main.c:370`). A header that fails in `init_muxer` before `mux.c:310` leaves no function
to interleave with (`"unset"`): the trailer calls it and dies, a packet dies or is refused before it
gets there (`StaysOutside`). One that fails later has released the muxer's data (`"shut"`): what
follows is the end of the process or any result. An input's context has no output format; it is
never set up.

## 3. Runs

Deadlock is checked in every run: the caller that has no more packets, the ended process and
the client's calls always leave a step.

| run | module, configuration | question |
| --- | --- | --- |
| `recorder_paced` | `RtspStreamWriter`, Paced | where is each packet, what is in each file, what can kill the recorder, with a camera slower than a buffer a second |
| `recorder_burst` | `RtspStreamWriter`, Burst | is it still a packet store, and what becomes of finished files, with a camera that fills buffers within a second and a clock that is set back |
| `viewer_startup` | `MCViewer`, Startup | six cameras, every call free to fail: what is selected, what is reported, what an ignored error leads to |
| `viewer_loop` | `MCViewer`, Loop | the whole life of the viewer and its recorder, closed at any time |
| `decoder_client` | `DecoderClient` | what the answers of a decoder's two calls say about each other |
| `transcode_video` | `Transcode`, Video | does a call ever find a codec full, when does remuxing stop, does each call return |
| `transcode_audio` | `Transcode`, Audio | what makes a decoder stall, and does it recover |
| `transcoder_setup` | `MCTranscoderSetup` | how far does the set-up come, for which inputs and names |
| `stream_writer` | `MCStreamWriter` | when does the transcoder roll over, what do files hold, what is lost with a name, what follows a failed header, open or close |
| `stream_selection` | `MCViewer`, Select | *violated*: "Find the first valid video & audio stream" (`RtspStream.c:116`) |
| `decoder_again` | `DecoderClient`, Again | *violated*: the promise about `EAGAIN` of `libavcodec/avcodec.h:154-157` |
| `transcode_delivery` | `Transcode`, Delivery | *violated*: "H264 -> H265" (`av_cli/src/main.c:253`) |

### What they show

*Recorder.* No packet is dropped or recorded twice by the buffer, the flush and the rollover,
whatever fails (`EachPacketOnce`); files hold the recording in order (`ReadOrder`) and, unless a
call failed, a whole buffer each (`WholeChunks`). A file is truncated by a later one only if the
camera fills a buffer within one second or the clock goes back (`TruncationNeedsBurst`). With
500 packets a buffer the first cannot happen at ordinary rates; local time going back one hour
at the end of daylight saving time is enough for the second. Even then a finished file is never
written to: it stays as it is or is replaced as a whole (`FinishedFilesStay`). An error of the rollover is ignored
and the next flush kills the process (`OpenFailureIsFatal`), and a recorder that failed for lack
of a context or file never records anything (`FailedWriterRecordsNothing`). A flush is only fatal
after such a failure (`DeathHasCause`). The name buffer is released twice by every recorder that
ever rolled over, but only when everything in memory is written, so that this death too loses no
packet (`CloseKeepsRecording`).

*Viewer.* Pictures reach the screen in order and the newest one is formatted, or the process dies
of the missing frame (`StagesInOrder`, `PictureIsNewest`, `ShownPictureStays`). Whatever errors of
the set-up it ignores, it shows, buffers and records nothing without both streams and both decoders
(`NeedsBothDecoders`); with them it may show pictures though its recorder failed. Closing the window
ends the program and loses no packet in memory (`CloseEnds`, `CloseKeepsRecording`), even
though the codec parameters are released a second time on the way. `DrivesWriter` checks
that the viewer uses its recorder only as `RtspStreamWriter` allows, so that what is proved of
the recorder alone holds of the one inside the viewer (`ViewerRecordsWhole`).

*Transcoder.* Video is drained by each call, so that neither codec is ever found full
(`VideoNeverStalls`, `EncoderAlwaysTakes`). When the codecs are the same the packets are moved on and
the decoder is fed but never read: remuxing stops at the first frame that is decoded ahead, and
every later packet is refused (`RemuxStopsAtFirstFrame`). Audio packets with several frames stall
after two failures (`StallNeedsTwoFailures`), and what has stalled never recovers
(`StallIsForever`). What the encoder produces never reaches the caller (`transcode_delivery`).

*Its set-up.* `init_transcoder` only returns for an input with picture and sound, because the
missing kind is found out through a pointer, and only if fresh memory happened to hold the address
of that input (`NeedsBothMedia`); encoders are only set up under an extension of five characters or
more, or under a name so long that its size wraps around (`EncodersNeedFormat`).

*Its stream writer.* The counter of frames is compared and never incremented, so that a rollover
comes with every packet or never (`RolloverAlwaysOrNever`); a rollover writes neither trailer
nor header, so that the only whole file is one that was never rolled over, and it holds
everything (`WholeFileHoldsAll`). A failed open is harmless as long as nothing is written to
that context, a failed close may kill at the next rollover, and a dropped failure of the header may
at any packet (`DeathNeedsFailure`). A header that failed before the muxer was set up always does,
at the latest in the trailer, and so does every header for the input, which is where `av_cli` sends
it (`FailedHeaderIsFatal`). Each name costs two blocks (`EveryNameLeaks`), and names
that show the whole second never collide from one second to the next
(`LaterFilesAreNew`); shorter extensions lose digits of the time and do.

### Bounds

| constant | values | why enough |
| --- | --- | --- |
| `MaxBufferSize` | 2; 1 in the viewer | the code has 500; first, last and middle iterations of a flush differ from 2 on, and the proofs are for every size |
| `MaxPackets` | 5 (recorder), 3 (loop), 4, 5 (transcoder) | two rollovers and a partly full buffer; a packet in every stage at once; a stall and packets after it |
| `MaxTime` | 5 (paced); 2 (burst); 1, 0 (viewer) | a second per packet; a clock that goes on and back over used names; names that differ or collide |
| `RateBound` | 1 with buffers of 2; 4 with buffers of 2; 2 with buffers of 1 | below and above one buffer a second |
| `MaxTries` | 2, 3 | success of both kinds, and of one with tries left |
| `Layouts` | `MCCamera`, `MCCameras` | sound or not, either order, a second stream of a kind, data streams in front and between |
| `Delay`, `KeptBack` | 0, 1, 2 | no reordering, and pictures that wait over several packets |
| `Inputs` | `MCInputs` | nothing, one kind, both in either order, another stream in front, a kind twice |
| `Extensions` | 2, 3, 4, 5, 7 (set-up); 2, 3 (writer) | lost, lost with digits of the time, kept in part |
| `FileName`, `FileNames` | 6; 6, 236, 240 | `"output"`; with an extension of 2, a size that is exactly 256 and one beyond it, with one of 3 both beyond |
| `Times` | 0, 5, 61 | within ten seconds, and in another minute |
| `Rates`, `RolloverTimes` | `MCRates`; 0, 1 | unknown, zero, whole and rounded rates; no frame, one or two wanted between rollovers |
| `MaxPackets` of the writer | 3 | a rollover after a rollover that failed |
| `Subframes` | 1, 2 | a packet that is decoded in one or in more pieces |

The counters of packets and seconds are bounded in the guards (`accepted < MaxPackets`, `t \in
Time`, `n < MaxPackets`, `sent < MaxPackets`); nothing else is cut off. The set-up of the transcoder
has no bound: it ends by itself.

### Fairness

The programs have one thread of straight-line code, so a call that has begun goes on: weak
fairness of the steps of a flush (`WriterFairSpec`), of `main` (`ViewerFairSpec`), of what
follows a packet's sending (`TranscodeFairSpec`) and of the stream writer's client
(`StreamWriterFairSpec`): it goes on with its calls until its input ends, which it does after
`MaxPackets` packets at the latest, and then writes the trailer. None is assumed of the clock, the
user, the camera's sending more packets or the caller's having more packets, and none of the
set-up, whose properties are all of safety. Library calls are
assumed to return, which for the read of the camera is an assumption about the camera: it has no
timeout.

## 4. Proofs

`tlapm` checks every step. The theorems hold for every `MaxBufferSize`, `RateBound`,
`MaxPackets`, `Delay` and so on that satisfy the named assumptions of the modules.

| theorem | property | argument |
| --- | --- | --- |
| `WriterTypeCorrect` | `WriterTypeOK` | `TypeInv`: the type invariant with what is known of `at`, `buf` and `pend` at each point. Without "a rollover finds the buffer empty and a packet waiting" the append after it could exceed the buffer |
| `TruncationOnlyByBurst` | `TruncationNeedsBurst` | `PaceInv`, for a camera below one buffer a second and a clock that does not go back: while the clock still shows the second of the current file's name the buffer holds no more than came in that second, so that a full buffer means the clock has moved on; and no file of a later second holds a packet, so that the next open finds nothing to destroy |
| `EachPacketKeptOnce` | `EachPacketOnce` | `OrderInv`, `PlaceInv`: with `Departed` the number of packets that left memory, `buf` holds exactly the numbers from there on, in order, and disk, lost and clobbered packets partition `1..Departed`. A lemma (`StepEffect`) reduces every action to four effects: a packet is taken in, the first one leaves, a file is opened, or all stay |
| `RecorderIsPacketStore` | `ImplementsPacketStore` | each of the four effects is a step of `PacketStore` under the mapping or leaves its variables alone; that a truncation only occurs where the store allows one is `PaceInv` |
| `FilesHoldWholeChunks`, `DeathAlwaysHasCause` | `WholeChunks`, `DeathHasCause` | `ChunkInv`: while nothing has failed the file that is open holds exactly the packets the flush has handed over, and a flush that is not the last began with a full buffer; a recorder without a file has failed before |
| `FilesKeepReadOrder` | `ReadOrder` | `ReadInv` with the invariants of `EachPacketKeptOnce`: a packet that is written carries the number `Departed + 1`, above all on disk, and without a clock that goes back no file of a later name holds any |
| `FinishedFilesAlwaysStay` | `FinishedFilesStay` | `LiveInv`: while the muxer is live the file it writes to is not finished, so that no packet goes to a finished one; of the actions only the opening of a file touches another one, and what that held is added to `clobbered` |
| `ViewerDrivesWriter`, `ViewerRecordsWhole` | `DrivesWriter`; `EachPacketOnce`, `ReadOrder`, `WholeChunks`, `ImplementsPacketStore` | every action of the viewer makes a step of `WriterSpec` or leaves its variables alone; the theorems about the recorder follow for the recorder inside the viewer |
| `ViewerTypeCorrect` | `ViewerTypeOK` | `ViewerInv`: the types, with the invariants of the recorder that its steps need, and the indices that lie within the camera's streams |
| `SelectionAlwaysFirst` | `SelectionIsFirst` | `SetInduction` proves a statement for all numbers of an interval by way of the least counterexample, whose existence `LeastNatural` takes from the well-founded order on finite sets; with it the recursive `Selection` is shown to satisfy its equation (`SelectionUnfolds`) and to find what `FirstOf` names (`SelectionFindsFirst`) |
| `StagesStayInOrder` | `StagesInOrder` | `StageInv`: a living viewer has counted every packet it has read, so that a new one is newer than all stages |
| `PictureAlwaysNewest` | `PictureIsNewest` | `StageInv`: the current frame is missing or that of the last video packet, so that `format_frame` takes that one or dies |
| `ShownPictureAlwaysStays` | `ShownPictureStays` | `FrameInv`: until `free_stream` a frame is missing only before the first packet, or behind one newer than what is shown; only `format_frame` dies of a missing frame |
| `DecodeErrorAlwaysMeansMissing` | `DecodeErrorMeansMissing` | inductive by itself: the loop of `init_buffers` only reports an error while a buffer is missing, and only the release takes one away |
| `ShowsOnlyWithBothDecoders`, `FailedWriterNeverRecords` | `NeedsBothDecoders`, `FailedWriterRecordsNothing` | `SetupInv`: a stream is untouched (no frame, no packet, no file) until both its streams were found and both its decoders are open, and once set up it stays so until `free_stream`; a writer without context or file keeps `mux` from ever being live while the flush it runs into is fatal |
| `CloseAlwaysKeeps` | `CloseKeepsRecording` | `KeepInv`: outside a rollover at most the current file is unfinished, and a closed recorder has nothing in memory; `EndInv`: `free_stream` only dies after its flush |
| `ReceiveAgainAlwaysMeansSend` | `ReceiveAgainMeansSend` | `AgainInv`: a receive that answered `EAGAIN` has left nothing in the filter, and nothing but a send puts anything there |
| `PacketsAlwaysWaitInTurn` | `PacketsWaitInTurn` | `TurnInv`: the filter holds the packet sent last, and everything behind it was sent earlier |
| `EachFrameAlwaysOnce` | `EachFrameOnce` | `OnceInv`: per packet, an account of frames given out, frame decoded ahead, pictures kept and pieces left. Consuming a piece takes one from it (`ConsumeTakesOne`), and what the codec makes of the piece puts at most one back; a new packet has an empty account because of `TurnInv` |
| `TranscodeTypeCorrect` | `TranscodeTypeOK` | the types of codecs and caller, one step per action |
| `VideoIsDrained` | `VideoNeverStalls` | `DrainInv`: with one frame a packet nothing is left in the decoder when a call returns, be it through the end of the receive loop or through a failure, because a loop left early has found filter and frame decoded ahead empty; the frame decoded ahead only lives between a send and the receive after it |
| `EncoderIsDrained` | `EncoderAlwaysTakes` | `EmptyInv`: outside `encode_*` the encoder holds neither a frame nor a packet encoded ahead; pictures it keeps back do not count, they refuse nothing |
| `StalledForGood` | `StallIsForever` | `RestInv`: between two calls both codecs are at rest and the output packet is empty, so the refused send is the only step and delivers nothing |
| `StallTakesTwoFailures` | `StallNeedsTwoFailures` | `LeftInv`: without a failure a call leaves the decoder empty, after one at most the rest of a packet and never the filter full; a call that ends because the decoder is starved leaves nothing whatever failed in it. With `VideoIsDrained` packets must have several pieces |
| `RemuxAlwaysStops` | `RemuxStopsAtFirstFrame` | `FirstInv`: a decoder that is never read is empty until a frame is decoded ahead; the next packet then stays in its filter and is the last one handed over, since every later send is refused |
| `StreamWriterTypeCorrect` | `StreamWriterTypeOK` | part of `WriterInv`: sizes and quotients stay natural numbers, and a packet in `write_packet` is not yet muxed |
| `RolloverIsAlwaysOrNever` | `RolloverAlwaysOrNever` | `curr` is 0 for ever, so `curr >= desired` says that `desired` is 0 |
| `OnlyTheWholeIsWhole` | `WholeFileHoldsAll` | `FileInv`: a header is only in the first file, a trailer only in the last one, and while there was no rollover these are the same and have taken what the muxer took |
| `DeathOnlyByFailure` | `DeathNeedsFailure` | `pb` dangles only after a failed close, and a muxer that is not ready is one whose header failed |
| `HeaderIsNeeded` | safety half of `FailedHeaderIsFatal` | a muxer that is not set up takes no packet and does not survive the trailer, and an input's is never set up |
| `TwoBlocksPerName`, `LaterFilesHaveNewNames` | `EveryNameLeaks`, `LaterFilesAreNew` | lemmas on the lengths: a stored name is shorter than the size computed for it (`KeptBelowSize`), and shows the whole second where nothing wraps (`ShowsTheSecond`) |
| `BothMediaNeeded`, `EncodersNeedLongExtension` | `NeedsBothMedia`, `EncodersNeedFormat` | `SetupInv`: an `AVCodec` is set only for a stream of the input that was read through its own address, and the output only under a name that may have a format; the lemmas `ExtensionIsCut` and `NameIsKept` say which names those are |

Assumed of the constants: buffers of at least one packet, natural numbers for bounds, lengths,
rates and seconds, inputs that are sequences of kinds. `SetupTypeOK`, the type invariant of the
set-up, is proved (`SetupTypeCorrect`) and not part of a run.

The counts of `EachFrameOnce` are cardinalities of sets of positions; the lemmas
`CountIsNat` and `CountAppended` say what one more frame does to them.

Only model-checked: the four liveness properties `OpenFailureIsFatal`, `CloseEnds`, `CallsReturn`
and `FailedHeaderIsFatal`.
Proofs under fairness need `ENABLED`, which is out of this prover's reach. The three runs that
refute a statement are counterexamples, and need no proof.

Each of these inductive invariants was checked by TLC on the instances of the runs before it was
proved.

## 5. Not modelled, and why

- The packet loop of `av_cli` behind its own set-up: as the program is called it is not reached.
  `Transcode` and `StreamWriter` have it as their caller.
- `init_default_params` (`Transcode.c`), which no caller reaches, and the code of `av_cli/src/main.c`
  that is commented out.
- What a muxer makes of the packets of a file, and what it and the file's own buffer still hold when
  the process is killed: a packet handed over counts as on disk. Nor the text of a name: only lengths and the time
  shown matter to what is overwritten.
- Timestamps and durations (`Transcode.c:195` divides by the numerator of a frame rate, which
  may be 0): arithmetic on data the control does not depend on.
- Drawing, the frame rate in the title, messages: no state of the program depends on them.
- Leaks other than those of the names, failing allocations, a picture size that changes: the code
  handles none of them.
- The codecs, muxers, protocols, GLFW, GLEW and the nvenc headers: vendored; only the API
  between them and the programs is modelled, where it keeps state.

## 6. Plan

Done, in the order of importance: recorder, its store, camera stream, viewer, codecs,
transcoding, set-up, names and stream writer of the transcoder; and a proof of every safety
property that a passing run checks. Left:

1. For liveness, the safety half of a proof: a measure that each step of a flush, of the main loop
   after closing and of a call of `transcode_*` lowers, so that only fairness is taken from TLC.
2. An abstract specification of a decoder (packets in, frames out, at most so many inside) that
   `DecoderClient` implements, as `PacketStore` is for the recorder.
