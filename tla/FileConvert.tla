----------------------------- MODULE FileConvert -----------------------------
(***************************************************************************)
(* What listeners of a FileStream get: the files its worker plays one      *)
(* after the other (FileStreamWorker) go packet by packet through the      *)
(* codec (AudioConvert) to the output (FileStream::pushFile, pushFrame,    *)
(* StreamOutRtmp, StreamOutRtsp).  A list and a conversion fix what is     *)
(* done with a packet, and what the pushers of the rtmp and rtsp libraries *)
(* answer is an input, so that the way of all packets is a fold over them. *)
(***************************************************************************)
EXTENDS FileStreamWorker, AudioConvert

CONSTANTS
  Lists,       \* lists of Files files: what each is, see readData
  Silences,    \* the files in silenceFilePath
  Wanted,      \* audioConvertParam of a request
  Outputs,     \* "rtmp", "rtsp"
  MaxPackets,  \* bound: packets read of each file
  MaxTroubles  \* bound: packets that are not sent at the first attempt

AudioFile ==
  [codec : STRING, rate : Nat, channels : Nat, bitrate : Nat, samples : Nat,
   bytes : Nat, header : BOOLEAN]

ConvertParam ==
  [enable : BOOLEAN, codec : STRING, rate : Int, channels : Nat,
   bitrate : Int]

(* checkFiles(): each has a length, and all have one codec and, but for    *)
(* MP3, one rate and number of channels.                                   *)
checkFiles(list) ==
  \A k \in 1..Len(list) :
    /\ total(OpenIn(list[k]), FrameTime(list[k].samples, list[k].rate)) # 0
    /\ list[k].codec = list[1].codec
    /\ \/ list[k].codec = "mp3"
       \/ <<list[k].channels, list[k].rate>>
            = <<list[1].channels, list[1].rate>>

(* StreamOutRtmp::open, StreamOutRtsp::open: codecs they take.             *)
RtmpCodecs == {"aac", "mp3", "pcm"}
RtspCodecs == {"aac", "mp3"}

(* initStreamOut(): what the output is told the stream is.                 *)
initStreamOut(kind, list, want) ==
  LET told == IF want.enable THEN want ELSE list[1]
  IN [rc |-> IF told.codec \in (IF kind = "rtmp" THEN RtmpCodecs
                                 ELSE RtspCodecs) THEN 0 ELSE -1,
      kind |-> kind, codec |-> told.codec, rate |-> told.rate,
      channels |-> told.channels, timestamp |-> 0, sent |-> <<>>]

(* An RTMP time stamp is in milliseconds; RTSP has seconds and the rest.   *)
Stamp(o) ==
  IF o.kind = "rtmp" THEN (o.timestamp \div 1000) * 1000 ELSE o.timestamp

(* PCM goes to RTMP in pieces of 5 ms, each stamped 5 ms after the other.  *)
Pieces(o, length) ==
  LET sample == 2 * o.channels
      unit == ((o.rate * sample * 5) \div (1000 * sample)) * sample
  IN IF o.codec = "pcm" THEN (length + unit - 1) \div unit ELSE 1

(* Frames as FFmpeg reads them: of AAC (LC) 1024 samples; and pieces of PCM *)
(* that are over within their frame, which only very long frames are not,  *)
(* of a rate that has no whole number of samples in 5 ms.                  *)
FileOK(a) ==
  /\ a.rate >= 25
  /\ a.codec = "aac" => a.samples = 1024
  /\ a.codec = "pcm" =>
       /\ a.rate >= 200 /\ a.channels > 0
       /\ (Pieces(a, a.bytes) - 1) * 5000 <= FrameTime(a.samples, a.rate)

(* filestreamStartHandler takes no other conversions.  A packet of an      *)
(* encoder is more than an MP3 header, and with an ADTS header its length  *)
(* has 13 bits.                                                            *)
ASSUME FileConvertAssumption ==
  /\ Lists \subseteq Seq(AudioFile) /\ Silences \subseteq AudioFile
  /\ \A list \in Lists : Len(list) = Files /\ \A k \in 1..Files : FileOK(list[k])
  /\ \A a \in Silences : FileOK(a)
  /\ Wanted \subseteq ConvertParam
  /\ \A w \in Wanted : w.enable => w.codec \in {"aac", "mp3"} /\ w.channels \in {1, 2}
  /\ Outputs \subseteq {"rtmp", "rtsp"}
  /\ PacketBytes \subseteq 5..8184
  /\ MaxTroubles \in Nat

(* What becomes of an attempt to send a frame: the pusher takes it, is     *)
(* still connecting, or refuses it; or the output cannot be opened again.  *)
Attempt == {"sent", "connecting", "refused", "unopened"}

(* Those of pushFrame(): after a frame is refused it reconnects, until one *)
(* is written, or m_streamReconnectTimes or m_stop end it.                 *)
Fates ==
  {fate \in UNION {[1..n -> Attempt] : n \in 1..Reconnects + 1} :
     /\ fate[1] # "unopened"
     /\ \A k \in 1..Len(fate) - 1 : fate[k] \in {"refused", "unopened"}}

(* A frame takes its time when it is handed to the pusher, whether that    *)
(* takes it or not; PCM only when all pieces were taken.  While it         *)
(* connects, an RTSP output drops frames, and its clock stands.  sent has  *)
(* what was handed to the pusher, what it refused included.                *)
writeData(o, fd, attempt) ==
  LET timed == ~(attempt = "refused" /\ o.codec = "pcm")
      frame == [at |-> Stamp(o),
                last |-> Stamp(o) + (Pieces(o, fd.length) - 1) * 5000,
                length |-> fd.length, untimed |-> fd.untimed \/ ~timed,
                samples |-> fd.samples, rate |-> fd.rate,
                channels |-> fd.channels]
  IN IF attempt = "connecting" /\ o.kind = "rtsp" THEN o
     ELSE [o EXCEPT !.timestamp = IF timed THEN @ + fd.duration ELSE @,
                    !.sent = Append(@, frame)]

(* An output that cannot be opened is deleted, and the next is a new one.  *)
Try(o, fd, attempt) ==
  IF attempt = "unopened" THEN [o EXCEPT !.timestamp = 0, !.sent = <<>>]
  ELSE writeData(o, fd, attempt)

(* The header of an AAC frame is taken off.                                *)
Headless(o, fd) ==
  IF o.codec = "aac" /\ fd.length >= AAC_ADTS_SIZE
    THEN [fd EXCEPT !.length = @ - AAC_ADTS_SIZE] ELSE fd

(* The output after the attempts to send a frame.                          *)
Pushed(o, fd, fate) ==
  FoldLeft(LAMBDA x, attempt : Try(x, Headless(o, fd), attempt), o, fate)

(* pushFrame() gives up when the last attempt fails.                       *)
pushFrame(s, fd, fate) ==
  [s EXCEPT !.out = Pushed(@, fd, fate),
            !.over = CASE Last(fate) = "refused" -> "gaveUp"
                       [] Last(fate) = "unopened" -> "noOutput"
                       [] OTHER -> "no"]

needsConvert(in, want) ==
  want.enable /\
  <<in.audio.codec, in.audio.rate, in.audio.bitrate, in.audio.channels>>
    # <<want.codec, want.rate, want.bitrate, want.channels>>

(* What an encoder has put out goes through the parser to the output, and  *)
(* its object back to the pool; but the objects after a frame pushFrame()   *)
(* gave up are left.  duration() leaves its argument alone when the frame  *)
(* has not been parsed.                                                    *)
PushData(s, d, fate) ==
  LET aac == s.enc.want.codec = "aac"
      p == IF aac THEN ParseAac(d.data, d.obj.size)
           ELSE ParseMp3(d.data, d.obj.size)
      fd == [length |-> d.obj.size, duration |-> p.duration,
             untimed |-> FALSE, samples |-> s.enc.ctx.frameSize,
             rate |-> s.enc.ctx.rate, channels |-> s.enc.ctx.channels]
      back == [s EXCEPT !.pool = release_obj(@, d.obj)]
      told == [rate |-> p.rate, channels |-> p.channels,
               frameSize |-> p.frameSize, size |-> d.obj.size]
  IN IF s.over # "no" THEN [s EXCEPT !.left = @ + 1]
     ELSE IF d.obj.size <= (IF aac THEN AAC_ADTS_SIZE ELSE 4) THEN back
     ELSE IF ~p.ok THEN [back EXCEPT !.fault = "uninitialised"]
     ELSE pushFrame([back EXCEPT !.parsed = Append(@, told)], fd, fate)

(* One round of pushFile's loop, and of onPause's.                         *)
ConvertPacket(s, in, first, pkt) ==
  LET fd == readData(in, first)
      e == Encode([enc |-> s.enc, pool |-> s.pool, output |-> <<>>, rc |-> 0,
                   fault |-> "none"], DecodedFrame(s.dec, in.audio), pkt.bytes)
      encoded == [s EXCEPT !.enc = e.enc, !.pool = e.pool,
                           !.fault = e.fault, !.decoded = Append(@, in.audio)]
  IN IF s.fault # "none" \/ s.over # "no" THEN s
     ELSE IF ~needsConvert(in, s.enc.want) THEN pushFrame(s, fd, pkt.fate)
     ELSE IF ~Decodes(s.dec, fd, pkt.good) THEN s
     ELSE IF e.rc # 0 THEN encoded
     ELSE FoldLeft(LAMBDA t, d : PushData(t, d, pkt.fate), encoded, e.output)

(* A frame of silence that is given up ends onPause's loop only if it was  *)
(* not converted; without an output see FileStreamWorker.                  *)
Again(s, in, silence) ==
  IF silence /\ s.over = "gaveUp" /\ needsConvert(in, s.enc.want)
    THEN [s EXCEPT !.over = "no"] ELSE s

(* svr() opens codec and output for the first file of the list; there is   *)
(* no codec without a conversion.                                          *)
OpenCodec(list, want, kind) ==
  [dec |-> initDecoder(list[1], want), enc |-> initEncoder(want),
   pool |-> CodecInit, out |-> initStreamOut(kind, list, want),
   fault |-> "none",
   over |-> "no",  \* whether pushFrame() gave up, and what is left of output
   \* History: frames encoded; headers read of the packets pushed; objects
   \* that are not released.
   decoded |-> <<>>, parsed |-> <<>>, left |-> 0]

Starts(list, want, kind) ==
  LET s == OpenCodec(list, want, kind)
  IN checkFiles(list) /\ (want.enable => s.dec.rc = 0) /\ s.out.rc = 0

(* pushFile() for a file, or onPause() for the one of silence, of which    *)
(* packets are read: whether the decoder makes a frame of one, how long    *)
(* the encoder's packets are, and what becomes of its frames.              *)
PlayFile(s, in, packets, silence) ==
  FoldLeft(LAMBDA t, k :
             ConvertPacket(Again(t, in, silence), in, k = 1, packets[k]), s,
           [k \in 1..Len(packets) |-> k])

(* A stream that has given up is over, and not paused any more.            *)
PlaySilence(s, in, packets) ==
  IF s.over # "no" THEN s ELSE PlayFile(s, in, packets, TRUE)

(* The stream after the files of some indexes of its list.                 *)
Played(list, want, kind, indexes, script) ==
  FoldLeft(LAMBDA s, k :
             PlayFile(s, OpenIn(list[indexes[k]]), script[k], FALSE),
           OpenCodec(list, want, kind), [k \in 1..Len(indexes) |-> k])

(* The file that has the name and the format of the list's first file.     *)
createSlienceStreamIn(list) ==
  {OpenIn(a) : a \in {x \in Silences :
     <<x.codec, x.rate, x.channels>>
       = <<list[1].codec, list[1].rate, list[1].channels>>}}

-----------------------------------------------------------------------------
(* The rates whose frames have a duration in the table of GetAdtsDuration. *)
Timed(rate) ==
  \E i \in 0..Reserved - 1 : Rates[i + 1] = rate /\ GetAdtsDuration(1, i) # 0

(* A frame is sent when those handed to the pusher before it are over, but *)
(* for the first of each file without a header of ours and PCM it refused: *)
(* within a millisecond for the rounding of RTMP, and a microsecond for    *)
(* each of them.  Its pieces are over before the next frame if that is     *)
(* sent in time.                                                           *)
InTime(sent) ==
  \A k \in 1..Len(sent) :
    LET before == FoldLeft(
          LAMBDA t, x :
            IF x.untimed THEN t ELSE t + FrameTime(x.samples, x.rate),
          0, SubSeq(sent, 1, k - 1))
    IN /\ sent[k].at \in (before - 1000 - k)..(before + k)
       /\ sent[k].last - sent[k].at
            <= FrameTime(sent[k].samples, sent[k].rate)

(* Samples of the frames decoded, at the encoder's rate.                   *)
Resampled(e, decoded) ==
  FoldLeft(LAMBDA t, a : t + (a.samples * (e.ctx.rate \div 25))
                               \div (a.rate \div 25), 0, decoded)

(* Frames whose format is not the one of the frame before.                 *)
Changes(decoded) ==
  Cardinality({k \in 2..Len(decoded) :
                 <<decoded[k].rate, decoded[k].channels>>
                   # <<decoded[k - 1].rate, decoded[k - 1].channels>>})

(* No sample gets lost on its way to the output but those of an encoder    *)
(* that is opened again: what was read from the decoder was pushed, waits  *)
(* for a frame to be full, is in the encoder, was less than a frame when   *)
(* the format changed, or is in a packet after the one given up.  The      *)
(* objects of such packets, and no others, never get back into the pool.   *)
Conserved(s) ==
  LET e == s.enc
      frame == e.ctx.frameSize
  IN /\ Resampled(e, s.decoded)
          = (Len(s.parsed) + e.held + s.left) * frame + Max2(e.fifo, 0)
              + e.dropped
     /\ e.fifo < frame \/ frame = 0
     /\ e.dropped <= Changes(s.decoded) * ((Latency + 1) * frame - 1)
     /\ s.pool.inpool + s.left = s.pool.total
     /\ Len(s.pool.objs) = s.pool.inpool

(* Header and output tell what the encoder does, if it does what was asked;*)
(* without a conversion the output tells what the files are.  MP3 frames   *)
(* have headers of their own.                                              *)
ToldRight(s, want) ==
  (want.enable => want.rate \in ToSet(EncoderRates(want.codec))) =>
    /\ \A k \in 1..Len(s.parsed) :
         /\ s.parsed[k].rate = want.rate
         /\ s.parsed[k].channels = want.channels
         /\ want.codec = "aac" => s.parsed[k].frameSize = s.parsed[k].size
    /\ s.out.codec # "mp3" =>
         \A k \in 1..Len(s.out.sent) :
           <<s.out.sent[k].rate, s.out.sent[k].channels>>
             = <<s.out.rate, s.out.channels>>

PlayedWell(s, want) ==
  IF want \in Refused THEN s.fault \in {"none", "noFifo"}
  ELSE /\ s.fault = "none"
       /\ Conserved(s)
       /\ ToldRight(s, want)
       /\ (want.enable /\ want.codec = "aac" => Timed(want.rate))
            => InTime(s.out.sent)

(* Which packets of which files are in trouble, and how they fare.         *)
Troubles ==
  UNION {[places -> Fates] :
           places \in {p \in SUBSET ((1..Files) \X (1..MaxPackets)) :
                         Cardinality(p) <= MaxTroubles}}

Readings == UNION {[1..n -> BOOLEAN] : n \in 0..MaxPackets}

(* What happens to the packets of n files.                                 *)
Script(read, bytes, trouble) ==
  [f \in 1..Len(read) |->
     [k \in 1..Len(read[f]) |->
        [good |-> read[f][k], bytes |-> bytes[f],
         fate |-> IF <<f, k>> \in DOMAIN trouble THEN trouble[<<f, k>>]
                  ELSE <<"sent">>]]]

Scripts ==
  [n \in 1..Files |->
     {Script(read, bytes, trouble) :
        read \in [1..n -> Readings], bytes \in [1..n -> PacketBytes],
        trouble \in Troubles}]

(* Orders in which files were played up to file f.                         *)
Orders(f) ==
  {o \in UNION {[1..n -> 1..Files] : n \in 1..Files} :
     IsInjective(o) /\ Last(o) = f + 1}

Starting(convert) ==
  {x \in Lists \X {w \in Wanted : w.enable = convert} \X Outputs :
     Starts(x[1], x[2], x[3])}

Heard ==
  [f \in Index |-> [convert \in BOOLEAN |->
     \A x \in Starting(convert), o \in Orders(f) :
       \A script \in Scripts[Len(o)] :
         LET s == Played(x[1], x[2], x[3], o, script)
         IN /\ PlayedWell(s, x[2])
            /\ \A in \in createSlienceStreamIn(x[1]) :
                 PlayedWell(PlaySilence(s, in, script[1]), x[2])]]

(* Whatever the worker plays, with the codec or without, files and the     *)
(* silence of a pause, gets to the output's pusher: each frame at its time,*)
(* with a header and an output that tell its format, and without the loss  *)
(* of a sample while the format stays.  Encoder, fifo, header, output      *)
(* clock and pool go on from file to file, each with state of its own; a   *)
(* frame of the input is not a frame of the encoder.  Not in time are AAC  *)
(* frames of rates that GetAdtsDuration has no duration for, and the clock *)
(* stands still for a frame at the start of every file that is passed on   *)
(* as it is.  Of the output itself it says: what an RTSP output drops      *)
(* while it connects, it drops without its clock going on, so that what    *)
(* comes after is not late; a frame the pusher refuses has its time as     *)
(* often as it is tried, a gap to listeners; and a frame that is given up  *)
(* takes the objects behind it from the pool for good.                     *)
HeardAsPlayed ==
  wpc = "push" => Heard[opened[m_streamIn]][info.convert]
=============================================================================
