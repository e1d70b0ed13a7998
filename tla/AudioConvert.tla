---------------------------- MODULE AudioConvert ----------------------------
(***************************************************************************)
(* The way of a frame from the input through decoder and encoder to the    *)
(* output: StreamInImp::readData, AudioDecoder, AudioEncoder with its ADTS *)
(* header (AAC_ADTS), the DATA_STREAM objects and their pool, the parsers, *)
(* the conversion in FileStream::pushFile (in onPause and in RealTimeStream*)
(* ::pullAndpushFrame it is the same code), and StreamOut*::writeData.     *)
(*                                                                         *)
(* FFmpeg is external: a codec takes samples in frames of its own size,    *)
(* keeps the first Latency of them back and makes of each of the others a  *)
(* packet of some bytes; payloads are their sizes.  Times are microseconds *)
(* of whole numbers: the products of a double and 1000, cast to int64_t.   *)
(***************************************************************************)
EXTENDS Integers, Sequences, FiniteSets, SequencesExt

CONSTANTS
  Latency,      \* frames an encoder keeps back
  PacketBytes,  \* how long packets of encoders are
  Refused,      \* conversions whose encoder avcodec_open2 refuses
  PoolSize      \* objects CodecInit puts in the pool (10240 in the code)

ASSUME AudioConvertAssumption ==
  Latency \in Nat /\ PacketBytes \subseteq Nat \ {0} /\ PoolSize \in Nat

-----------------------------------------------------------------------------
(* AAC_ADTS: the header, as the bytes the setters write; bytes are masked  *)
(* and shifted as in the code.                                             *)
AAC_ADTS_SIZE == 7
Bit(x, k) == (x \div 2^k) % 2

syncword(d, v) ==
  [d EXCEPT ![0] = (v \div 16) % 256, ![1] = (v % 16) * 16 + (@ % 16)]

(* The bit of the ID is cleared, and the value goes to the lowest bit,     *)
(* which is protection_absent.                                             *)
SetID(d, v) ==
  [d EXCEPT ![1] =
     (@ - 8 * Bit(@, 3)) + (IF Bit(@, 0) = 0 THEN v % 2 ELSE 0)]

profile(d, v) == [d EXCEPT ![2] = (v % 4) * 64 + (@ % 64)]

adts_buffer_fullness(d, v) ==
  [d EXCEPT ![5] = (@ \div 32) * 32 + ((v \div 64) % 32),
            ![6] = (v % 64) * 4 + (@ % 4)]

AAC_ADTS ==
  [data |-> adts_buffer_fullness(
              profile(SetID(syncword([k \in 0..9 |-> 0], 4095), 1), 1), 2047),
   sampleRateIndex |-> 4]

(* ASC_SF_96000 ... ASC_SF_7350                                            *)
Rates == <<96000, 88200, 64000, 48000, 44100, 32000, 24000, 22050, 16000,
           12000, 11025, 8000, 7350>>
Reserved == Len(Rates)

sample_rate_index(a, rate) ==
  LET i == IF \E k \in 1..Reserved : Rates[k] = rate
             THEN (CHOOSE k \in 1..Reserved : Rates[k] = rate) - 1
             ELSE Reserved
  IN [data |-> [a.data EXCEPT ![2] = (@ \div 64) * 64 + i * 4 + (@ % 4)],
      sampleRateIndex |-> i]

channel_configuration(a, n) ==
  [a EXCEPT !.data[3] = (n % 4) * 64 + (@ % 64)]

aac_frame_length(a, n) ==
  [a EXCEPT !.data[3] = (@ \div 4) * 4 + ((n \div 2048) % 4),
            !.data[4] = (n \div 8) % 256,
            !.data[5] = (n % 8) * 32 + (@ % 32)]

(* The duration of a frame: profile LC only, and not of every rate.        *)
GetAdtsDuration(prof, i) ==
  IF i \notin 0..Reserved - 1 \/ prof # 1 THEN 0
  ELSE <<10666, 11609, 16000, 21333, 23219, 0, 0, 46439, 0, 0, 92879, 0,
         0>>[i + 1]

frame_duration(a) == GetAdtsDuration(1, a.sampleRateIndex)

-----------------------------------------------------------------------------
(* The parsers.                                                            *)

NotParsed == [ok |-> FALSE]

(* AacAudioParser::ParseFrame and getAacHeader                             *)
ParseAac(d, length) ==
  IF length < AAC_ADTS_SIZE \/ d[0] # 255 \/ d[1] \div 16 # 15
    THEN NotParsed
  ELSE LET i == (d[2] % 64) \div 4
       IN [ok |-> TRUE,
           rate |-> IF i < Reserved THEN Rates[i + 1] ELSE 0,
           frameSize |-> (d[3] % 4) * 2048 + d[4] * 8 + (d[5] \div 32),
           channels |-> (d[2] % 2) * 4 + (d[3] \div 64),
           duration |-> GetAdtsDuration(d[2] \div 64, i)]

(* An MP3 header's fields.  Versions are 0: 2.5, 2: 2, 3: 1; layers are    *)
(* Layer3 = 1, Layer2 = 2, Layer1 = 3.                                     *)
Mp3Frequencies ==
  [v \in {3, 2, 0} |-> CASE v = 3 -> <<44100, 48000, 32000>>
                         [] v = 2 -> <<22050, 24000, 16000>>
                         [] v = 0 -> <<11025, 12000, 8000>>]

Mp3Bitrates(version, layer) ==
  IF version # 3 /\ layer \in {1, 2}
    THEN <<8, 16, 24, 32, 40, 48, 56, 64, 80, 96, 112, 128, 144, 160>>
  ELSE IF version # 3
    THEN <<32, 48, 56, 64, 80, 96, 112, 128, 144, 160, 176, 192, 224, 256>>
  ELSE CASE layer = 1 -> <<32, 40, 48, 56, 64, 80, 96, 112, 128, 160, 192,
                           224, 256, 320>>
         [] layer = 2 -> <<32, 48, 56, 64, 80, 96, 112, 128, 160, 192, 224,
                           256, 320, 384>>
         [] layer = 3 -> <<32, 64, 96, 128, 160, 192, 224, 256, 288, 320,
                           352, 384, 416, 448>>

(* Mp3AudioParser::ParseFrame: the duration follows the frequency's place  *)
(* in the table, and is doubled for layer 3 of version 2.5 only.           *)
ParseMp3(h, length) ==
  IF length < 4 \/ h.bitrate \in {0, 15} \/ h.frequency = 3 \/ h.layer = 0
       \/ h.version = 1
    THEN NotParsed
  ELSE LET rate == Mp3Frequencies[h.version][h.frequency + 1]
           kbps == Mp3Bitrates(h.version, h.layer)[h.bitrate]
           ofLayer == IF h.layer = 3 THEN <<8707, 8000, 12000>>
                      ELSE <<26122, 24000, 36000>>
           whole == (144000 * kbps) \div rate
       IN [ok |-> TRUE,
           rate |-> rate,
           frameSize |->
             IF h.layer = 3 THEN (((12000 * kbps) \div rate) + h.padding) * 4
             ELSE h.padding
               + IF h.version # 3 /\ h.layer = 1 THEN whole \div 2 ELSE whole,
           channels |-> IF h.mode = 3 THEN 1 ELSE 2,
           duration |-> IF h.version # 0 \/ h.layer # 1
                          THEN ofLayer[h.frequency + 1]
                        ELSE <<52244, 48000, 72000>>[h.frequency + 1]]

-----------------------------------------------------------------------------
(* DATA_STREAM and ObjPollManager.  An object is its two sizes.            *)

Max2(a, b) == IF a > b THEN a ELSE b
Units(n) == ((n - 1) \div 512 + 1) * 512

copy(o, n) ==
  [size |-> n, buffSize |-> IF o.buffSize < n THEN Units(n) ELSE o.buffSize]

append(o, n) ==
  [size |-> o.size + n,
   buffSize |-> IF n > 0 /\ o.buffSize < o.size + n THEN Units(o.size + n)
                ELSE o.buffSize]

NewObj == [size |-> 0, buffSize |-> 0]

(* CodecInit and init()                                                    *)
CodecInit ==
  [objs |-> [k \in 1..PoolSize |-> NewObj], total |-> PoolSize,
   inpool |-> PoolSize]

get_obj(pool) ==
  IF pool.objs = <<>> THEN [pool EXCEPT !.total = @ + 1]
  ELSE [pool EXCEPT !.objs = Tail(@), !.inpool = @ - 1]

(* InsertAsHead()                                                          *)
release_obj(pool, o) ==
  [pool EXCEPT !.objs = <<[o EXCEPT !.size = 0]>> \o @, !.inpool = @ + 1]

-----------------------------------------------------------------------------
(* StreamInImp: what a file is, and a frame of it.  Without a header of    *)
(* ours the duration of a packet is the time since the one before it, and  *)
(* none for the first of a file (audiotime()).                             *)

(* The exact time of so many samples; rates are multiples of 25.           *)
FrameTime(samples, rate) == (samples * 40000) \div (rate \div 25)

NoAdts == [data |-> <<>>, sampleRateIndex |-> 0]

OpenIn(a) ==
  [audio |-> a,
   adts |-> IF a.codec # "aac" THEN NoAdts
            ELSE channel_configuration(
                   sample_rate_index(AAC_ADTS, a.rate), a.channels)]

(* total(), milliseconds: open() takes the duration of one frame for the   *)
(* one of an AAC file; fileTime is what FFmpeg tells of others.            *)
total(in, fileTime) ==
  (IF in.audio.codec = "aac" THEN frame_duration(in.adts)
   ELSE fileTime) \div 1000

readData(in, first) ==
  LET a == in.audio
      add == a.codec = "aac" /\ ~a.header
  IN [length |-> IF add THEN a.bytes + AAC_ADTS_SIZE ELSE a.bytes,
      duration |-> IF add THEN frame_duration(in.adts)
                   ELSE IF first THEN 0 ELSE FrameTime(a.samples, a.rate),
      untimed |-> first /\ ~add,
      samples |-> a.samples, rate |-> a.rate, channels |-> a.channels]

-----------------------------------------------------------------------------
(* AudioDecoder                                                            *)

AUDIO_DECODER_BUFF_SIZE == 20480

(* open(): FFmpeg's PCM decoder needs a number of channels, and is told    *)
(* only of one or two.                                                     *)
OpenDecoder(codec, channels, rate) ==
  LET told == IF channels \in {1, 2} THEN channels ELSE 0
  IN [rc |-> IF codec = "pcm" /\ told = 0 THEN -1 ELSE 0,
      open |-> ~(codec = "pcm" /\ told = 0),
      channels |-> told, rate |-> rate]

(* initDecoder(): other codecs are left closed, and no error is told.      *)
initDecoder(a, want) ==
  IF a.codec = "pcm" THEN OpenDecoder(a.codec, a.channels, a.rate)
  ELSE IF a.codec \in {"aac", "mp3", "mp2"}
    THEN OpenDecoder(a.codec, want.channels, 0)
  ELSE [rc |-> 0, open |-> FALSE, channels |-> 0, rate |-> 0]

(* A frame, if the codec makes one of the packet.                          *)
Decodes(dec, fd, good) ==
  dec.open /\ fd.length <= AUDIO_DECODER_BUFF_SIZE /\ good

(* A frame of PCM is what the decoder was opened for.                      *)
DecodedFrame(dec, a) ==
  [rate |-> IF a.codec = "pcm" THEN dec.rate ELSE a.rate,
   channels |-> IF a.codec = "pcm" THEN dec.channels ELSE a.channels,
   format |-> a.codec, samples |-> a.samples]

-----------------------------------------------------------------------------
(* AudioEncoder                                                            *)

EncoderRates(codec) ==
  IF codec = "aac" THEN Rates
  ELSE <<44100, 48000, 32000, 22050, 24000, 16000, 11025, 12000, 8000>>

GetBestSampleRate(codec, rate) ==
  IF rate \in ToSet(EncoderRates(codec)) THEN rate ELSE EncoderRates(codec)[1]

(* The codec's sample_fmts, and the one taken for the asked S16P.          *)
GetBestSampleFormat(codec) == IF codec = "mp3" THEN "s16p" ELSE "fltp"

FrameSamples(codec, rate) ==
  IF codec = "aac" THEN 1024 ELSE IF rate < 32000 THEN 576 ELSE 1152

NoFifo == -1
NoPre == [rate |-> 0, channels |-> 0, format |-> "none"]

(* initEncoder() and open()                                                *)
initEncoder(want) ==
  [want |-> want,
   ctx |-> [rate |-> 0, channels |-> 0, format |-> "none", frameSize |-> 0],
   adts |-> IF want.codec = "aac" THEN AAC_ADTS ELSE NoAdts,
   fifo |-> NoFifo, swr |-> FALSE, pre |-> NoPre,
   held |-> 0,       \* frames in the codec
   dropped |-> 0]    \* samples given up when the codec was opened again

BestContext(want) ==
  LET rate == GetBestSampleRate(want.codec, want.rate)
  IN [rate |-> rate, channels |-> want.channels,
      format |-> GetBestSampleFormat(want.codec),
      frameSize |-> FrameSamples(want.codec, rate)]

(* __init_fifo(): what is left in it is given up.                          *)
InitFifo(e) ==
  [e EXCEPT !.fifo = 0,
            !.dropped = @ + Max2(e.fifo, 0) + e.held * e.ctx.frameSize,
            !.held = 0]

InitSwr(e, f) ==
  [e EXCEPT !.swr = <<e.ctx.channels, e.ctx.rate, e.ctx.format>>
                      # <<f.channels, f.rate, f.format>>]

SetHeader(e) ==
  IF e.want.codec # "aac" THEN e
  ELSE [e EXCEPT !.adts =
          channel_configuration(sample_rate_index(@, e.want.rate),
                                e.want.channels)]

(* __update_coder(): the frame's format is noted before the codec is       *)
(* opened; the second frame does not try again.                            *)
UpdateCoder(e, f) ==
  LET format == [rate |-> f.rate, channels |-> f.channels,
                 format |-> f.format]
      old == InitFifo(e)
      new == [old EXCEPT !.ctx = BestContext(e.want), !.pre = format]
  IN IF format = e.pre THEN [rc |-> 0, enc |-> e]
     ELSE IF e.want \in Refused
       THEN [rc |-> -1, enc |-> [e EXCEPT !.pre = format]]
     ELSE [rc |-> 0, enc |-> InitSwr(SetHeader(new), f)]

(* __swr_filo_add()                                                        *)
SwrFifoAdd(e, f) ==
  [e EXCEPT !.fifo = @ + (IF e.swr
     THEN (f.samples * (e.ctx.rate \div 25)) \div (f.rate \div 25)
     ELSE f.samples)]

(* What an encoder writes in front of an MP3 packet.                       *)
Mp3Header(ctx) ==
  LET v == CHOOSE x \in {3, 2, 0} : ctx.rate \in ToSet(Mp3Frequencies[x])
  IN [version |-> v, layer |-> 1, bitrate |-> 8, padding |-> 0,
      frequency |->
        (CHOOSE k \in 1..3 : Mp3Frequencies[v][k] = ctx.rate) - 1,
      mode |-> IF ctx.channels = 1 THEN 3 ELSE 0]

(* __make_code(): a frame's samples go to the codec, and its packet with a *)
(* header to an object of the pool.                                        *)
MakeCode(a, bytes) ==
  LET e == a.enc
      header == AAC_ADTS_SIZE + bytes
      o == IF a.pool.objs = <<>> THEN NewObj ELSE Head(a.pool.objs)
      read == [e EXCEPT !.fifo = @ - e.ctx.frameSize]
      adts == aac_frame_length(e.adts, header)
  IN IF e.fifo < e.ctx.frameSize THEN a
     ELSE IF e.held < Latency
       THEN [a EXCEPT !.enc = [read EXCEPT !.held = @ + 1]]
     ELSE [a EXCEPT
       !.enc = IF e.want.codec = "aac" THEN [read EXCEPT !.adts = adts]
               ELSE read,
       !.pool = get_obj(@),
       !.output = Append(@,
         IF e.want.codec = "aac"
           THEN [obj |-> append(copy(o, AAC_ADTS_SIZE), bytes),
                 data |-> adts.data]
         ELSE [obj |-> append(o, bytes), data |-> Mp3Header(e.ctx)])]

(* Mutant: encode() makes at most one packet of a frame.                   *)
Rounds_One(e) == <<1>>

(* The rounds of encode(): until less than a frame is left.                *)
Rounds(e) == [k \in 1..Max2(e.fifo \div e.ctx.frameSize, 1) |-> k]

(* encode(); a codec that was refused has no fifo.                         *)
Encode(a, f, bytes) ==
  LET u == UpdateCoder(a.enc, f)
      added == [a EXCEPT !.enc = SwrFifoAdd(u.enc, f)]
  IN IF u.rc # 0 THEN [a EXCEPT !.enc = u.enc, !.rc = u.rc]
     ELSE IF u.enc.fifo = NoFifo THEN [a EXCEPT !.fault = "noFifo"]
     ELSE FoldLeft(LAMBDA b, k : MakeCode(b, bytes), added, Rounds(added.enc))
=============================================================================
