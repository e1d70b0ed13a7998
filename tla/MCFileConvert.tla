---------------------------- MODULE MCFileConvert ----------------------------
(* The lists of MCFileStreamWorker, with files that differ as far as       *)
(* checkFiles allows, and conversions of more, fewer and equal rates.      *)
EXTENDS FileConvert, MCFileStreamWorker

Mp3File ==
  [codec |-> "mp3", rate |-> 44100, channels |-> 2, bitrate |-> 64000,
   samples |-> 1152, bytes |-> 417, header |-> TRUE]
HalfRate == [Mp3File EXCEPT !.rate = 22050, !.channels = 1, !.samples = 576]
AacFile ==
  [codec |-> "aac", rate |-> 48000, channels |-> 2, bitrate |-> 64000,
   samples |-> 1024, bytes |-> 8000, header |-> FALSE]
AdtsFile == [AacFile EXCEPT !.header = TRUE]
WavFile ==
  [codec |-> "pcm", rate |-> 16000, channels |-> 1, bitrate |-> 256000,
   samples |-> 2048, bytes |-> 4096, header |-> TRUE]
SlowAac == [AacFile EXCEPT !.rate = 32000]
LongFrames == [WavFile EXCEPT !.samples = 16384, !.bytes = 32768]

OddPieces ==
  [WavFile EXCEPT !.rate = 22050, !.samples = 16384, !.bytes = 32768]
Surround == [WavFile EXCEPT !.channels = 6]
Mp2File == [Mp3File EXCEPT !.codec = "mp2"]

TestLists ==
  {<<Mp3File, HalfRate>>, <<AacFile, AdtsFile>>, <<WavFile, LongFrames>>,
   <<Mp3File, AacFile>>, <<SlowAac, SlowAac>>, <<OddPieces, OddPieces>>,
   <<Surround, Surround>>, <<Mp2File, Mp2File>>}

TestSilences == {Mp3File, AdtsFile, WavFile, [SlowAac EXCEPT !.header = TRUE]}

Param(codec, rate, channels) ==
  [enable |-> TRUE, codec |-> codec, rate |-> rate, channels |-> channels,
   bitrate |-> 64000]

TestWanted ==
  {[Param("aac", 0, 0) EXCEPT !.enable = FALSE],
   Param("aac", 44100, 2), Param("aac", 48000, 2), Param("aac", 32000, 1),
   Param("mp3", 44100, 2), Param("mp3", 16000, 1), Param("mp3", 96000, 2),
   Param("mp3", 8000, 2)}

TestRefused == {Param("mp3", 8000, 2)}
=============================================================================
