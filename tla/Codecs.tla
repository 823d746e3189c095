------------------------------- MODULE Codecs --------------------------------
(***************************************************************************)
(* fce_codec_encode, and fce_codec_decode of what it returned: copies      *)
(* (none, user_bytes), delta_i32, rle and bitpack.  zstd is external.      *)
(*                                                                         *)
(* The input is an array of 32-bit integers (here of WordBits bits), with  *)
(* some bytes left over if it is ragged.  Both calls go over their input   *)
(* one element, or one run, at a time.                                     *)
(***************************************************************************)
EXTENDS Integers, SequencesExt, FiniteSetsExt

CONSTANTS
  WordBits,   \* 32 in the code
  Arrays      \* the arrays that are encoded

\* 1U << n
Pow2[n \in Nat] == IF n = 0 THEN 1 ELSE 2 * Pow2[n - 1]

Half == Pow2[WordBits - 1]
Int32 == -Half .. Half - 1

ASSUME CodecConstants == WordBits \in Nat \ {0, 1} /\ Arrays \subseteq Seq(Int32)

VARIABLES
  codec, plain, ragged,  \* what is encoded
  call,                  \* where the calls are
  at,                    \* the next element of the input
  out, room,             \* the buffer being filled, and how many elements it has
  packed,                \* what fce_codec_encode returned
  buffers                \* the buffers that are allocated

codecVars == <<codec, plain, ragged, call, at, out, room, packed, buffers>>

Copies == {"none", "user_bytes"}
Codec == Copies \cup {"delta_i32", "rle", "bitpack"}

\* A buffer: for bitpack its header and its bits, else its words.
Nothing == [n |-> 0, bits |-> 0, data |-> <<>>]

\* The conversions (int32_t) and (uint32_t).
ToInt32(n) == ((n + Half) % (2 * Half)) - Half
ToUint32(v) == v % (2 * Half)

CodecInit ==
  /\ codec = "none" /\ plain = <<>> /\ ragged = FALSE
  /\ call = "idle" /\ at = 1
  /\ out = <<>> /\ room = 0
  /\ packed = Nothing /\ buffers = {}

-----------------------------------------------------------------------------
(* What both calls do. *)

\* An element of the input is read and `words' are written.
Emit(words) ==
  /\ out' = out \o words /\ at' = at + 1
  /\ UNCHANGED <<codec, plain, ragged, call, room, packed, buffers>>

Bytes(bits) == (bits + 7) \div 8

Stop(status) ==
  /\ call' = status
  /\ UNCHANGED <<codec, plain, ragged, at, out, room, packed>>

\* The call gives back its buffer and returns an error.
Fail(status, buffer) == Stop(status) /\ buffers' = buffers \ {buffer}

\* fce_xmalloc of `size' elements, in which `first' is written.
Allocate(buffer, size, first, step) ==
  /\ buffers' = buffers \cup {buffer}
  /\ room' = size /\ out' = first /\ at' = 1
  /\ call' = step
  /\ UNCHANGED <<codec, plain, ragged, packed>>

-----------------------------------------------------------------------------
(* fce_codec_encode *)

EncodeCalled ==
  /\ call = "idle"
  /\ codec' \in Codec /\ plain' \in Arrays /\ ragged' \in BOOLEAN
  /\ call' = "called"
  /\ UNCHANGED <<at, out, room, packed, buffers>>

BadLength == ragged /\ codec \notin Copies

EncodeRefused == call = "called" /\ BadLength /\ Stop("refused") /\ UNCHANGED buffers

EncodeNoMemory == call = "called" /\ ~BadLength /\ Stop("noMemory") /\ UNCHANGED buffers

\* The width of the largest element, at least 1.
BitWidth == Min({b \in 1 .. WordBits : \A i \in DOMAIN plain : ToUint32(plain[i]) < Pow2[b]})

EncodedRoom ==
  CASE codec = "rle"     -> 2 + 2 * Len(plain)
    [] codec = "bitpack" -> 8 * Bytes(Len(plain) * BitWidth)
    [] OTHER             -> Len(plain)

EncodeAllocate ==
  /\ call = "called" /\ ~BadLength
  /\ Allocate("encoded", EncodedRoom,
              IF codec = "rle" THEN <<ToInt32(Len(plain))>> ELSE <<>>, "encode")

Encoding == call = "encode" /\ at <= Len(plain)

EncodeCopy == codec \in Copies /\ Encoding /\ Emit(<<plain[at]>>)

\* A difference that is no int32 is refused.
EncodeDelta ==
  /\ codec = "delta_i32" /\ Encoding
  /\ LET d == IF at = 1 THEN plain[1] ELSE plain[at] - plain[at - 1]
     IN IF d \in Int32 THEN Emit(<<d>>) ELSE Fail("refused", "encoded")

\* The run from `at' ends before the first different element, or at the
\* greatest count.
RunEndPast ==   \* mutant: the comparison runs over one element too many
  Max({j \in at + 1 .. Len(plain) + 1 :
         j - at <= Half - 1 /\ \A i \in at .. j - 2 : plain[i] = plain[at]})

RunEnd ==
  Max({j \in at + 1 .. Len(plain) + 1 :
         j - at <= Half - 1 /\ \A i \in at .. j - 1 : plain[i] = plain[at]})

EncodeRun ==
  /\ codec = "rle" /\ Encoding
  /\ out' = out \o <<plain[at], ToInt32(RunEnd - at)>>
  /\ at' = RunEnd
  /\ UNCHANGED <<codec, plain, ragged, call, room, packed, buffers>>

EncodeBits ==
  /\ codec = "bitpack" /\ Encoding
  /\ Emit([b \in 1 .. BitWidth |-> (ToUint32(plain[at]) \div Pow2[b - 1]) % 2])

EncodeReturns ==
  /\ call = "encode" /\ at > Len(plain)
  /\ packed' = IF codec = "bitpack"
                 THEN [n |-> Len(plain), bits |-> BitWidth, data |-> out]
                 ELSE [Nothing EXCEPT !.data = out]
  /\ call' = "encoded"
  /\ UNCHANGED <<codec, plain, ragged, at, out, room, buffers>>

-----------------------------------------------------------------------------
(* fce_codec_decode.  The checks of lengths that no encoded buffer fails are *)
(* left out.                                                                 *)

Data == packed.data
Pairs == Len(Data) \div 2

\* The count in front of the runs, converted to size_t.  A negative one makes
\* the allocation fail.
RunTotal == Data[1]

DecodedRoom ==
  CASE codec = "rle"     -> RunTotal
    [] codec = "bitpack" -> packed.n
    [] OTHER             -> Len(Data)

DecodeNoMemory == call = "encoded" /\ Stop("noMemory") /\ UNCHANGED buffers

DecodeAllocate ==
  /\ call = "encoded" /\ DecodedRoom >= 0
  /\ Allocate("decoded", DecodedRoom, <<>>, "decode")

\* How many elements, or runs, there are to read.
Steps == CASE codec = "rle" -> Pairs [] codec = "bitpack" -> packed.n [] OTHER -> Len(Data)

Decoding == call = "decode" /\ at <= Steps

DecodeCopy == codec \in Copies /\ Decoding /\ Emit(<<Data[at]>>)

DecodeDelta ==
  /\ codec = "delta_i32" /\ Decoding
  /\ LET v == IF at = 1 THEN Data[1] ELSE Last(out) + Data[at]
     IN IF v \in Int32 THEN Emit(<<v>>) ELSE Fail("corrupt", "decoded")

DecodeRunUnchecked ==   \* mutant: the run is not compared with the room that is left
  /\ codec = "rle" /\ Decoding
  /\ LET count == Data[2 * at + 1]
     IN IF count < 0 THEN Fail("corrupt", "decoded")
        ELSE Emit([i \in 1 .. count |-> Data[2 * at]])

DecodeRun ==
  /\ codec = "rle" /\ Decoding
  /\ LET count == Data[2 * at + 1]
     IN IF count < 0 \/ Len(out) + count > RunTotal THEN Fail("corrupt", "decoded")
        ELSE Emit([i \in 1 .. count |-> Data[2 * at]])

DecodeBits ==
  /\ codec = "bitpack" /\ Decoding
  /\ LET v[b \in 0 .. packed.bits] ==
           IF b = 0 THEN 0 ELSE v[b - 1] + Data[(at - 1) * packed.bits + b] * Pow2[b - 1]
     IN Emit(<<ToInt32(v[packed.bits])>>)

\* Fewer elements than the count in front of the runs says are an error.
DecodeReturns ==
  /\ call = "decode" /\ at > Steps
  /\ IF Len(out) # room THEN Fail("corrupt", "decoded")
     ELSE Stop("decoded") /\ UNCHANGED buffers

CodecNext ==
  \/ EncodeCalled \/ EncodeRefused \/ EncodeNoMemory \/ EncodeAllocate
  \/ EncodeCopy \/ EncodeDelta \/ EncodeRun \/ EncodeBits \/ EncodeReturns
  \/ DecodeNoMemory \/ DecodeAllocate
  \/ DecodeCopy \/ DecodeDelta \/ DecodeRun \/ DecodeBits \/ DecodeReturns

CodecSpec == CodecInit /\ [][CodecNext]_codecVars

-----------------------------------------------------------------------------
CodecTypeOK ==
  /\ codec \in Codec /\ plain \in Arrays \cup {<<>>} /\ ragged \in BOOLEAN
  /\ call \in {"idle", "called", "encode", "encoded", "decode", "decoded",
              "refused", "corrupt", "noMemory"}
  /\ at \in Nat \ {0} /\ room \in Nat /\ ToSet(out) \subseteq Int32
  /\ buffers \subseteq {"encoded", "decoded"}

\* Arrays whose length the count of the rle header holds.
Countable == codec = "rle" => Len(plain) \in Int32

\* Decoding gives back what was encoded.  What encode accepted is never found
\* corrupt, but for run-length codes of arrays too long for their header, which
\* are refused and never decoded to something else: no difference, run or bit at
\* the limits of its field is lost (docs/API.md:479, "rejects overflow").
RoundTrip ==
  /\ call = "decoded" => out = plain
  /\ call = "corrupt" => ~Countable

\* "On failure, no output buffer is returned" (docs/API.md:473): a call that
\* fails has given back what it allocated, and decoding leaves its input alone.
FailsClean ==
  /\ call = "refused" => buffers = {}
  /\ call = "corrupt" => buffers = {"encoded"}
  /\ call = "decoded" => buffers = {"encoded", "decoded"}

\* The results of the two calls, and what they leave allocated.
CodecCallsExact == RoundTrip /\ FailsClean

\* Neither call writes past the end of its buffer, also when the count in front
\* of the runs has wrapped around.
WithinBuffer ==
  /\ CodecTypeOK
  /\ call \in {"encode", "decode"} => Len(out) <= room

=============================================================================
