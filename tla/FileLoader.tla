----------------------------- MODULE FileLoader -----------------------------
(***************************************************************************)
(* The loaders of FileHandler: a file is read whole, its first byte picks  *)
(* a format, the header is checked and the data is decoded into a block of *)
(* the size the header says.  xadecode and utkdecode run the same decoders *)
(* over a file of their own.                                               *)
(*                                                                         *)
(* A decoder is followed through its reads and writes: in and out are the  *)
(* bytes it has taken of the room the file gives it and put into OutData.  *)
(* Pixel and sample values are left out.  A read or write outside of its   *)
(* block, or a division by zero, ends the behaviour in "undefined".        *)
(***************************************************************************)
EXTENDS Integers, Sequences, FiniteSets, Formats

CONSTANT CSTFiles   \* the texts cst_read is given: sequences of "^", "c" and "0"

ASSUME TextsAssumption == CSTFiles \subseteq Seq({"^", "c", "0"})

VARIABLES
    phase,   \* where the program is
    call,    \* the entry point
    fmt,     \* the format, once it is known
    hdr,     \* the header record of the format
    step,    \* inside of a decoder: which loop
    at,      \* inside of a decoder: the loop's counter
    left,    \* frames, rows or strings still to decode
    in, out, \* bytes taken and put
    bits,    \* UTalk: UnreadBitsCount
    win,     \* UTalk: the excitation window being filled
    held,    \* blocks and library objects that are allocated
    Error    \* File::Error, or the exit status of a tool

loadvars == <<phase, call, fmt, hdr, step, at, left, in, out, bits, win, held, Error>>
stream  == <<in, out, bits>>
decoder == <<hdr, step, at, left, in, out, bits, win>>
NoWin   == [i |-> 0, table |-> 0, interval |-> 1, voiced |-> FALSE, halved |-> FALSE, odd |-> FALSE]

Tool(c)  == c \in {"xadecode", "utkdecode"}
FmtOf    == [ReadImageFile |-> {"bmp", "jpg", "png", "tgacur"},
             ReadSoundFile |-> {"wav", "xa", "utk", "mp3"},
             xadecode      |-> {"xa"},
             utkdecode     |-> {"utk"},
             cst_read      |-> {"cst"}]

LoadInit ==
    /\ call \in {"ReadImageFile", "ReadSoundFile", "xadecode", "utkdecode", "cst_read"}
    /\ phase = IF call = "cst_read" THEN "cst" ELSE "file"
    /\ fmt = "none" /\ hdr = [sane |-> FALSE] /\ step = "none" /\ at = 0 /\ left = 0
    /\ in = 0 /\ out = 0 /\ bits = 0 /\ win = NoWin
    /\ held = {} /\ Error = "none"

(***************************************************************************)
(* Reading the file whole                                                  *)
(***************************************************************************)
Stop(e, kept) == phase' = "failed" /\ Error' = e /\ held' = kept

ReadFile ==
    /\ phase = "file" /\ ~Tool(call)
    /\ \/ \E e \in {"OPEN", "BLANK", "MEMORY", "READ"} : Stop(e, {})
       \/ phase' = "dispatch" /\ held' = {"InData"} /\ UNCHANGED Error
    /\ UNCHANGED <<call, fmt, decoder>>

\* The signature picks the reader; under four bytes nothing is looked at.
Dispatch ==
    /\ phase = "dispatch"
    /\ \/ \E e \in {"INVALIDDATA", "MEMORY"} : Stop(e, {}) /\ UNCHANGED fmt
       \/ Stop("UNRECOGNIZED", {"Struct"}) /\ UNCHANGED fmt
       \/ /\ fmt' \in FmtOf[call] /\ held' = held \union {"Struct"}
          /\ phase' = IF fmt' \in {"jpg", "png", "mp3"} THEN "library" ELSE "header"
          /\ UNCHANGED Error
    /\ UNCHANGED <<call, decoder>>

ReadImageFile == call = "ReadImageFile" /\ Dispatch
ReadSoundFile == call = "ReadSoundFile" /\ Dispatch

\* A reader returned NULL: its caller frees the file and leaves the struct.
Refuse(freed) == Stop("INVALIDDATA", held \ ({"InData"} \union freed))

\* TGA and CUR share a signature, and neither reader reads anything yet.
ReadTGACUR == phase = "header" /\ fmt = "tgacur" /\ Refuse({}) /\ UNCHANGED <<call, fmt, decoder>>

(***************************************************************************)
(* The readers: check the header, allocate OutData, start the decoder.     *)
(* A tool that is refused exits through Shutdown_M, which frees it all.    *)
(***************************************************************************)
GiveUp == IF Tool(call) THEN Stop("EXIT_FAILURE", {}) ELSE Refuse({})

Start(h, accepted, loop, n) ==
    /\ \/ /\ accepted
          /\ phase' = "decode" /\ held' = held \union {"OutData"}
          /\ hdr' = h /\ step' = loop /\ left' = n
          /\ UNCHANGED Error
       \/ GiveUp /\ UNCHANGED <<hdr, step, left>>
    /\ UNCHANGED <<call, fmt, at, win, stream>>

ReadBMP == /\ phase = "header" /\ fmt = "bmp"
           /\ \E h \in bmpheader : Start(h, bmp_read_header(h), IF h.rle THEN "rle" ELSE "rows", h.h)

ReadWAV == /\ phase = "header" /\ fmt = "wav"
           /\ \E h \in wavheader : Start(h, wav_read_header(h), "copy", h.size)

ReadXA ==
    /\ phase = "header" /\ fmt = "xa"
    /\ \E h \in xaheader :
          IF h.sane /\ h.frames = 0
          THEN phase' = "undefined" /\ hdr' = h
               /\ UNCHANGED <<call, fmt, step, at, left, win, stream, held, Error>>
          ELSE Start(h, xa_read_header(h), "control", h.frames)

ReadUTK == /\ phase = "header" /\ fmt = "utk"
           /\ \E h \in utkheader : Start(h, h.sane, "init", h.frames)

OutSize == IF fmt = "bmp" THEN DecompressedSize(hdr)
           ELSE IF fmt = "wav" THEN hdr.size
           ELSE IF fmt = "xa" THEN hdr.frames * hdr.channels * 2
           ELSE hdr.frames * 2

(***************************************************************************)
(* Decoders.  Touch says where a step has read and written up to.          *)
(***************************************************************************)
Touch(i, o, next) ==
    /\ in' = i /\ out' = o
    /\ phase' = IF i <= hdr.room /\ o <= OutSize THEN next ELSE "undefined"

Keep == UNCHANGED <<call, fmt, hdr, held, Error>>

CopyWAV ==
    /\ phase = "decode" /\ step = "copy"
    /\ Touch(hdr.size, hdr.size, "decoded")
    /\ Keep /\ UNCHANGED <<step, at, left, bits, win>>

\* Each block of 28 frames starts with a control byte for each channel.
XAControl ==
    /\ phase = "decode" /\ step = "control"
    /\ Touch(in + hdr.channels, out, "decode") /\ step' = "frames" /\ at' = 0
    /\ Keep /\ UNCHANGED <<left, bits, win>>

\* A byte of a channel holds two frames; the second may not be wanted.
XAFramePair ==
    /\ phase = "decode" /\ step = "frames"
    /\ LET n == Least(left, 2) IN
       /\ Touch(in + hdr.channels, out + n * 2 * hdr.channels,
                IF left <= 2 THEN "decoded" ELSE "decode")
       /\ left' = left - n
    /\ at' = (at + 1) % 14 /\ step' = IF at = 13 THEN "control" ELSE "frames"
    /\ Keep /\ UNCHANGED <<bits, win>>

\* bmp_read_data without compression; a row of the file is padded to 4 bytes.
BMPRow ==
    /\ phase = "decode" /\ step = "rows"
    /\ LET pitch == IF hdr.bit = 24 THEN hdr.w * 3 ELSE hdr.w IN
       Touch(at * (pitch + PadTo4(pitch)) + pitch, (at + 1) * hdr.w * 3,
             IF left = 1 THEN "decoded" ELSE "decode")
    /\ at' = at + 1 /\ left' = left - 1
    /\ Keep /\ UNCHANGED <<step, bits, win>>

RLEEnd(ok) == IF ok THEN Touch(in, out, "decoded") ELSE Touch(in, out, "corrupt")

BMPRunOut == step = "rle" /\ hdr.comp - in < 2 /\ RLEEnd(FALSE)

BMPEndOfLine == step = "rle" /\ hdr.comp - in >= 2 /\ Touch(in + 2, out, "decode")

BMPEndOfBitmap ==
    /\ step = "rle" /\ hdr.comp - in >= 2
    /\ Touch(in + 2, out, IF in + 2 = hdr.comp /\ out = OutSize THEN "decoded" ELSE "corrupt")

BMPAbsolute ==
    /\ step = "rle" /\ hdr.comp - in >= 2
    /\ \E value \in 2 .. hdr.comp + 1 :   \* 2 is a delta, which is refused
          IF value = 2 \/ value > hdr.comp - (in + 2) \/ value * 3 > OutSize - out
          THEN RLEEnd(FALSE)
          ELSE Touch(Least(in + 2 + value + (value % 2), hdr.comp), out + value * 3, "decode")

BMPRun ==
    /\ step = "rle" /\ hdr.comp - in >= 2
    /\ \E command \in 1 .. OutSize + 1 :
          IF command > OutSize - out THEN RLEEnd(FALSE)
          ELSE Touch(in + 2, out + command * 3, "decode")

BMPRle ==
    /\ phase = "decode"
    /\ BMPRunOut \/ BMPEndOfLine \/ BMPEndOfBitmap \/ BMPAbsolute \/ BMPRun
    /\ Keep /\ UNCHANGED <<step, at, left, bits, win>>

(***************************************************************************)
(* UTalk: frames of 4 subframes of 108 samples, read bit by bit            *)
(***************************************************************************)
Pos == [in |-> in, bits |-> bits]
MoveTo(r) == in' = r.in /\ bits' = r.bits

UTKKeep == Keep /\ UNCHANGED <<left, out>>

InitUTKParameters ==
    /\ phase = "decode" /\ step = "init"
    /\ IF hdr.room = 0
       THEN /\ in' = 1 /\ phase' = "undefined"
            /\ UNCHANGED <<step, bits, win>>
       ELSE LET r == [in |-> 1, bits |-> 8] IN
            /\ MoveTo(Skip(hdr.room, r, 15))
            /\ \E h \in BOOLEAN : win' = [NoWin EXCEPT !.halved = h, !.interval = IF h THEN 2 ELSE 1]
            /\ IF left = 0 THEN phase' = "decoded" /\ UNCHANGED step
                           ELSE step' = "frame" /\ UNCHANGED phase
    /\ UTKKeep /\ UNCHANGED at

\* Twelve reflection coefficients: the first says whether the frame is voiced.
DecodeFrame ==
    /\ phase = "decode" /\ step = "frame"
    /\ MoveTo(Skip(hdr.room, Pos, 4 * 6 + 8 * 5))
    /\ \E v \in IF bits = 0 THEN {TRUE} ELSE BOOLEAN : win' = [win EXCEPT !.voiced = v]
    /\ step' = "subframe" /\ at' = 0
    /\ UTKKeep /\ UNCHANGED phase

Subframe ==
    /\ phase = "decode" /\ step = "subframe"
    /\ IF at = 4
       THEN step' = "block" /\ UNCHANGED <<in, bits, win>>
       ELSE /\ MoveTo(Skip(hdr.room, Pos, 8 + 4 + 6 + (IF win.halved THEN 2 ELSE 0)))
            /\ win' = [win EXCEPT !.i = 0, !.table = 0]
            /\ step' = "excite"
    /\ UTKKeep /\ UNCHANGED <<phase, at>>

Fill(n) ==
    LET i == win.i + n * win.interval IN
    /\ phase' = IF i > 108 THEN "undefined" ELSE phase
    /\ step' = IF i >= 108 THEN "subframe" ELSE "excite"
    /\ at' = IF i >= 108 THEN at + 1 ELSE at

\* Unvoiced: a bit says whether the sample is silent, another one its sign.
ExciteUnvoiced ==
    /\ phase = "decode" /\ step = "excite" /\ ~win.voiced
    /\ \E b \in Values(Pos, 1) : MoveTo(Skip(hdr.room, Pos, 1 + b))
    /\ Fill(1) /\ win' = [win EXCEPT !.i = @ + win.interval]
    /\ UTKKeep

\* Voiced: a code is a sample, a run of silent samples or the start of a
\* sample whose magnitude is counted in 1 bits.
ExciteVoiced ==
    /\ phase = "decode" /\ step = "excite" /\ win.voiced
    /\ \E code \in IF bits = 0 THEN {4} ELSE UTKCodebook[win.table] :
       LET r == ReadBits(hdr.room, Pos, UTKCodeSkips[code + 1])
           t == IF code < 2 \/ code > 8 THEN 1 ELSE 0
       IN \/ /\ code >= 4
             /\ MoveTo(r) /\ Fill(1) /\ win' = [win EXCEPT !.i = @ + win.interval, !.table = t]
          \/ /\ code \in {2, 3}
             /\ \E x \in Values(r, 6) :
                   LET n == Least(x + 7, (108 - win.i) \div win.interval) IN
                   /\ MoveTo(ReadBits(hdr.room, r, 6))
                   /\ Fill(n) /\ win' = [win EXCEPT !.i = @ + n * win.interval, !.table = t]
          \/ /\ code < 2
             /\ MoveTo(r) /\ step' = "ones" /\ win' = [win EXCEPT !.table = t]
             /\ UNCHANGED <<phase, at>>
    /\ UTKKeep

\* Each 1 adds one to the magnitude, of which the parity is kept.
Ones ==
    /\ phase = "decode" /\ step = "ones"
    /\ \E b \in Values(Pos, 1) :
          IF b = 1 THEN MoveTo(ReadBits(hdr.room, Pos, 1)) /\ win' = [win EXCEPT !.odd = ~@] /\ UNCHANGED <<phase, step, at>>
          ELSE MoveTo(Skip(hdr.room, Pos, 2)) /\ Fill(1) /\ win' = [win EXCEPT !.i = @ + win.interval, !.odd = FALSE]
    /\ UTKKeep

\* The samples asked for of a frame that was decoded whole.
utk_decode ==
    /\ phase = "decode" /\ step = "block"
    /\ LET n == Least(left, 432) IN
       /\ Touch(in, out + 2 * n, IF left = n THEN "decoded" ELSE "decode")
       /\ left' = left - n
    /\ step' = "frame"
    /\ Keep /\ UNCHANGED <<at, bits, win>>

(***************************************************************************)
(* Readers over a library: each call takes an object, and each failure     *)
(* frees what the code frees at that place.                                *)
(***************************************************************************)
Call(takes, frees) == [takes |-> takes, frees |-> frees]
MP3Close == {"mh", "mpg123"}
Calls == [
    jpg |-> << Call({"jpeg"}, {}),                  \* jpeg_create_decompress
               Call({}, {"jpeg"}),                  \* jpeg_read_header
               Call({}, {"jpeg"}),                  \* jpeg_start_decompress
               Call({"OutData"}, {"jpeg"}),
               Call({}, {"OutData", "jpeg"}) >>,    \* jpeg_read_scanlines
    png |-> << Call({"png_ptr"}, {}),
               Call({"info_ptr"}, {"png_ptr"}),
               Call({}, {"png_ptr", "info_ptr"}),   \* png_read_png, by longjmp
               Call({"OutData"}, {"png_ptr", "info_ptr"}) >>,
    mp3 |-> << Call({"mpg123"}, {"mpg123"}),        \* mpg123_init
               Call({"mh"}, {"mpg123"}),            \* mpg123_new
               Call({}, MP3Close),                  \* mpg123_format_none .. mpg123_length
               Call({"OutData"}, MP3Close),
               Call({}, MP3Close \union {"OutData"}) >> ]  \* mpg123_read

\* Bug: the handle is closed and not deleted.
CloseOnly(f) == IF f = "jpg" THEN {"jpeg"} ELSE IF f = "png" THEN {"png_ptr", "info_ptr"} ELSE {"mpg123"}

Close(f) == IF f = "jpg" THEN {"jpeg"} ELSE IF f = "png" THEN {"png_ptr", "info_ptr"} ELSE MP3Close

\* The JPEG library's own errors, and a fault in its input, end the program.
Library(f, mayexit) ==
    /\ phase = "library" /\ fmt = f
    /\ \/ mayexit /\ at > 0 /\ phase' = "exited" /\ UNCHANGED <<at, held, Error>>
       \/ Refuse(Calls[f][at + 1].frees) /\ UNCHANGED at
       \/ IF at + 1 < Len(Calls[f])
          THEN at' = at + 1 /\ held' = held \union Calls[f][at + 1].takes /\ UNCHANGED <<phase, Error>>
          ELSE /\ at' = 0 /\ phase' = "decoded" /\ UNCHANGED Error
               /\ held' = (held \union Calls[f][at + 1].takes) \ Close(f)
    /\ UNCHANGED <<call, fmt, hdr, step, left, win, stream>>

ReadJPG == Library("jpg", TRUE)
ReadPNG == Library("png", FALSE)
ReadMP3 == Library("mp3", FALSE)

(***************************************************************************)
(* What follows the decoder                                                *)
(***************************************************************************)
\* The struct is filled and the file is freed; only BMP can be corrupt here.
Return ==
    /\ ~Tool(call)
    /\ \/ phase = "decoded" /\ phase' = "returned" /\ held' = held \ {"InData"} /\ UNCHANGED Error
       \/ phase = "corrupt" /\ Refuse({"OutData"})
    /\ UNCHANGED <<call, fmt, decoder>>

(***************************************************************************)
(* xadecode and utkdecode                                                  *)
(***************************************************************************)
Shutdown_M == Stop("EXIT_FAILURE", {})

\* Without an output file the tool stops once the header is good.
ToolRead(f) ==
    /\ phase = "file"
    /\ \/ Shutdown_M /\ UNCHANGED fmt       \* open, size, memory, read or header
       \/ phase' = "returned" /\ Error' = "EXIT_SUCCESS" /\ held' = {"InData"} /\ UNCHANGED fmt
       \/ phase' = "header" /\ held' = {"InData"} /\ fmt' = f /\ UNCHANGED Error
    /\ UNCHANGED <<call, decoder>>

\* A file that exists is asked about; "no" and a file that cannot be made
\* go through Shutdown_M as well.
ToolWrite ==
    /\ phase = "decoded"
    /\ \/ Shutdown_M
       \/ phase' = "returned" /\ Error' = "EXIT_SUCCESS" /\ held' = held \ {"InData", "OutData"}
    /\ UNCHANGED <<call, fmt, decoder>>

XADecodeRead   == call = "xadecode"  /\ ToolRead("xa")
XADecodeWrite  == call = "xadecode"  /\ ToolWrite
UTKDecodeRead  == call = "utkdecode" /\ ToolRead("utk")
UTKDecodeWrite == call = "utkdecode" /\ ToolWrite

(***************************************************************************)
(* cst_read: strings between pairs of '^', found again with strchr         *)
(***************************************************************************)
Carets(s) == Cardinality({i \in DOMAIN s : s[i] = "^"})
cst_count_strings(s) == Carets(s) \div 2

cst_open ==
    /\ phase = "cst" /\ fmt = "none" /\ fmt' = "cst"
    /\ \E s \in CSTFiles :
          /\ hdr' = [sane |-> TRUE, text |-> s] /\ left' = cst_count_strings(s)
          /\ \/ cst_count_strings(s) > 0 /\ Stop("MEMORY", {})
             \/ IF cst_count_strings(s) = 0 THEN phase' = "returned" /\ UNCHANGED <<held, Error>>
                ELSE held' = {"Strings"} /\ UNCHANGED <<phase, Error>>
    /\ UNCHANGED <<call, step, at, win, stream>>

\* strchr from the position p: the '^' it stops at, or 0 if a NUL is first.
strchr(s, p) ==
    LET ends == {i \in p + 1 .. Len(s) : s[i] \in {"^", "0"}}
        e == IF ends = {} THEN 0 ELSE CHOOSE i \in ends : \A j \in ends : i <= j
    IN IF e > 0 /\ s[e] = "^" THEN e ELSE 0

cst_read ==
    /\ phase = "cst" /\ fmt = "cst"
    /\ LET a == strchr(hdr.text, in)
           b == IF a = 0 THEN 0 ELSE strchr(hdr.text, a)
       IN /\ in' = IF b = 0 THEN in ELSE b
          /\ phase' = IF b = 0 THEN "undefined" ELSE IF left = 1 THEN "returned" ELSE "cst"
    /\ left' = left - 1
    /\ UNCHANGED <<call, fmt, hdr, step, at, out, bits, win, held, Error>>

LoadNext ==
    \/ ReadFile \/ ReadImageFile \/ ReadSoundFile
    \/ ReadTGACUR \/ ReadBMP \/ ReadWAV \/ ReadXA \/ ReadUTK
    \/ CopyWAV \/ XAControl \/ XAFramePair \/ BMPRow \/ BMPRle
    \/ InitUTKParameters \/ DecodeFrame \/ Subframe
    \/ ExciteUnvoiced \/ ExciteVoiced \/ Ones \/ utk_decode
    \/ ReadJPG \/ ReadPNG \/ ReadMP3 \/ Return
    \/ XADecodeRead \/ XADecodeWrite \/ UTKDecodeRead \/ UTKDecodeWrite
    \/ cst_open \/ cst_read

\* One thread runs the loader and nothing in it waits.
LoadSpec == LoadInit /\ [][LoadNext]_loadvars /\ WF_loadvars(LoadNext)

(***************************************************************************)
(* Properties                                                              *)
(***************************************************************************)
Ended == phase \in {"returned", "failed", "exited", "undefined"}

(* The inputs for which a header that was accepted does not bound what the *)
(* decoder touches.                                                        *)
NoFrames    == fmt = "xa"  /\ hdr.frames = 0
NoData      == fmt = "utk" /\ hdr.room = 0
ShortRows   == fmt = "bmp" /\ hdr.bit = 24 /\ hdr.w % 4 = 3 /\ hdr.h > 1
LongRun     == fmt = "bmp" /\ hdr.rle
TextWithNUL == fmt = "cst" /\ \E i \in DOMAIN hdr.text : hdr.text[i] = "0"

(* A decoder that was let through by its header stays inside of the file   *)
(* and of OutData, and a window of 108 samples is never filled beyond its  *)
(* end, but for five kinds of input: an XA file of no frames, a UTalk file *)
(* that ends after its header, 24-bit rows whose padding the BMP header    *)
(* counts in pixels, a run of RLE8 and a NUL in a CST text.                *)
Inside == phase = "undefined" => NoFrames \/ NoData \/ ShortRows \/ LongRun \/ TextWithNUL

(* When a load ends nothing is left but what the caller gets: the struct   *)
(* and a block that was filled to its last byte.  A load that failed says  *)
(* why and leaves at most the struct, a tool that failed nothing at all.   *)
Filled  == fmt \in {"bmp", "wav", "xa", "utk"} => out = OutSize
Settled ==
    /\ phase = "failed" => Error # "none" /\ held \subseteq (IF Tool(call) THEN {} ELSE {"Struct"})
    /\ phase = "returned" /\ call \in {"ReadImageFile", "ReadSoundFile"} =>
          held = {"Struct", "OutData"} /\ Filled
    /\ phase = "returned" /\ Tool(call) =>
          held = (IF fmt = "none" THEN {"InData"} ELSE {}) /\ (fmt # "none" => Filled)
    /\ phase = "returned" /\ fmt = "cst" => left = 0

(* Every load ends: the decoders loop until they have produced what the    *)
(* header asked for, and UTalk counts 1 bits, which only end because the   *)
(* bits past the end of the file are 0.                                    *)
Ends == <>Ended
=============================================================================
