------------------------------ MODULE Formats ------------------------------
(***************************************************************************)
(* The headers FileHandler accepts and the sizes it derives from them.     *)
(* A header is a record: the fields no later step looks at are one Boolean,*)
(* sane.  Sizes are in bytes; room is what the file holds from the first   *)
(* byte of data to its end.                                                *)
(***************************************************************************)
EXTENDS Integers

CONSTANTS XAFrames, XAChannels, XARooms,  \* XA: dwOutSize in frames, nChannels, bytes after the header
          UTKFrames, UTKRooms,            \* UTalk: the same, of one channel
          Widths, Heights, BMPRooms,      \* BMP: biWidth, biHeight, bytes after bfOffBits
          WAVRooms                        \* WAV: bytes after the 44 of the header

\* What the headers' own checks leave of channels (nChannels), widths and heights.
ASSUME FormatsAssumption ==
    /\ XAFrames \subseteq Nat /\ XAChannels \subseteq 1 .. 8 /\ XARooms \subseteq Nat
    /\ UTKFrames \subseteq Nat /\ UTKRooms \subseteq Nat
    /\ Widths \subseteq 1 .. 4096 /\ Heights \subseteq 1 .. 4096 /\ BMPRooms \subseteq Nat
    /\ WAVRooms \subseteq Nat

Least(a, b) == IF a < b THEN a ELSE b
AtLeast0(a) == IF a < 0 THEN 0 ELSE a
PadTo4(n)   == (4 - (n % 4)) % 4

(************************** XA ********************************************)
xaheader == [sane : BOOLEAN, frames : XAFrames, channels : XAChannels, room : XARooms]

\* Bug: the last control byte of a file whose frames are not a multiple of 28.
XASizeFloor(frames, channels) == channels * ((frames + 1) \div 2 + frames \div 28)

\* Only for frames > 0: the function divides by the size of one channel.
xa_compressed_size(frames, channels) ==
    channels * ((frames + 1) \div 2 + (frames + 27) \div 28)

xa_read_header(h) == h.sane /\ h.room >= xa_compressed_size(h.frames, h.channels)

(************************** UTalk *****************************************)
utkheader == [sane : BOOLEAN, frames : UTKFrames, room : UTKRooms]

\* The sizes of the codes of the two tables of the codebook: a code selects
\* the table of the next one, and 0..3 are not a sample but a run.
UTKCodeSkips == <<8,7,8,7,2,2,2,3,3,4,4,3,3,5,5,4,4,6,6,5,5,7,7,6,6,8,8,7,7>>
UTKCodebook  == [t \in 0 .. 1 |->
    IF t = 0 THEN {0, 2, 4, 5, 6, 9, 10, 13, 14, 17, 18, 21, 22, 25, 26}
             ELSE {1, 3, 4, 7, 8, 11, 12, 15, 16, 19, 20, 23, 24, 27, 28}]

(* A position in the stream: the bytes taken, and the unread bits of them. *)
(* Past the end of the file every bit is 0: InData stops and the value     *)
(* that is shifted runs empty.                                             *)
ReadBits(room, r, n) ==
    IF r.bits - n < 8 /\ r.in # room
    THEN [in |-> r.in + 1, bits |-> r.bits - n + 8]
    ELSE [in |-> r.in, bits |-> AtLeast0(r.bits - n)]

\* Several calls in a row, n bits in all: a byte is taken whenever fewer
\* than 8 bits are unread, so the bits gone decide how many bytes are.
Skip(room, r, n) ==
    LET gone == 8 * r.in - r.bits + n
        i    == Least(room, (gone + 7) \div 8 + 1)
    IN [in |-> i, bits |-> AtLeast0(8 * i - gone)]

\* Two to the power of 0 to 6: no value that is looked at has more bits.
PowersOf2 == <<1, 2, 4, 8, 16, 32, 64>>

\* Bug: past the end of the file the bits are what was there before.
StaleValues(r, n) == 0 .. PowersOf2[n + 1] - 1

\* What a read of n bits can give.
Values(r, n) == 0 .. PowersOf2[Least(n, r.bits) + 1] - 1

(************************** BMP *******************************************)
(* comp is CompressedSize, the part of the room that bfSize declares; the  *)
(* file may go on after it.                                                *)
bmpheader == {[sane |-> s, w |-> w, h |-> h, bit |-> b, rle |-> r, off |-> o, comp |-> c, room |-> c + n] :
                 s \in BOOLEAN, w \in Widths, h \in Heights, b \in {8, 24}, r \in BOOLEAN,
                 o \in {54, 1078}, c \in BMPRooms, n \in 0 .. 1}

DecompressedSize(h) == h.w * h.h * 3

bmp_padding(h) == IF h.w % 4 = 0 THEN 0 ELSE (h.h - 1) * (4 - (h.w % 4))

bmp_read_header(h) ==
    /\ h.sane /\ h.comp > 0
    /\ h.bit = 8 => h.off + h.comp >= 1078
    /\ h.rle => h.bit = 8
    /\ ~h.rle => h.comp >= DecompressedSize(h) \div (IF h.bit = 24 THEN 1 ELSE 3) + bmp_padding(h)

(************************** WAV *******************************************)
wavheader == [sane : BOOLEAN, size : WAVRooms, align : {1, 2, 4}, room : WAVRooms]

wav_read_header(h) == h.sane /\ h.room >= 1 /\ h.size = h.room /\ h.size % h.align = 0
=============================================================================
