----------------------------- MODULE IffSprite -----------------------------
(***************************************************************************)
(* The rows of one sprite of an SPR# or SPR2 chunk (iff/spr.c, iff/spr2.c) *)
(* as iff_parse_spr and iff_parse_spr2 decode them.  What is left of the   *)
(* sprite is counted in SpriteSize, what is left of a row in RowCount, and *)
(* the buffer moves on its own; nothing else keeps the three in step.      *)
(***************************************************************************)
EXTENDS Integers

CONSTANT Word  \* the unsigned integers are 0..Word - 1 (2^32 in the code)

ASSUME WordAssumption == Word \in Nat /\ Word > 0

UInt(x) == x % Word

VARIABLES
    at,         \* how far b.Buffer is into the chunk
    mode,       \* "none", "rows", "pixels", "end", "bad"
    Sprite,     \* its Type, Width, Height and Flags
    SpriteSize, RowCount,
    row, pixel,
    end         \* history: where the sprite ends by its size

spritevars == <<mode, Sprite, SpriteSize, RowCount, row, pixel, end>>

NoSprite == [Type |-> "SPR#", Width |-> 0, Height |-> 0, Flags |-> 0]

SpriteInit == /\ mode = "none" /\ Sprite = NoSprite
              /\ SpriteSize = 0 /\ RowCount = 0 /\ row = 0 /\ pixel = 0 /\ end = 0

SpriteReset == /\ mode' = "none" /\ Sprite' = NoSprite
               /\ SpriteSize' = 0 /\ RowCount' = 0 /\ row' = 0 /\ pixel' = 0 /\ end' = 0

\* The rows of a sprite s begin where the buffer is.
Begin(s, size) == /\ mode' = "rows" /\ Sprite' = s
                  /\ SpriteSize' = size /\ end' = at + size
                  /\ RowCount' = 0 /\ row' = 0 /\ pixel' = 0

Bad == /\ mode' = "bad"
       /\ UNCHANGED <<at, Sprite, SpriteSize, RowCount, row, pixel, end>>

\* A row command is two bytes.
Command == mode = "rows" /\ SpriteSize >= 2

\* Commands 0 and 16 of SPR#.
StartMarker == /\ Command /\ Sprite.Type = "SPR#"
               /\ at' = at + 2 /\ SpriteSize' = SpriteSize - 2
               /\ UNCHANGED <<mode, Sprite, RowCount, row, pixel, end>>

\* A row of n bytes, its command included (command 4 of SPR#, 0 of SPR2).
PixelRow(n) == /\ Command /\ row # Sprite.Height
               /\ n >= 2 /\ n - 2 <= SpriteSize - 2 /\ n % 2 = 0
               /\ at' = at + 2
               /\ RowCount' = n - 2 /\ SpriteSize' = SpriteSize - n
               /\ mode' = "pixels" /\ pixel' = 0
               /\ UNCHANGED <<Sprite, row, end>>

\* Command 9 of SPR#, 4 of SPR2.
TransparentRows(n) == /\ Command
                      /\ n <= Sprite.Height - row
                      /\ at' = at + 2 /\ SpriteSize' = SpriteSize - 2
                      /\ row' = row + n
                      /\ UNCHANGED <<mode, Sprite, RowCount, pixel, end>>

EndMarker == /\ Command
             /\ at' = at + 2 /\ SpriteSize' = SpriteSize - 2
             /\ mode' = "end"
             /\ UNCHANGED <<Sprite, RowCount, row, pixel, end>>

\* No row command, one that does not fit, or the sprite is over.
BadCommand == mode = "rows" /\ Bad

Padded(n) == n + (n % 2)

\* Bytes that follow a pixel command for n pixels.
PixelBytes(command, n) == IF command = "transparent" THEN 0
                          ELSE IF command = "fill" THEN 2
                          ELSE IF command = "color" THEN Padded(n)
                          ELSE IF command = "color_z" THEN 2 * n
                          ELSE 3 * n + (n % 2)   \* color_z_alpha

PixelCommands == IF Sprite.Type = "SPR#" THEN {"transparent", "fill", "color"}
                 ELSE {"transparent", "color"} \cup
                      (IF Sprite.Flags >= 3 THEN {"color_z"} ELSE {}) \cup
                      (IF Sprite.Flags >= 7 THEN {"color_z_alpha"} ELSE {})

\* Bug: the padding byte is skipped without being counted.
PixelsUnpadded(command, n) ==
    /\ mode = "pixels" /\ RowCount >= 2
    /\ command \in PixelCommands
    /\ n <= Sprite.Width - pixel
    /\ PixelBytes(command, n) <= RowCount - 2
    /\ at' = at + 2 + PixelBytes(command, n)
    /\ RowCount' = RowCount - 2 - (IF command = "color" THEN n ELSE PixelBytes(command, n))
    /\ pixel' = pixel + n
    /\ UNCHANGED <<mode, Sprite, SpriteSize, row, end>>

Pixels(command, n) ==
    /\ mode = "pixels" /\ RowCount >= 2
    /\ command \in PixelCommands
    /\ n <= Sprite.Width - pixel
    /\ PixelBytes(command, n) <= RowCount - 2
    /\ at' = at + 2 + PixelBytes(command, n)
    /\ RowCount' = RowCount - 2 - PixelBytes(command, n)
    /\ pixel' = pixel + n
    /\ UNCHANGED <<mode, Sprite, SpriteSize, row, end>>

BadPixels == mode = "pixels" /\ RowCount # 0 /\ Bad

RowDone == /\ mode = "pixels" /\ RowCount = 0
           /\ row' = row + 1 /\ mode' = "rows"
           /\ UNCHANGED <<at, Sprite, SpriteSize, RowCount, pixel, end>>

SpriteNext == \/ StartMarker
              \/ \E n \in 0..(SpriteSize + 1) : PixelRow(n)
              \/ \E n \in 0..Sprite.Height : TransparentRows(n)
              \/ EndMarker \/ BadCommand
              \/ \E command \in PixelCommands, n \in 0..Sprite.Width : Pixels(command, n)
              \/ BadPixels \/ RowDone

-----------------------------------------------------------------------------
(* Properties. *)

\* The buffer and the two counts stay in step through every command, padding
\* and row: what was read is what the counts have lost, so that the decoder
\* stops at the end of the sprite.
RowsAccounted == mode \in {"rows", "pixels", "end"} => at + RowCount + SpriteSize = end

\* Every pixel is written inside the row and the image that were allocated,
\* whatever rows are skipped.
PixelsInside == /\ row <= Sprite.Height /\ pixel <= Sprite.Width
                /\ mode = "pixels" => row < Sprite.Height
=============================================================================
