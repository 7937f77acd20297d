------------------------------ MODULE IffFile ------------------------------
(***************************************************************************)
(* An IFF file in memory (iff/iff.c), read by iffexport, which writes the  *)
(* data of its chunks to files, or by iff2html, which parses the chunks    *)
(* (IffParser) and writes a page with pictures of their sprites (image.c). *)
(* What is kept of memory is who holds it, and which pointers were never   *)
(* given a value: the array of chunks grows by realloc.                    *)
(***************************************************************************)
EXTENDS IffParser

CONSTANT MaxChunks  \* bound on the chunks of a file

ASSUME ChunksAssumption == MaxChunks \in Nat

VARIABLES
    tool,       \* the program: "iffexport", "iff2html"
    pc,
    Allocated,  \* SizeAllocated, in chunks
    Chunks,     \* up to ChunkCount
    chunk,      \* the chunk that is exported or shown, from 1
    picture,    \* the sprite whose picture is written, 0 for none
    held        \* what main and WritePNG hold besides the chunks

filevars == <<tool, pc, Allocated, Chunks, chunk, picture, held>>

ChunkCount == Len(Chunks)

\* Memory that main holds, and that WritePNG takes in this order.
PngSteps == <<"Image_Data", "row_pointers", "png_file", "png_ptr", "info_ptr">>
PngMemory == {PngSteps[i] : i \in 1..5}

Init == /\ tool \in {"iffexport", "iff2html"}
        /\ pc = "open" /\ Allocated = 0 /\ Chunks = <<>>
        /\ chunk = 1 /\ picture = 0 /\ held = {}
        /\ ParserInit

Goto(label) == pc' = label /\ UNCHANGED parsevars

\* The file is opened and read.
Open == /\ pc = "open"
        /\ Goto("create")
        /\ held' = {"IFFData"}
        /\ UNCHANGED <<tool, Allocated, Chunks, chunk, picture>>

\* The steps of that: the file is closed by both programs, and the memory is
\* freed by Shutdown_M of iffexport only.
NotOpened == /\ pc = "open"
             /\ Goto("done")
             /\ \/ held' = {}
                \/ tool = "iff2html" /\ held' = {"IFFData"}
             /\ UNCHANGED <<tool, Allocated, Chunks, chunk, picture>>

\* iff_create, with one chunk that is all zeros.
Create == /\ pc = "create"
          /\ Goto("header")
          /\ Allocated' = 1 /\ held' = held \cup {"Chunks"}
          /\ UNCHANGED <<tool, Chunks, chunk, picture>>

\* An error: Shutdown_M deletes the file if it was created, iff2html returns.
Error == IF tool = "iffexport" /\ "Chunks" \in held
         THEN Goto("delete") /\ UNCHANGED held
         ELSE Goto("done") /\ held' = IF tool = "iffexport" THEN {} ELSE held

NotCreated == /\ pc = "create" /\ Error
              /\ UNCHANGED <<tool, Allocated, Chunks, chunk, picture>>

ReadHeader == /\ pc = "header" /\ Goto("chunks")
              /\ UNCHANGED <<tool, Allocated, Chunks, chunk, picture, held>>

NoHeader == /\ pc = "header" /\ Error
            /\ UNCHANGED <<tool, Allocated, Chunks, chunk, picture>>

\* Memory of a chunk before it is read: calloc cleared the first, and realloc
\* clears none.
Fresh == LET pointer == IF ChunkCount = 0 THEN "NULL" ELSE "garbage"
         IN [Type |-> pointer, Size |-> IF pointer = "NULL" THEN "zero" ELSE pointer,
             Data |-> pointer, FormattedData |-> pointer]

\* Bug: the chunk that is added is not counted.
GrownLate == IF ChunkCount > Allocated THEN 2 * Allocated ELSE Allocated

\* iff_add_chunk: the array is full, and doubled.
Grown == IF ChunkCount + 1 > Allocated THEN 2 * Allocated ELSE Allocated

\* The chunk that is added, with its type and size as they are in the file.
Types == {"parsed", "other"}
Added(type, size) == [Fresh EXCEPT !.Type = type, !.Size = size]

\* iff_read_chunk; at most one chunk of the file is of a type that is parsed.
\* The data of an empty chunk is left as it is.
ReadChunk == /\ pc = "chunks" /\ ChunkCount < MaxChunks
             /\ Allocated' = Grown
             /\ \E type \in Types, size \in {"zero", "positive"} :
                   /\ type = "parsed" => \A i \in 1..ChunkCount : Chunks[i].Type # "parsed"
                   /\ Chunks' = Append(Chunks, [Added(type, size) EXCEPT !.FormattedData = "NULL",
                                                 !.Data = IF size = "zero" THEN @ ELSE "data"])
             /\ UNCHANGED <<tool, pc, chunk, picture, held, parsevars>>

\* The array cannot grow; or what is left is too short for a chunk, its size is
\* wrong, or there is no memory for its data.  The chunk was added before it was
\* read, and keeps what had been read of it by then.
BadChunk == /\ pc = "chunks" /\ ChunkCount < MaxChunks
            /\ \/ UNCHANGED <<Allocated, Chunks>> /\ ChunkCount + 1 > Allocated
               \/ /\ Allocated' = Grown
                  /\ \E type \in Types :
                        \/ Chunks' = Append(Chunks, Fresh)
                        \/ \E size \in {"zero", "positive"} : Chunks' = Append(Chunks, Added(type, size))
                        \/ Chunks' = Append(Chunks, [Added(type, "positive") EXCEPT !.Data = "NULL"])
            /\ Error
            /\ UNCHANGED <<tool, chunk, picture>>

\* iff_enumerate_chunks: nothing is left of the file.
Enumerated == /\ pc = "chunks"
              /\ held' = held \ {"IFFData"}
              /\ Goto(IF tool = "iffexport" THEN "export" ELSE "parse")
              /\ UNCHANGED <<tool, Allocated, Chunks, chunk, picture>>

\* iff_parse_chunk by iff2html: a type that is not in chunktypes is left alone.
ParseFirst == /\ pc = "parse" /\ result = "none"
              /\ \E i \in 1..ChunkCount : Chunks[i].Type = "parsed"
              /\ LET known == CHOOSE i \in 1..ChunkCount : Chunks[i].Type = "parsed"
                 IN \E format \in Formats, size \in Sizes :
                       (Chunks[known].Size = "zero" <=> size = 0) /\ ParseChunk(format, size)
              /\ UNCHANGED filevars

Parse == pc = "parse" /\ ParserNext /\ UNCHANGED filevars

\* FormattedData of the chunk that was parsed.
Formatted(c) == IF c.Type = "parsed" /\ <<>> \in blocks THEN [c EXCEPT !.FormattedData = "made"] ELSE c

ParsedAll == /\ pc = "parse" /\ ~Parsing
             /\ (\E i \in 1..ChunkCount : Chunks[i].Type = "parsed") => result # "none"
             /\ Chunks' = [i \in 1..ChunkCount |-> Formatted(Chunks[i])]
             /\ Goto("output")
             /\ UNCHANGED <<tool, Allocated, chunk, picture, held>>

\* The page is opened; its file may exist, and the answer be no.
OpenPage == /\ pc = "output"
            /\ Goto("page") /\ held' = held \cup {"page"}
            /\ UNCHANGED <<tool, Allocated, Chunks, chunk, picture>>

NoPage == /\ pc = "output" /\ Error
          /\ UNCHANGED <<tool, Allocated, Chunks, chunk, picture>>

Shown == Chunks[chunk]
Showing == pc = "page" /\ chunk <= ChunkCount /\ picture = 0
HasPictures == Shown.FormattedData = "made" /\ f.type \in {"SPR#", "SPR2"} /\ elements > 0

\* A chunk without a picture.
ShowChunk == /\ Showing /\ ~HasPictures
             /\ chunk' = chunk + 1
             /\ UNCHANGED <<tool, pc, Allocated, Chunks, picture, held, parsevars>>

\* A BMP_ or FBMP chunk, decoded into memory of WritePNG's own.
ShowBitmap == /\ Showing /\ Shown.Type = "other" /\ Shown.Data = "data"
              /\ Goto("png") /\ held' = held \cup {"Image_Data"}
              /\ UNCHANGED <<tool, Allocated, Chunks, chunk, picture>>

\* iff_depalette, which frees what it made when an index is not in the palette.
Depalette(sprite) == blocks' = blocks \cup {<<sprite, 0, 3>>}

\* A sprite without dimensions has no IndexData.
ShowSprite == /\ pc = "page" /\ chunk <= ChunkCount /\ HasPictures /\ picture < elements
              /\ picture' = picture + 1
              /\ \/ UNCHANGED <<pc, blocks>>
                 \/ /\ <<picture', 0, 1>> \in blocks
                    /\ Depalette(picture')
                    /\ pc' = "png"
              /\ UNCHANGED <<tool, Allocated, Chunks, chunk, held,
                             input, stream, place, counts, result, spritevars>>

SpritesShown == /\ pc = "page" /\ picture > 0 /\ picture = elements
                /\ picture' = 0 /\ chunk' = chunk + 1
                /\ UNCHANGED <<tool, pc, Allocated, Chunks, held, parsevars>>

WritingPng == pc \in {"png", "png_z"}

\* WritePNG takes what it needs in order.
PngStep == /\ WritingPng
           /\ \E i \in 2..5 : /\ PngSteps[i] \notin held
                              /\ \A j \in 2..(i - 1) : PngSteps[j] \in held
                              /\ held' = held \cup {PngSteps[i]}
           /\ UNCHANGED <<tool, pc, Allocated, Chunks, chunk, picture, parsevars>>

\* The file is complete, or a step fails, or libpng jumps back: what was taken
\* is released.  The Z-buffer of a sprite follows its picture.
WritePNG == /\ WritingPng
            /\ held' = held \ PngMemory
            /\ chunk' = IF picture = 0 THEN chunk + 1 ELSE chunk
            /\ Goto(IF pc = "png" /\ picture > 0 /\ <<picture, 0, 2>> \in blocks THEN "png_z" ELSE "page")
            /\ UNCHANGED <<tool, Allocated, Chunks, picture>>

EndPage == /\ pc = "page" /\ chunk > ChunkCount
           /\ Goto("delete")
           /\ UNCHANGED <<tool, Allocated, Chunks, chunk, picture, held>>

-----------------------------------------------------------------------------
(* iffexport. *)

Export == /\ pc = "export" /\ chunk <= ChunkCount
          /\ chunk' = chunk + 1
          /\ UNCHANGED <<tool, pc, Allocated, Chunks, picture, held, parsevars>>

\* Not overwritten (which is asked for the first chunk), or not opened.
NotExported == /\ pc = "export" /\ chunk <= ChunkCount
               /\ Error
               /\ UNCHANGED <<tool, Allocated, Chunks, chunk, picture>>

Exported == /\ pc = "export" /\ chunk > ChunkCount
            /\ Goto("delete")
            /\ UNCHANGED <<tool, Allocated, Chunks, chunk, picture, held>>

\* realloc left it without a value.
Unset(pointer) == pointer \in {"garbage", "wild"}

\* What free makes of a pointer: "wild" is one that was passed to it without a
\* value.  What that does is undefined; the program is taken to go on.
Released(pointer) == CASE pointer = "NULL" -> "NULL"
                       [] Unset(pointer) -> "wild"
                       [] OTHER -> "freed"

\* iff_free_chunk finds the function that frees FormattedData by the type, which
\* may match by chance if it has no value.
Deleted(c, matches) == [c EXCEPT !.Data = Released(@),
                                 !.FormattedData = IF c.Type = "parsed" \/ (c.Type = "garbage" /\ matches)
                                                   THEN Released(@) ELSE @]

\* iff_delete, and what main still holds.
Delete == /\ pc = "delete" /\ pc' = "done"
          /\ \E matches \in BOOLEAN : Chunks' = [i \in 1..ChunkCount |-> Deleted(Chunks[i], matches)]
          /\ held' = {}
          /\ blocks' = blocks \ Reached
          /\ UNCHANGED <<tool, Allocated, chunk, picture,
                         input, stream, place, counts, result, spritevars>>

Next == \/ Open \/ NotOpened \/ Create \/ NotCreated \/ ReadHeader \/ NoHeader
        \/ ReadChunk \/ BadChunk \/ Enumerated
        \/ ParseFirst \/ Parse \/ ParsedAll
        \/ OpenPage \/ NoPage \/ ShowChunk \/ ShowBitmap \/ ShowSprite \/ SpritesShown
        \/ PngStep \/ WritePNG \/ EndPage
        \/ Export \/ NotExported \/ Exported \/ Delete

Spec == Init /\ [][Next]_<<filevars, parsevars>>

-----------------------------------------------------------------------------
(* Properties. *)

\* The array of chunks has room for those that were added, and the state is
\* otherwise what the code can hold.
TypeOK == /\ ChunkCount <= Allocated
          /\ chunk \in 1..(ChunkCount + 1) \/ pc = "done"
          /\ at \in Nat /\ Size \in 0..(Word - 1) /\ SpriteSize \in 0..(Word - 1) /\ RowCount \in Nat
          /\ elements \in Nat /\ picture \in 0..MaxElements
          /\ place.part <= PartsHere
          /\ held \subseteq {"IFFData", "Chunks", "page"} \cup PngMemory

\* What was allocated has one owner to the end: what a parser made is freed when
\* it fails and by iff_delete (iff.c:196, 234) with the data of the chunks,
\* WritePNG leaves nothing (image.c:81) and iffexport ends with nothing.  The
\* pointers realloc left without a value are the Data of an empty chunk behind
\* the first, and both of a last chunk that could not be read: these, and no
\* others, iff_delete passes to free all the same.
Owned == /\ FailedIsFreed
         /\ pc = "done" /\ "Chunks" \notin held => blocks = {}
         /\ pc = "done" /\ tool = "iffexport" => held = {}
         /\ pc = "page" => held \cap PngMemory = {}
         /\ \A i \in 1..ChunkCount :
               LET c == Chunks[i]
               IN /\ Unset(c.FormattedData) => i > 1 /\ i = ChunkCount /\ pc \in {"delete", "done"}
                  /\ Unset(c.Data) => i > 1 /\ (c.Size = "zero" \/ Unset(c.FormattedData))
                  /\ pc = "done" /\ "Chunks" \notin held => c.Data # "data" /\ c.FormattedData # "made"
=============================================================================
