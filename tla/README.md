# Verification of Niotso

TLA+ models of the parts of Niotso that have a logic of their own, the TLC
configurations that check them on small instances, and TLAPS proofs about them.
Paths are relative to `src/`.

## Inventory

| Part | State it keeps | Operations | What is hard | What makes it correct |
|---|---|---|---|---|
| RefPack decoder (`Libraries/FileHandler/far/refpack_dec.c`) | counters of input and output, two pointers, the output | one call: fetch opcode, copy literals, copy a reference | references that overlap themselves, copied in doubled blocks; truncated streams | the output is what the stream means; success means complete |
| FAR/DBPF/Persist archives (`far/far.c`) | header, doubly linked list of entries | identify, read header, add entry, enumerate, read data | links, an entry that fails half-way, sizes at their limits | list order, every entry once, bounds |
| farextract (`far/farextract.c`) | the entry it is at, its buffer | extract all, or one Persist file | one release per path of the loop | each file once, no buffer outlives its turn |
| Client life cycle (`Client/Client.cpp`, `Window`, `System`) | handles, exit code, input; the thread's class, window, queue | initialize, frame, shut down; register, create, pump | two threads; sixteen steps that may fail; a message lost before its queue exists | what is left at the end, right code, release order |
| Client graphics and audio (`Client/Graphics`, `Client/Audio`) | contexts, voices, sounds | initialize, draw text; load, play, stop, delete | releases on failure, asynchronous stop | release order, who may read freed samples and for how long |
| Login screen (`Client/Scene`) | screen, time, images, textures, sounds | construct, run, render, destroy | construction that deletes itself | each resource released once |
| Server (`Server/Server.cpp`) | socket, epoll and file descriptors, exit value | start up, receive, shut down | signals at any moment, announced datagrams that vanish, a cascade of labels | closed once, killed only with nothing open, no hang, no datagram forgotten |
| FileHandler loaders (`FileHandler/File.cpp`, `Image.cpp`, `Audio.cpp`) | `File::Error`, buffers | dispatch by format | releases on failure | one error per failure, no leak |
| XA, UTalk decoders (`xa`, `utk`) | predictor; bit reader and delay line | decode a block or a frame | sizes and indices at their edges | reads what the size function says |
| BMP, WAV, TGA, CST readers | header fields | read header, read data | RLE runs against two bounds | output filled exactly |
| IFF (`iff`) | array of chunks, parsed resources | create, read, parse, delete | array that moves, ownership of parsed data | stream position and bounds, one owner |
| libvitaboy | position in a file; skeleton, animation, meshes, a matrix stack | parse, find, transform, advance | tables passed before they are used; the bone hierarchy; times at the ends | fields in order, every vertex placed by the bones it hangs from |
| libgldemo | window, context, full screen flag | create, toggle, destroy | a start or a toggle that fails half-way; a context that is refused and not looked at | scenes drawn in a live context, what an end leaves |
| hitutils (`Tools/hitutils`) | a list of addresses; sections, symbols, relocations | disassemble, assemble, link | counts taken from one file and used on another; labels used before they are defined, in one pass | reads inside of the files, relocations that lead to their symbols |
| FARDive (`Tools/FARDive`) | an archive open or not, modified or not, its path | menu commands and dialogs | - | an alpha whose reading and saving are stubs, not modelled |
| tsoscan, iff2html, rtti-reader, others | counters | scan and print | - | formatting, not modelled |

The parts meet as follows. `farextract` and the loaders call `far.c`, which
calls RefPack for compressed entries. The client's scenes call the loaders,
audio and graphics; its message thread and main thread share an event, a result
and the input. The server is a process of its own and does not speak to the
client yet.

The hazards of the code, each at its line and with the properties that cover
it, are in `PROJECT.json`.

## Modules

| Module | Models | Kind |
|---|---|---|
| `LZ77` | what a RefPack stream means, byte by byte | abstract specification |
| `RefPack` | `RefPackDecompress` | component, implements `LZ77` |
| `Client` | `WinMain`, `Initialize` and `Shutdown` of Window, System, Graphics and Audio, `Window::Procedure`, `WndProc` | component, two threads |
| `Server` | `main` and `term` of the daemon | component and its environment |
| `FarArchive` | `far_create_archive`, `far_add_entry`, `far_enumerate_entries`, the loop of `farextract` | component and its caller |
| `FarIndex` | the arguments of `farextract`, `far_identify`, the headers, the index's cursor, Persist headers | component and its caller |
| `IffSprite`, `IffParser`, `IffFile` | the rows of sprites; the byte stream and the parsers of `iff/*.c`; the chunk list with `iffexport`, `iff2html` and `WritePNG` | three layers, each extends the one before |
| `Formats`, `FileLoader` | headers and signatures; `File::ReadImageFile`, `ReadSoundFile`, `cst_read`, the decoders, `xadecode`, `utkdecode` | data and component |
| `HitFiles`, `HitDump`, `HitAsm`, `HitTools` | file reading of the three tools; `hitdump`; `hitasm`; the three together with `hitld` | shared part, two components, their union |
| `VBFile` | the readers of VitaBoy files and `vbparse` | component |
| `GLDemo`, `Renderer` | `wgl.c` and `glx.c`; the program that draws a character in their window | framework and the program it calls |
| `Vitaboy` | - | `vbparse` or `Renderer`, for one run |
| `LoginScreen` | `LoginScreen.cpp`, `EXIT_SCENE`, the sounds of `Audio`, the memory of `StringImage` | component and the audio engine |
| `RefPackProofs`, `ServerProofs`, `FarIndexProofs`, `HitProofs`, `VitaboyProofs`, `IffFileProofs` | - | proofs about the module of that name |
| `ClientProofs`, `FileHandlerProofs` | - | proofs about `Client` and `LoginScreen`, and about `FarArchive` and `FileLoader` |
| `MC*` | - | instances for TLC |

### RefPack

The variables are those of the function; `buf` is the memory `DecompressedData`
was passed with, and `pos` and `copysource` are indices of it. `total` is the
size passed, `calls` counts calls of `memcpy` and `op` holds the three fields of
an opcode. `CompressedData` is read once from front to back, so its bytes are
chosen when they are read. Each action is one stage of the loop: the opcode,
the literals, the first copy of a reference, one turn of the loop that doubles,
its end, and the return; each early `return 0` is an action (`TruncatedOpcode`,
`ProceedingTooLong`, `BadReference`). Fields of opcodes are computed by `div`
and `%` where the code masks and shifts.

`LZ77` has an output that grows by literals or by a reference, in one step each.
`ImplementsLZ77` maps a reference in progress to the state before it, since
the copies of its blocks write above what was there.

### Client

`pc` and `wpc` are the places of the main and of the message thread.
`InitSteps` lists what the four `Initialize` do, and each step either obtains
(`Obtain`) or fails (`Fail`). A failure runs the `Shutdown` of its component and
then that of all (`todo`). `Release` is one `if(handle){...}` of a `Shutdown`;
`PostQuit` is a turn of the loop that waits for the thread. The copy of the
input is two actions because the message thread may write in between. A thread
that ends takes its window and queue along (external, Win32). `held` are the
variables that hold a handle, `open` the objects that exist: setting `Thread` to `NULL`
(`Window.cpp:85`) leaves the thread's handle open, nobody keeps the mutex's
(`Client.cpp:38`), and no `Shutdown` undoes the start of COM
(`Audio/Startup.cpp:31`). `CleanExit` lists these three and says that there is no other.

### Server

`StartUp` lists the calls of `main` with what each opens and the label it leaves
by. `Ready`, `Receive` and `ReceiveNothing` are a turn of the loop, `FallThrough`
the statements from a label on. Datagrams and signals come from outside. A
signal has an effect only on the call it interrupts, as the handler is empty.
`epoll_wait` that fails for another reason (`WaitError`) ends the loop as a signal does: the
condition of the loop does not tell them apart, and the daemon exits with
`EXIT_SUCCESS`, which no text of the repository forbids and no property denies.
The two calls of `sigaction` are one step, and the size and content of
datagrams are left out.

### FarArchive

`PrevEntry`, `NextEntry`, `FirstEntry`, `LastEntry` and `Files` are the code's;
`order` is the order the calls and the comments of `far_add_entry` say. `Edit` is
a caller of the library; the other actions are `far_enumerate_entries` and
`farextract`. What an entry contains is left out, except whether it is readable
and compressed. The three ways on from an entry (`FileExists`, `CannotOpen`, `Write`) each
release its data on their own.

### FarIndex

`index` and `IndexSize` are the code's; they wrap at `Word`, and `exhausted` says that
`IndexSize` was 0 when an entry was read, which `far_read_entry` takes for a size
it was not told. A header and an entry are chosen when they are read, with fields
that fit, that wrap and that disagree. `input` is what `RefPackDecompress` was
told to read last, and for which entry, or for a Persist file (`ARCHIVE`). The size in
the header of a Persist file is bounded from below only (`far.c:321`), so a call may be told
to read beyond the file; `InputExtent` says that of a Persist file, and of no entry
but those of size 0. `FarArchive` has the list that these entries go to.

### IFF

A parser of `iff/*.c` is a list of operations (`IffParser`): for the head of
the chunk, for an element of its array and for a part of an element. Each kind
of operation (a check, a read, a string, a table of offsets, a seek) is one action
on the stream `at`, `Size` and on `blocks`, the memory of `FormattedData`. `IffSprite` is the loop
over the commands of a sprite with its three counts, in integers that wrap.
`IffFile` has the array of chunks, where `realloc` leaves pointers without a value
(`"garbage"`), and who holds each block. A chunk that could not be read keeps what had been
set by then. A pointer without a value that `iff_delete` passes to `free` becomes
`"wild"`; what `free` does with it is undefined, and the model goes on to show which pointers
these are. Of the fields only the sizes, counts and offsets are kept.

### FileLoader

A load is a call (`ReadImageFile`, `ReadSoundFile`, `cst_read` or a transcoder), a
format picked by the first bytes, a header that is checked, and a decoder that moves
`in` and `out`. A decoder's access outside of its block ends in `"undefined"`. `held` is what is
allocated. libjpeg, libpng and mpg123 are external calls that succeed, fail or, as
libpng and libjpeg are used here, end the process. Samples and pixels are left out.

### hitutils

`HitDump`: a binary is its size, the place of the first `ENTP` and the places of all `EENT`,
before or behind it; the three files beside it are read line by line. The list of
addresses is a count against what was allocated. Nobody looks at whether its first
allocation succeeded (`hitdump.c:459`): without it (`made`) the first entry is written through
`NULL`, while one that finds the list full ends `hitdump` if there is no memory. `HitAsm`: one pass over tokens, with `symbols`, `relocs` and the four
sections. `hitld` refuses its arguments or does nothing, as in the source.

### VBFile, GLDemo, Renderer

A file of VitaBoy is a list of fields that is still to be read (`todo`); the motions
of an animation look into two tables passed before (`SeekTable`, `ReadFrame`,
`SeekBack`). A position is cut to `Word`, 2^32 in the code, where it goes through an
`unsigned` (`Cut`), while `end` counts the bytes as the file's counts have them:
`FileInOrder` speaks of `end < Word`, and beyond it the reader is taken back into the file.
`GLDemo` goes through the steps of `CreateGLWindow` of either platform and calls the
program's scene. Each step may fail; `glXMakeCurrent` may too, and nobody looks (`"refused"`).
`have` is what `KillGLWindow` gives back and `kept` what it does not: the class on
Windows, and the display, colour map and visual on X11, which a failure at the start leaves
to the end of the process (`pc = "failed"`). `Renderer` is that program: the stack
of calls over the bones, the matrix as the product of the bones it stands for, GL's
stack with its `StackDepth` matrices, and whether each binding's vertices were placed in
this frame. GL ignores a push on a full stack (`overflow`), and a skeleton of no
bones ends in `Bones[0]` (`WalkNothing`).

### LoginScreen

`stage` is that of the constructor, the frames or the destructor, and `heap` what is
allocated. `ExitScene` is the macro `EXIT_SCENE`: the destructor runs inside the
constructor. `Pass` is the audio engine (external): a voice told to stop stops then.
`crashed` is where a null pointer is used: a sound that was not created
(`LoginScreen.cpp:157` tests the array, not the element), a glyph without memory; or where
the JPEG library ends the process. `ReadImageFile` and `ReadSoundFile` leave their structure
behind when a file cannot be decoded (`"undecoded"`), as `FileLoader` shows. Nothing waits
for a voice to stop before its samples are freed: `SamplesOutlast` says that a voice
that runs has its samples, and that one that was told to stop is without them
only from the destructor to `Audio::Shutdown`.

## What the runs check

| Run | Bounds | Shows |
|---|---|---|
| `refpack` | inputs of up to 10 bytes, outputs of up to 13, 8 first bytes of opcodes covering all five kinds, offsets 1 to 3 and too large ones | `Accounting`, `CopyDisjoint`, `RepeatsHistory`, `FewCopies`, `OkIsComplete`, `ImplementsLZ77` |
| `client` | two keys | `Handshake`, `ReleaseOrder`, `CleanExit`, `ExitTells`, `Leaves` |
| `server` | a buffer of 2 datagrams, 3 datagrams and 2 signals in all | `ClosedOnce`, `KilledClean`, `Responsive`, `Drained` |
| `far_archive` | 4 nodes, entries added at either end | `InOrder`, `NoneFreed`, `EachOnce`, `NoLeftover` |
| `far_insert` | 4 nodes, entries added in the middle as well | `InOrder` is violated: see below |
| `far_index` | words of 8 bits, files of 24, 84 and 104 bytes, names of 0, 24 and 56 bytes, limit 48 | `CursorInStep`, `InputExtent` |
| `iff` | words of 7 bits, chunks of 0 to 50 bytes, 2 chunks of which one is parsed, 2 elements, 1 angle (12 in the code), sprites of 7 and 22 bytes | `StreamInside`, `Owned` |
| `loaders` | XA: 0, 1, 2, 27, 28, 29, 57 frames in 1 and 2 channels, 0 to 64 bytes; UTalk: 0, 1, 433 frames in 0, 1, 2, 15 bytes; BMP: up to 4 by 2 pixels in up to 26 bytes; CST: texts of up to 4 characters | `Inside`, `Settled`, `Ends` |
| `hit` | 18 shapes of binaries of 16 to 48 bytes, a list that has room for 2 addresses at first, 2 lines a file; sources of 6 tokens, sections of 4 bytes | `DumpInside`, `Relocatable` |
| `hit_hot` | the same | `HotUsed` is violated: see below |
| `vitaboy` | counts of 0 to 2, tables of 0, 1, 2 and 86 entries, positions of 10 bits, strings of 0 and 3 bytes; skeletons of 4 bones of every shape, one of none and one of 5, a stack of 3 matrices, two meshes, time steps of -1, 0, 1 and 5 half frames; 5.6 million states | `FileInOrder`, `InContext`, `Placed`, `FramesInside` |
| `login` | frames of 0, 1, 3 and 4 seconds | `Owned`, `SamplesOutlast` |

The bounds are enough for the interesting cases to happen. A reference of 10
bytes at offset 2 is pasted in blocks of 2, 2, 4 and 2, so the doubling and the
cut both occur; inputs of 6, 9 and 10 bytes end before, in and after
their opcodes, and 0 is an input without any. The client has no bound but the
number of keys, which are alike to it. With two datagrams in the socket a turn
that takes one leaves one, and with two signals one can be missed and the
next noticed. Four nodes have a first, a last and two in the middle.

Words of 7 and 8 bits are wide enough that a correct file does not wrap and a
wrong one can. 27, 28, 29 and 57 frames are a block of XA less and more one
and two blocks and one; 433 frames of UTalk are a window of 432 and one, and fifteen
bytes cannot fill it. The widths of BMP cover every remainder of the padding by four.
The chunk that is parsed and one beside it make the array grow by `realloc`.
Six tokens are a section, a label, and an instruction with an operand that
names it, before or after; operands of instructions that are not implemented
do not count, and every name that means something to `hitasm` can be a label
as well. Three addresses make the list of `hitdump` grow. A skeleton of four bones can be a
chain, a star, two trees, or a tree that is not below the first bone; with five, two
branches are saved at once, one more than a stack of 3 takes; five half
frames go past the end of every animation there is. A table of 86 entries of 12
or 16 bytes is longer than 1024, so a position wraps, and one of 2 does not.

The properties of the readers name the inputs they except, each a definition of its
own: `NoFrames`, `NoData`, `ShortRows`, `LongRun`, `TextWithNUL` (`FileLoader`), `Overcounted`, `Unended`
(`HitDump`), `TooManyFrames` (`VBFile`), `LostWindow` (`GLDemo`), `Uneven`, `RoundedUp` (`Renderer`). For
these the headers are accepted and do not bound what is touched; the runs show
there is no other. Three of them are wide. `LongRun` is every BMP file of RLE8, whose runs
are checked against a third of what they write. `StreamInside` leaves out a sprite of
version 1001 whose size is below that of its header, which the code reads
all the same. `Placed` says nothing of the vertices of bindings that no bone looks up (`Bound`).
The other exceptions are states and not inputs: `~made` (`HitDump`), `overflow` (`Renderer`),
`end >= Word` (`VBFile`).

Deadlock is not checked: a call returns, the client and the server exit, and
the heap of nodes fills up.

Fairness. `Client`: the main thread and the message thread are each scheduled
(weak fairness), which the operating system grants; nothing is assumed of the
user. A frame whose time is out of range changes nothing and is a stutter: it
is assumed that not all frames are. `Server`: the start-up, the loop and the
way out are each scheduled; errors, datagrams and signals need not happen.
`FileLoader`: one thread that runs (weak fairness of the next step); that the
decoders end is then a matter of their loops.

`far_insert` is a defect of the code: a node inserted in the middle of the list
is linked from one side only (`far/far.c:126-128` and `145-147`), against the
comment "Shift this node and all nodes after it above us" at line 125. The
repository's own caller adds at the end, where `far_archive` shows the links
to be right.

`hit_hot` is a divergence of code and documentation: `Design.txt:10` says that
`hitdump` names addresses "using the data provided by example.hsm, example.hot,
example.evt", but its loops over the sections of the HOT file stop at the line
end behind the section's header, before any entry (`hitdump.c:229`, `257`).

## What is proved

Each theorem is of the form `Spec => []P` (`KilledClean` and `ImplementsLZ77`: `Spec => P`) for
every value of the constants, from the assumption on them that the module declares, and each proof has an inductive
invariant (`IInv`) that TLC has checked on the instance of the run as well. Every
invariant that a run checks is a theorem. The specifications of `LoginScreen` and
`FileLoader` are `SceneSpec` and `LoadSpec`, with `SceneIInv` and `LoadIInv`.

| Module | Theorems about | For every |
|---|---|---|
| `RefPackProofs` | `TypeOK`, `Accounting`, `RepeatsHistory`, `CopyDisjoint`, `OkIsComplete`, `FewCopies`, `ImplementsLZ77` | size of input and output, HNSV, stream (`RefPackAssumption`) |
| `ClientProofs` | `Client`: `TypeOK`, `Handshake`, `ReleaseOrder`, `CleanExit`, `ExitTells`; `LoginScreen`: `Owned`, `SamplesOutlast` | keyboard; duration of the frames |
| `ServerProofs` | `TypeOK`, `ClosedOnce`, `KilledClean` | number of datagrams and signals (`ServerAssumption`) |
| `FileHandlerProofs` | `FarArchive`: `InOrder`, `NoneFreed`, `EachOnce`, `NoLeftover`, `TypeOK` | number of nodes, sequence of calls (`HeapAssumption`) |
| `FileHandlerProofs` | `FileLoader`: `Inside`, `Settled` | number of frames and channels, size of pictures and of files, text (`FormatsAssumption`, `TextsAssumption`) |
| `IffFileProofs` | `TypeOK`, `StreamInside`, `Owned` | width of the unsigned integers, number of chunks, elements, parts and angles, lengths, dimensions and offsets (`WordAssumption`, `ParserAssumption`, `ChunksAssumption`, and `KnownAssumption`: the formats are among those of the module) |
| `FarIndexProofs` | `TypeOK`, `CursorInStep`, `InputExtent` | width of the unsigned integers, contents of the file (`WordAssumption`) |
| `HitProofs` | `DumpInside`, `Relocatable` | binary, list, source and size of a section with room for a word (`HitsAssumption`, `CapacityAssumption`, `SectionAssumption`) |
| `VitaboyProofs` | `FileInOrder`, `InContext`, `FramesInside`, `Placed` | counts and lengths in a file, width of a position; bones, of none upwards, meshes and motions of a character, depth of GL's stack (`CountsAssumption`, `SimsAssumption`) |

Why the properties are not inductive by themselves, and what is:

- **RefPack.** `Doubling`: while
  bytes of a reference are left, `copylength` is the whole of what was pasted of
  it, and the newest `offset` bytes equal the `offset` bytes before the reference.
  Without that seam `RepeatsHistory` is not inductive: the next block starts
  at `copysource`, and repeats the bytes `offset` earlier only if what stands before
  the pointer is what stands before `copysource`. `Granted`: a reference has a
  length, and a result is given only at the end. `Short`: no opcode asks for
  more than 1028 bytes, so the test of bit 31 of `copylength` never matters.
  `FewCopies` needs more, `CopiesInv`: while bytes are left, `copylength` is at least
  two to the number of copies (`Doubled`), which holds at the first copy only because
  no opcode encodes a reference of one or two bytes (`Long`).
  The step into `LZ77` has one lemma per action, and `Unseen` for those that leave
  the produced output alone.
- **Client.** `Holding` says what is held at each step of the start: what the
  steps before obtained, in the order of `InitSteps`. `Releasing` says of the way out
  that what is left to do (`todo`) covers what is held in a safe order, which
  survives each `Release`, the duplicates of a component's `Shutdown` and the one of all
  included. `Threads` says how far the message thread can be, by what the main
  thread holds: this is where `Handshake` comes from. `Outcome` carries the exit code.
  `Opening`: besides what is held, only the three that no `Shutdown` closes are open.
- **Server.** What is open is a function of the call of the start-up (`Starting`),
  both descriptors in the loop (`Listening`), and exactly what the labels
  still to be fallen through close (`Closing`). `Unhandled`: as long as the
  handler is missing, nothing is open and no datagram can come, whence `KilledClean`.
- **FarArchive.** `Chained`, `Linked`, `Counted` and `Walked`: the entries are distinct, counted and all
  there are; the links follow them; the extraction is as far in them as it has visited. `InOrder` and `TypeOK` are proved
  with entries added at the ends only (`EndsOnly`), since a position in between breaks the links
  (the run `far_insert`); the other three for any position.
- **FarIndex.** The cursor and what is left of the index add up to the file
  (`Cursor`), in integers that wrap, and the data of every entry is inside of the
  file (`DataInside`). What a Persist header bounds, and what it does not, is in
  `InputExtent` as it stands.
- **hitutils.** `hitasm`: a symbol that is used is in the table
  at the index its relocation has (`Resolved`), names are not twice in it (`Distinct`),
  and a symbol has the place of its last definition, all others having been at 0, where
  the code takes it for undefined (`Valued`). `hitdump`: what is
  still to read of an instruction is inside of the binary (`Cursor`), and a
  list that is doubled entry by entry has room for the entries (`List`), with a minimal
  counterexample for the loop. As long as the list is not there, nothing is in it.
- **libvitaboy.** `FileInOrder`: where the reader is, from the table it is in and the
  frames it has read of it, with a base that is cut and is the base itself while
  the file is short enough (`CutIs`). `InContext`: what each step of `CreateGLWindow` holds on
  either platform. `Placed` is the longest proof: the children of the bones form a
  tree (`TreeInv`); the entries of the matrix stack are those of the levels of the walk
  that save (`StackAt`), so a level finds the product of its own path again, until
  the stack has overflown, for which each level adds a matrix at the most and is at
  a bone of its own (`OverflowInv`);
  and every bone below the root was visited or is below a child that a level has
  not called yet (`CoverInv`). The path of a bone is a recursive function;
  that it exists, and that every child is on it, go by a minimal
  counterexample (`WFMin` of the library).
- **FileLoader.** Where each decoder is in its input and output, by how many frames or
  rows are left (`XADecoding`: `k` whole blocks and `at` pairs of frames of the next,
  so that the last block, which may be short, ends where the size function says).
  A window of UTalk has room for a whole step wherever the loop tests for one only
  (`UTKDecoding`): 108 is even, and the places that are filled are multiples of the
  interval. A text has two carets for every string still to come (`Strings`): each
  `strchr` finds the first of those that are left, and leaves one less.
  `Opened` and `Taken` say what a library call has added to what is held, step by step.
- **IFF.** The parsers are thirty lists of operations, and a first lemma
  (`FormatsWellFormed`) shows of each list what the rest leans on: bytes are read
  unchecked only behind a check for as many, or at the head of a chunk of the least
  size. From it `InStep`: the buffer and the size add up to the chunk, and what was
  checked is there. Three parsers read what a first pass has found and check nothing:
  STR# of format -3, TMPL and the sprites of version 1001. For these the
  invariant says where the second pass is in terms of the sums of the lengths
  found (`StringsPass`, `FieldsPass`, `SpritesPass`); the sums are a recursive function, and
  that they exist, grow and step goes by a minimal counterexample (`SumsExist`,
  `TotalStep`, `TotalMonotone`). Sprites are the only place where the two fall
  out of step, inside of a sprite: the rows of a sprite end by its own size, which
  the walk has compared with the chunk (`WalkFits`), or which is what is left of it.
  `BlocksReached`: every block belongs to an element and part that the counts have, so
  that `iff_free_chunk` misses none, although a count is stored before its parts are made. `Stages`,
  `Pictures`, `Holds` and `Pointers` carry that through both tools.
- **Login screen.** `Stage` says what is made at each stage of the constructor, and
  `Freeing` what is allocated where `Owned` does not speak, and how the one file that was
  not decoded is part of it; a voice plays only while its sound is there (`Heard`).

Only model-checked:

- the liveness properties (`Leaves`, `Drained`, `Responsive`, `Ends`): the provers do not
  handle fairness, nor `ENABLED`;
- `SkipIsReadBits`, which `MCFileLoader` evaluates for small streams: a number of bits
  skipped at once is the same as in two calls;
- what the two runs that expect a violation show.

## Not modelled

- Drawing, sound synthesis and the transforms of bones are floating point with no
  control of their own; so are the placing and blending of glyphs
  (`Graphics/Font.cpp`) and the predictor of XA. Printing and HTML are formatting.
- FARDive is an alpha of a Windows interface: menus and dialogs around three flags,
  with reading and saving that are stubs. `tsoscan` and
  `rtti-reader` print what they find in foreign files, the other tools are
  experiments.
- `opngreduc.c`, `md5.c` and `xaudio2.hpp` are third-party code. `tga/hitutils.h` is an older
  copy of the one of hitutils that nothing includes; `read_tga.c` and `Text.cpp` are not
  compiled. The files of formats that are planned hold a licence only.
- `Scene::RunFor` with a tick period: no scene of the client has one.
- `wgl.c`: `ResizeScene` with a size of 0 when the window is minimised, and the
  messages about display modes. `glx.c` keeps going after F11 fails, which
  `LostWindow` names.
- `VBFile_t::Size` is set and never used: no reader compares with the end of the
  file, so `VBFile` has properties of the position only.

## Plan

Everything the inventory calls a component with a logic of its own has its module, and
every invariant that the runs check is proved. What could follow:

1. An abstract specification of the IFF chunk list (a set of chunks with one owner each)
   that `IffFile` is shown to implement, as `RefPack` implements `LZ77`.
2. `FileLoader` on top of `FarArchive` and `RefPack`: an entry that is decompressed and then
   loaded, with the sizes that pass between them.
3. TGA, once `read_tga.c` compiles, and `tsoscan`, once its counts are used for more than printing.
