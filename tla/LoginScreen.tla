---------------------------- MODULE LoginScreen ----------------------------
(***************************************************************************)
(* The login screen, from "new LoginScreen" to the Shutdown that follows   *)
(* its deletion: what it takes from the heap, from GL and from the audio   *)
(* engine, and who gives it back.  Every file, allocation and call of      *)
(* XAudio2 may fail.  The audio engine runs on threads of its own.         *)
(***************************************************************************)
EXTENDS Integers

CONSTANTS TimeDeltas    \* the seconds a frame may take (WinMain skips 5 and more)

VARIABLES
    stage,         \* the stage of the scene's life
    i,             \* the loop variable of that stage
    heap,          \* what is allocated and not freed
    image,         \* the indices of image[] that are not NULL
    sound,         \* the indices of sound[] that are not NULL
    Playing,       \* the sounds whose Playing is set
    voices,        \* what the engine does with the voice of each sound
    SceneFailed,   \* System::SceneFailed
    Screen, Time,  \* the screen shown, and for how many seconds
    ScrollPos      \* in quarters of a status string

memory == <<heap, image>>
audio == <<sound, Playing, voices>>
shown == <<Screen, Time, ScrollPos>>
scenevars == <<stage, i, memory, audio, SceneFailed, shown>>

ScreenFiles == 0..2
IMG_COUNT == 10
SND_COUNT == 1
Images == 0..(IMG_COUNT - 1)
Sounds == 0..(SND_COUNT - 1)

SceneInit == /\ stage = "new" /\ i = 0 /\ heap = {} /\ image = {} /\ sound = {}
             /\ Playing = {} /\ voices = [s \in Sounds |-> "none"] /\ SceneFailed = FALSE
             /\ Screen = "EAGames" /\ Time = 0 /\ ScrollPos = -4

-----------------------------------------------------------------------------
(* The constructor. *)

\* EXIT_SCENE: delete this.
ExitScene == stage' = "destroy" /\ SceneFailed' = TRUE /\ UNCHANGED i

\* A loop of n turns goes on, or the next stage begins.
Turn(n, here, after) == IF i + 1 < n THEN i' = i + 1 /\ stage' = here
                                     ELSE i' = 0 /\ stage' = after

New == /\ stage = "new"
       /\ heap' = {<<"scene", 0>>, <<"textures", 0>>}
       /\ stage' = "image"
       /\ UNCHANGED <<i, image, audio, SceneFailed, shown>>

\* The operator new of Client.cpp returns what malloc does.  The compiler need
\* not expect NULL of it, and the constructor may run on NULL.
NewFails == /\ stage = "new"
            /\ stage' \in {"crashed", "shutdown"}
            /\ UNCHANGED <<i, memory, audio, SceneFailed, shown>>

ReadImage == /\ stage = "image"
             /\ heap' = heap \cup {<<"file", i>>}
             /\ stage' = "texture"
             /\ UNCHANGED <<i, image, audio, SceneFailed, shown>>

\* ReadImageFile and ReadSoundFile leave their structure behind when the file is
\* there and cannot be decoded.
ReadFails == /\ stage \in {"image", "sound"}
             /\ ExitScene
             /\ heap' \in {heap, heap \cup {<<"undecoded", i>>}}
             /\ UNCHANGED <<image, audio, shown>>

\* The errors of the JPEG library end the process.
ReadExits == /\ stage = "image"
             /\ stage' = "crashed"
             /\ UNCHANGED <<i, memory, audio, SceneFailed, shown>>

TexImage == /\ stage = "texture"
            /\ heap' = heap \ {<<"file", i>>}
            /\ Turn(3, "image", "string")
            /\ UNCHANGED <<image, audio, SceneFailed, shown>>

\* The copyright notice is image 0, the nine status strings follow.
StringImage == /\ stage = "string"
               /\ heap' = heap \cup {<<"image", i>>, <<"pixels", i>>}
               /\ image' = image \cup {i}
               /\ stage' = "upload"
               /\ UNCHANGED <<i, audio, SceneFailed, shown>>

\* Bug: the image is left when its pixels cannot be had.
StringImageLeaks == /\ stage = "string"
                    /\ ExitScene
                    /\ heap' = heap \cup {<<"image", i>>}
                    /\ UNCHANGED <<image, audio, shown>>

\* No memory for the image or for its pixels: what was had is given back.
StringImageFails == /\ stage = "string"
                    /\ ExitScene
                    /\ UNCHANGED <<memory, audio, shown>>

\* DrawText (on the second file) and StringImage do not look at what malloc
\* gives them for a glyph.
GlyphFails == /\ \/ stage = "string"
                 \/ stage = "texture" /\ i = 1
              /\ stage' = "crashed"
              /\ UNCHANGED <<i, memory, audio, SceneFailed, shown>>

UploadString == /\ stage = "upload"
                /\ heap' = heap \ {<<"pixels", i>>}
                /\ Turn(IMG_COUNT, "string", "sound")
                /\ UNCHANGED <<image, audio, SceneFailed, shown>>

ReadSound == /\ stage = "sound"
             /\ heap' = heap \cup {<<"Sound", i>>, <<"samples", i>>}
             /\ stage' = "load"
             /\ UNCHANGED <<i, image, audio, SceneFailed, shown>>

\* Bug: the samples go with the Sound_t, as the pixels of a texture do.
LoadSoundFreesSamples == /\ stage = "load"
                         /\ heap' = (heap \ {<<"Sound", i>>, <<"samples", i>>}) \cup {<<"playable", i>>}
                         /\ sound' = sound \cup {i}
                         /\ voices' = [voices EXCEPT ![i] = "ready"]
                         /\ stage' = "play"
                         /\ UNCHANGED <<i, image, Playing, SceneFailed, shown>>

\* LoadSound takes the samples over; the Sound_t is freed.
LoadSound == /\ stage = "load"
             /\ heap' = (heap \ {<<"Sound", i>>}) \cup {<<"playable", i>>}
             /\ sound' = sound \cup {i}
             /\ voices' = [voices EXCEPT ![i] = "ready"]
             /\ stage' = "play"
             /\ UNCHANGED <<i, image, Playing, SceneFailed, shown>>

\* It returns NULL, before it had a voice or after; "if(!sound)" is of the array.
LoadSoundFails == /\ stage = "load"
                  /\ heap' = heap \ {<<"Sound", i>>}
                  /\ \E v \in {"none", "ready"} : voices' = [voices EXCEPT ![i] = v]
                  /\ stage' = "play"
                  /\ UNCHANGED <<i, image, sound, Playing, SceneFailed, shown>>

PlaySound == /\ stage = "play" /\ i \in sound
             /\ i \notin Playing
             /\ voices' = [voices EXCEPT ![i] = "started"]
             /\ Playing' = Playing \cup {i}
             /\ Turn(SND_COUNT, "sound", "frame")
             /\ UNCHANGED <<memory, sound, SceneFailed, shown>>

StartFails == /\ stage = "play" /\ i \in sound
              /\ Turn(SND_COUNT, "sound", "frame")
              /\ UNCHANGED <<memory, audio, SceneFailed, shown>>

\* PlaySound looks at the Playing of NULL.
PlayNull == /\ stage = "play" /\ i \notin sound
            /\ stage' = "crashed"
            /\ UNCHANGED <<i, memory, audio, SceneFailed, shown>>

-----------------------------------------------------------------------------
(* The frames. *)

\* A screen lasts four seconds; the status strings scroll from the start on,
\* three quarters of a string a second.  Time goes on in the last screen too,
\* where nothing reads it; the model keeps it still.
Run(TimeDelta) ==
    LET over == Screen # "Setup" /\ Time + TimeDelta >= 4 IN
    /\ Time' = IF over THEN 0 ELSE IF Screen = "Setup" THEN Time ELSE Time + TimeDelta
    /\ Screen' = CASE ~over -> Screen
                   [] over /\ Screen = "EAGames" -> "Maxis"
                   [] OTHER -> "Setup"
    /\ ScrollPos' = IF ScrollPos + 3 * TimeDelta > 32 THEN 32 ELSE ScrollPos + 3 * TimeDelta

\* A frame runs and renders, or asks to leave when the window is to be closed.
Frame(TimeDelta) == /\ stage = "frame"
                    /\ Run(TimeDelta)
                    /\ stage' \in {"frame", "destroy"}
                    /\ UNCHANGED <<i, memory, audio, SceneFailed>>

-----------------------------------------------------------------------------
(* The destructor, and Audio::Shutdown. *)

FreeImages == /\ stage = "destroy"
              /\ heap' = heap \ ({<<"textures", 0>>} \cup {<<"image", n>> : n \in image})
              /\ i' = 0 /\ stage' = "stop"
              /\ UNCHANGED <<image, audio, SceneFailed, shown>>

\* DeleteSound: a playing voice is asked to stop.  It stops at the engine's
\* next pass, or not at all when the call fails; Playing is reset either way.
DeleteSound == /\ stage = "stop" /\ i \in sound
               /\ \E v \in {"stopping", "refused"} :
                     voices' = [voices EXCEPT ![i] = IF i \in Playing THEN v ELSE @]
               /\ Playing' = Playing \ {i}
               /\ stage' = "free"
               /\ UNCHANGED <<i, memory, sound, SceneFailed, shown>>

FreeSound == /\ stage = "free"
             /\ heap' = heap \ {<<"samples", i>>, <<"playable", i>>}
             /\ Turn(SND_COUNT, "stop", "gone")
             /\ UNCHANGED <<image, audio, SceneFailed, shown>>

NoSound == /\ stage = "stop" /\ i \notin sound
           /\ Turn(SND_COUNT, "stop", "gone")
           /\ UNCHANGED <<memory, audio, SceneFailed, shown>>

\* WinMain goes to Shutdown, from the loop or because of SceneFailed.
FreeScene == /\ stage = "gone"
             /\ heap' = heap \ {<<"scene", 0>>}
             /\ stage' = "shutdown"
             /\ UNCHANGED <<i, image, audio, SceneFailed, shown>>

\* No voice is ever destroyed: they end with the engine.
Shutdown == /\ stage = "shutdown"
            /\ voices' = [s \in Sounds |-> "none"]
            /\ stage' = "exit"
            /\ UNCHANGED <<i, memory, sound, Playing, SceneFailed, shown>>

\* A pass of the audio engine.
Pass == \E s \in Sounds :
           /\ voices[s] = "stopping" /\ stage # "crashed"
           /\ voices' = [voices EXCEPT ![s] = "ready"]
           /\ UNCHANGED <<stage, i, memory, sound, Playing, SceneFailed, shown>>

Construct == \/ New \/ NewFails \/ ReadImage \/ ReadFails \/ ReadExits \/ TexImage
             \/ StringImage \/ StringImageFails \/ GlyphFails \/ UploadString
             \/ ReadSound \/ LoadSound \/ LoadSoundFails \/ PlaySound \/ StartFails \/ PlayNull

Destroy == FreeImages \/ DeleteSound \/ FreeSound \/ NoSound \/ FreeScene

SceneNext == Construct \/ (\E TimeDelta \in TimeDeltas : Frame(TimeDelta)) \/ Destroy \/ Shutdown \/ Pass

SceneSpec == SceneInit /\ [][SceneNext]_scenevars

-----------------------------------------------------------------------------
(* Properties. *)

\* What the scene points at, and what the stage it is at has in hand.
Members == {<<"image", n>> : n \in image}
             \cup {<<"playable", s>> : s \in sound} \cup {<<"samples", s>> : s \in sound}
InHand == IF stage = "texture" THEN {<<"file", i>>}
          ELSE IF stage = "upload" THEN {<<"pixels", i>>}
          ELSE IF stage = "load" THEN {<<"Sound", i>>, <<"samples", i>>} ELSE {}

\* The structures of files that were read and could not be decoded.
Undecoded == {<<"undecoded", n>> : n \in ScreenFiles}

\* Whichever file, allocation or call fails, the scene's pointers are to what
\* is allocated and to all of it, until it is deleted, though a scene that fails
\* is deleted inside its constructor.  All that may be left then is the structure
\* of the one file that could not be decoded, in a scene that failed.  A screen
\* that draws the strings has them.
Owned ==
    /\ stage \in {"image", "texture", "string", "upload", "sound", "load", "frame"} =>
          heap = {<<"scene", 0>>, <<"textures", 0>>} \cup Members \cup InHand
    /\ stage = "destroy" =>
          heap \ Undecoded = {<<"scene", 0>>, <<"textures", 0>>} \cup Members
    /\ stage \in {"shutdown", "exit"} => heap \subseteq Undecoded
    /\ heap \intersect Undecoded # {} => SceneFailed
    /\ \A x, y \in heap \intersect Undecoded : x = y
    /\ stage = "frame" => ~SceneFailed
    /\ stage = "frame" /\ Screen = "Setup" => image = Images

\* The engine reads the samples where the file was decoded to, in the whole of
\* the scene's life.  They are there as long as a voice runs that was not told to
\* stop.  One that was told may read what is freed, until its next pass, or when it
\* has refused to stop; but no longer than from ~LoginScreen to Audio::Shutdown.
SamplesOutlast ==
    \A s \in Sounds : voices[s] \in {"started", "stopping", "refused"} =>
        \/ <<"samples", s>> \in heap
        \/ voices[s] # "started" /\ stage \in {"stop", "gone", "shutdown"}
=============================================================================
