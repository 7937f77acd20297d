------------------------------ MODULE Renderer ------------------------------
(***************************************************************************)
(* Renderer: a program of libgldemo that shows a character.  A skeleton's  *)
(* bones are walked from the first one down; on the way the vertices that  *)
(* are bound to a bone are placed with the modelview matrix, which is the  *)
(* product of the transforms of the bone and of those it hangs from.       *)
(* Transforms are the bones they belong to, a product is a sequence, and   *)
(* the vertices of one binding are one thing.  Time is counted in halves   *)
(* of a frame of the animation.                                            *)
(***************************************************************************)
EXTENDS GLDemo

CONSTANTS
    Sims,          \* what the files hold: bones, meshes, motions
    MeshActivate,  \* of each mesh but the first: the bone that it is for
    Deltas,        \* times between two frames
    StackDepth     \* matrices that GL holds, the current one included: 32 or more

ASSUME SimsAssumption ==
    /\ MeshActivate \in Seq(STRING) /\ Deltas \subseteq Int /\ StackDepth \in Nat /\ StackDepth >= 2
    /\ \A s \in Sims :
          /\ s.bones \in Seq([name : STRING, parent : STRING])
          /\ s.meshes \in Seq(Seq(STRING)) /\ Len(s.meshes) = Len(MeshActivate) + 1
          /\ s.motions \in Seq([bone : STRING, frames : Nat, has : BOOLEAN])

VARIABLES
    sim,           \* the files that were read
    phase,         \* of Startup and of DrawScene
    children,      \* of the bones read so far: Bone.Children
    vertices,      \* of each binding of each mesh: raw, placed or blended
    matrix, stack, \* the modelview matrix, and those pushed
    overflow,      \* a matrix was not pushed, the stack being full
    calls,         \* TransformVertices or DrawBonesSkeleton: bone, and the next child
    AnimationTime,
    frame,         \* Frame and NextFrame of the last AdvanceFrame
    ShowSkeleton, PressedQ

scene == <<matrix, stack, overflow, calls>>
model == <<sim, children, vertices>>
time  == <<AnimationTime, frame>>
rvars == <<demovars, model, phase, scene, time, ShowSkeleton, PressedQ>>

NoSim == [bones |-> << >>, meshes |-> << >>, motions |-> << >>]

RendererInit ==
    /\ DemoInit /\ sim = NoSim /\ phase = "skeleton" /\ children = << >> /\ vertices = << >>
    /\ matrix = << >> /\ stack = << >> /\ overflow = FALSE /\ calls = << >>
    /\ AnimationTime = 0 /\ frame = <<0, 0>> /\ ShowSkeleton = TRUE /\ PressedQ = FALSE

(***************************************************************************)
(* Startup                                                                 *)
(***************************************************************************)
\* FindBone among the first n: the index, or 0 for -1.
FindBone(name, n) ==
    LET found == {i \in 1 .. n : sim.bones[i].name = name}
    IN IF found = {} THEN 0 ELSE CHOOSE i \in found : \A j \in found : i <= j

NotRead ==
    /\ phase \in {"skeleton", "mesh", "animation"} /\ Startup(FALSE)
    /\ UNCHANGED <<model, phase, scene, time, ShowSkeleton, PressedQ>>

LoadSkeleton ==
    /\ pc = "startup" /\ phase = "skeleton" /\ sim' \in Sims
    /\ phase' = IF sim'.bones = << >> THEN "mesh" ELSE "bone"
    /\ UNCHANGED <<demovars, children, vertices, scene, time, ShowSkeleton, PressedQ>>

\* A bone is given to its parent, which must come before it.
AddBone ==
    /\ pc = "startup" /\ phase = "bone"
    /\ LET b == Len(children) + 1
           Parent == FindBone(sim.bones[b].parent, b - 1)
           given == IF Parent = 0 THEN children ELSE [children EXCEPT ![Parent] = Append(@, b)]
       IN /\ children' = Append(given, << >>)
          /\ phase' = IF b = Len(sim.bones) THEN "mesh" ELSE "bone"
    /\ UNCHANGED <<demovars, sim, vertices, scene, time, ShowSkeleton, PressedQ>>

\* The coordinates are not initialized when a mesh is read.
LoadMesh ==
    /\ pc = "startup" /\ phase = "mesh"
    /\ LET m == Len(vertices) + 1
       IN /\ vertices' = Append(vertices, [k \in DOMAIN sim.meshes[m] |-> "raw"])
          /\ phase' = IF m = Len(sim.meshes) THEN "animation" ELSE "mesh"
    /\ UNCHANGED <<demovars, sim, children, scene, time, ShowSkeleton, PressedQ>>

(***************************************************************************)
(* The animation                                                           *)
(***************************************************************************)
fmod(a, b) == IF a >= 0 THEN a % b ELSE 0 - ((0 - a) % b)

Half(t) == IF t >= 0 THEN t \div 2 ELSE -1

\* Bug: there is a next frame after the last one.
NoWrap(f, n) == f + 1

NextFrame(f, n) == IF f + 1 # n THEN f + 1 ELSE 0

Motions == {i \in DOMAIN sim.motions : sim.motions[i].has /\ FindBone(sim.motions[i].bone, Len(sim.bones)) # 0}

Inside(f) == \A i \in Motions : \A j \in 1 .. 2 : f[j] >= 0 /\ f[j] < sim.motions[i].frames

(* The first motion says how many frames there are.  Just before the end   *)
(* the product of time and 30 may round to their number: it does for 47    *)
(* frames.  With no motion or no frame there is nothing to divide by.      *)
AdvanceFrame(delta, next) ==
    IF sim.motions = << >> \/ sim.motions[1].frames = 0
    THEN pc' = "undefined" /\ UNCHANGED time
    ELSE LET n == sim.motions[1].frames
             t == fmod(AnimationTime + delta, 2 * n)
         IN /\ AnimationTime' = t
            /\ \E f \in {Half(t)} \union (IF t = 2 * n - 1 THEN {n} ELSE {}) :
                  /\ frame' = <<f, NextFrame(f, n)>>
                  /\ IF Inside(frame') THEN next ELSE pc' = "undefined"

LoadAnimation ==
    /\ pc = "startup" /\ phase = "animation"
    /\ AdvanceFrame(0, pc' = "create") /\ phase' = "done"
    /\ step' = 1 /\ UNCHANGED <<platform, again, glvars, fullscreen, keys, quit>>
    /\ UNCHANGED <<model, scene, ShowSkeleton, PressedQ>>

(***************************************************************************)
(* DrawScene                                                               *)
(***************************************************************************)
\* The keys, and the camera.  Each walk pops what it pushed, and more if it was
\* not pushed, so the stack is empty, as it is in a new context.
BeginScene ==
    /\ MessagesDone
    /\ PressedQ' = ("Q" \in keys)
    /\ ShowSkeleton' = IF "Q" \in keys /\ ~PressedQ THEN ~ShowSkeleton ELSE ShowSkeleton
    /\ IF "N" \in keys THEN \E d \in TimeDeltas(Deltas) : AdvanceFrame(d, pc' = "scene")
       ELSE pc' = "scene" /\ UNCHANGED time
    /\ phase' = "meshes" /\ matrix' = <<"camera">>
    /\ UNCHANGED <<platform, step, again, glvars, fullscreen, keys, quit, model, stack, overflow, calls>>

\* GL leaves a full stack as it is, and an empty one; nobody asks for its error.
Full == Len(stack) + 1 >= StackDepth
Push == /\ stack' = IF Full THEN stack ELSE Append(stack, matrix)
        /\ overflow' = (overflow \/ Full)
Pop  == /\ IF stack = << >> THEN UNCHANGED <<matrix, stack>>
           ELSE matrix' = stack[Len(stack)] /\ stack' = SubSeq(stack, 1, Len(stack) - 1)
        /\ UNCHANGED overflow
Call(cs, b) == Append(cs, [bone |-> b, next |-> 0])

\* The meshes are drawn without the camera, and the skeleton with it.
Walk ==
    /\ pc = "scene" /\ calls = << >> /\ phase \in {"meshes", "skeleton"} /\ sim.bones # << >>
    /\ Push /\ matrix' = (IF phase = "meshes" THEN << >> ELSE matrix)
    /\ calls' = Call(<< >>, 1)
    /\ phase' = (IF phase = "meshes" THEN "vertices" ELSE "bones")
    /\ UNCHANGED <<demovars, model, time, ShowSkeleton, PressedQ>>

\* Bones[0] of a skeleton that has none.
WalkNothing ==
    /\ pc = "scene" /\ phase = "meshes" /\ sim.bones = << >>
    /\ pc' = "undefined"
    /\ UNCHANGED <<platform, step, again, glvars, fullscreen, keys, quit>>
    /\ UNCHANGED <<model, phase, scene, time, ShowSkeleton, PressedQ>>

Top == calls[Len(calls)]
Below == SubSeq(calls, 1, Len(calls) - 1)

MeshIndex(name) ==
    IF \E i \in DOMAIN MeshActivate : MeshActivate[i] = name
    THEN 1 + CHOOSE i \in DOMAIN MeshActivate : MeshActivate[i] = name
    ELSE 1

\* The first binding of the mesh that is for the bone.
IsBinding(m, k, name) ==
    sim.meshes[m][k] = name /\ \A j \in 1 .. k - 1 : sim.meshes[m][j] # name

VisitBone ==
    /\ pc = "scene" /\ calls # << >> /\ Top.next = 0
    /\ matrix' = Append(matrix, Top.bone)
    /\ calls' = [calls EXCEPT ![Len(calls)].next = 1]
    /\ LET name == sim.bones[Top.bone].name
           m == MeshIndex(name)
       IN vertices' = IF phase = "bones" THEN vertices
                      ELSE [vertices EXCEPT ![m] = [k \in DOMAIN @ |-> IF IsBinding(m, k, name) THEN "placed" ELSE @[k]]]
    /\ UNCHANGED <<demovars, sim, children, phase, stack, overflow, time, ShowSkeleton, PressedQ>>

\* Bug: the matrix is saved for three children and more.
SavesForThree(b) == Len(children[b]) > 2

Saves(b) == Len(children[b]) > 1

CallChild ==
    /\ pc = "scene" /\ calls # << >> /\ Top.next \in DOMAIN children[Top.bone]
    /\ IF Saves(Top.bone) THEN Push ELSE UNCHANGED <<stack, overflow>>
    /\ calls' = Call([calls EXCEPT ![Len(calls)].next = @ + 1], children[Top.bone][Top.next])
    /\ UNCHANGED <<demovars, model, phase, matrix, time, ShowSkeleton, PressedQ>>

Return ==
    /\ pc = "scene" /\ calls # << >> /\ Top.next = Len(children[Top.bone]) + 1
    /\ calls' = Below
    /\ IF Below = << >> \/ Saves(Below[Len(Below)].bone) THEN Pop ELSE UNCHANGED <<matrix, stack, overflow>>
    /\ phase' = IF Below # << >> THEN phase ELSE IF phase = "vertices" THEN "blend" ELSE "drawn"
    /\ UNCHANGED <<demovars, model, time, ShowSkeleton, PressedQ>>

\* BlendVertices moves the vertices where they are, and they are drawn.
BlendVertices ==
    /\ pc = "scene" /\ phase = "blend"
    /\ vertices' = [m \in DOMAIN vertices |-> [k \in DOMAIN vertices[m] |-> "blended"]]
    /\ phase' = IF ShowSkeleton THEN "skeleton" ELSE "drawn"
    /\ UNCHANGED <<demovars, sim, children, scene, time, ShowSkeleton, PressedQ>>

EndScene ==
    /\ phase = "drawn" /\ SceneDrawn /\ phase' = "done"
    /\ UNCHANGED <<model, scene, time, ShowSkeleton, PressedQ>>

Demo ==
    /\ Open \/ StepOk \/ StepFails \/ F11Down \/ KeyDown \/ KeyUp \/ Close \/ Quit
    /\ UNCHANGED <<model, phase, scene, time, ShowSkeleton, PressedQ>>

RendererNext ==
    \/ Demo \/ NotRead \/ LoadSkeleton \/ AddBone \/ LoadMesh \/ LoadAnimation
    \/ BeginScene \/ Walk \/ WalkNothing \/ VisitBone \/ CallChild \/ Return \/ BlendVertices \/ EndScene

RendererSpec == RendererInit /\ [][RendererNext]_rvars

(***************************************************************************)
(* Properties                                                              *)
(***************************************************************************)
\* The bones from the first that has no parent down to b, b included.
Path(b) ==
    LET path[i \in DOMAIN sim.bones] ==
            LET p == FindBone(sim.bones[i].parent, i - 1)
            IN IF p = 0 THEN <<i>> ELSE Append(path[p], i)
    IN path[b]

\* A bone that hangs from the first, and a binding that is looked up for it.
Bound(m, k) ==
    \E b \in DOMAIN sim.bones :
        /\ Path(b)[1] = 1
        /\ m = MeshIndex(sim.bones[b].name) /\ IsBinding(m, k, sim.bones[b].name)

(* As long as the matrices fit in GL's stack, as they do for a skeleton of *)
(* fewer bones than the stack has entries, a bone is visited with the      *)
(* product of the transforms from the first bone down to it and of no      *)
(* other; the camera is there again when it is done.  Vertices are blended *)
(* where they are, so they must have been placed again in the same frame:  *)
(* all are, but those of a second binding for a bone, of a bone that is    *)
(* not below the first one, and of a mesh that is not looked at for the    *)
(* bone.  A bone's children fit in what is allocated for those that come   *)
(* after it.                                                               *)
Placed ==
    /\ calls # << >> /\ Top.next = 1 /\ ~overflow =>
          matrix = (IF phase = "bones" THEN <<"camera">> ELSE << >>) \o Path(Top.bone)
    /\ phase \in {"blend", "drawn"} /\ ~overflow => stack = << >> /\ matrix = <<"camera">>
    /\ overflow => Len(sim.bones) >= StackDepth
    /\ phase = "blend" => \A m \in DOMAIN vertices : \A k \in DOMAIN vertices[m] :
          Bound(m, k) => vertices[m][k] = "placed"
    /\ \A b \in DOMAIN children : Len(children[b]) <= Len(sim.bones) - b

\* Frames that some motion does not have.
Uneven ==
    \/ sim.motions = << >> \/ sim.motions[1].frames = 0
    \/ \E i \in DOMAIN sim.motions : sim.motions[i].frames < sim.motions[1].frames

RoundedUp == AnimationTime = 2 * sim.motions[1].frames - 1 /\ frame[1] = sim.motions[1].frames

(* The frames that are blended are frames of the motion, but for motions   *)
(* with fewer frames than the first, for a first motion with none, and for *)
(* a time that rounds up to the end.  But for those, only a skeleton of no *)
(* bones ends the program, when it is drawn.                               *)
FramesInside == pc = "undefined" => Uneven \/ RoundedUp \/ sim.bones = << >>
=============================================================================
