----------------------------- MODULE MCVitaboy -----------------------------
EXTENDS Vitaboy

MCActivate == <<"HEAD">>
Bone(n, p) == [name |-> n, parent |-> p]
Motion(b, n, h) == [bone |-> b, frames |-> n, has |-> h]

\* Every tree, and forest, of four bones, the last two of one name or of two.
Skeletons ==
    {<<Bone("ROOT", "NULL"), Bone("HEAD", p), Bone("ARM", q), Bone(n, r)>> :
        p \in {"ROOT", "NULL"}, q, r \in {"ROOT", "HEAD", "ARM"}, n \in {"ARM", "HAND"}}
\* None, and five with a fork below a fork: more matrices than are held.
OtherSkeletons == {
    << >>,
    <<Bone("ROOT", "NULL"), Bone("HEAD", "ROOT"), Bone("ARM", "ROOT"), Bone("HAND", "ARM"), Bone("LEG", "ARM")>> }
Meshes == {<< <<"ROOT", "ARM">>, <<"HEAD">> >>}
Animations == {<<Motion("ROOT", 2, TRUE), Motion("ARM", 2, TRUE)>>}

OneSkeleton == {<<Bone("ROOT", "NULL"), Bone("HEAD", "ROOT"), Bone("ARM", "ROOT")>>}
OtherMeshes == {
    << << >>, << >> >>, << <<"HEAD", "ARM">>, <<"ARM">> >>, << <<"ARM", "ARM">>, <<"HEAD", "HEAD">> >>,
    << <<"HAND">>, <<"HEAD", "ROOT">> >> }
OtherAnimations == {
    << >>, <<Motion("ARM", 0, TRUE)>>, <<Motion("HAND", 1, TRUE), Motion("ROOT", 1, FALSE)>>,
    <<Motion("ROOT", 3, TRUE), Motion("HEAD", 1, TRUE)>>, <<Motion("ROOT", 1, TRUE), Motion("HEAD", 3, TRUE)>> }

Hold(ss, ms, as) == {[bones |-> s, meshes |-> m, motions |-> a] : s \in ss, m \in ms, a \in as}

MCSims == Hold(Skeletons \union OtherSkeletons, Meshes, Animations)
          \union Hold(OneSkeleton, OtherMeshes, Animations)
          \union Hold(OneSkeleton, Meshes, OtherAnimations)

MCDeltas == {-1, 0, 1, 5}
=============================================================================
