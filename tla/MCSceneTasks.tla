---------------------------- MODULE MCSceneTasks ----------------------------
(* Two scenes to start from: two objects that share a mesh and a camera, and a rigged
   character from the library among objects of the user's that have the names which the tools
   take for their own: linked copies of the part called AI_Ground and ShotCamera, a lamp called
   ShotTarget, an empty called AI_Neon. *)
EXTENDS SceneTasks

Empty == [obj |-> <<>>, data |-> <<>>, mats |-> <<>>, camera |-> None,
          set |-> [k \in Shown \cup Unseen |-> 0]]

Plainly == [o |-> None, p |-> None, opt |-> "active", bad |-> None]

Pair   == LET cube == WithMaterial(CreatePrimitive(CreateCamera(Empty, Plainly).scene, Plainly).scene, "m")
              o    == CHOOSE x \in Meshes(cube) : TRUE
          IN  Instanced(Slotted(cube, o, "m"), o, NewName(cube), None)

Staged == LET rigged == CharacterLibrary(Empty, Plainly).scene
              part   == CHOOSE x \in Meshes(rigged) : TRUE
              copied == Instanced(Instanced(rigged, part, "AI_Ground", None), part, "ShotCamera", None)
          IN  Linked(Linked(copied, "ShotTarget", "LIGHT"), "AI_Neon", "EMPTY")

MCScenes == {Pair, Staged}
=============================================================================
