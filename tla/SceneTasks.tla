------------------------------ MODULE SceneTasks ------------------------------
(***************************************************************************)
(* The tools under the task ledger: what a sequence of calls does to the   *)
(* scene, to Blender's undo steps and to the task.                         *)
(***************************************************************************)
EXTENDS ToolCalls, TaskLedger

CONSTANT MaxCalls   \* bound: calls in a behaviour that change something

VARIABLES
  calls,   \* how many calls changed something
  last,    \* the sort of tool that made the last change, its risk, and whether it failed
  failed   \* history: a call failed after it had changed something

taskVars == <<vars, calls, last, failed>>

\* The tools that the properties tell apart: those that make a shared mesh single-user first, those
\* that set what belongs to a mesh without asking who uses it, and those with names of their own.
Unsharing == {"mesh_edit", "apply_transform", "set_origin", "polish_model", "rig_character", "create_prop"}
Surfaces  == {"set_shading", "unwrap_uv"}
Paints    == {"set_material", "assign_material"}

Sort(tool) ==
  CASE tool \in Unsharing         -> "unsharing"
    [] tool \in Surfaces          -> "surface"
    [] tool \in Paints            -> "paint"
    [] tool = "join_objects"      -> "joining"
    [] tool = "render_shots"      -> "film"
    [] tool = "set_environment"   -> "light"
    [] tool = "camera_move"       -> "camera"
    [] OTHER                      -> "plain"

NoCall == [sort |-> None, risk |-> None, failed |-> FALSE]

\* What scene_snapshot.take reads.
Visible(s) ==
  [obj    |-> [o \in Objects(s) |->
                 [kind |-> Kind(s, o), parent |-> Parent(s, o), pose |-> s.obj[o].pose,
                  mods |-> DOMAIN s.obj[o].mods, count |-> Data(s, o).count, mat |-> Data(s, o).mat]],
   mats   |-> DOMAIN s.mats,
   camera |-> s.camera,
   set    |-> [k \in Shown |-> s.set[k]]]

-----------------------------------------------------------------------------
(* Scenes of Blender's *)

Kinds == {"MESH", "CAMERA", "LIGHT", "EMPTY"}

\* A scene, its objects and its data have their fields.
Formed(s) ==
  /\ s = [obj |-> s.obj, data |-> s.data, mats |-> s.mats, camera |-> s.camera, set |-> s.set]
  /\ s.obj = [o \in Objects(s) |-> s.obj[o]] /\ IsFiniteSet(Objects(s)) /\ None \notin Objects(s)
  /\ \A o \in Objects(s) :
       s.obj[o] = [kind |-> s.obj[o].kind, data |-> s.obj[o].data, parent |-> s.obj[o].parent,
                   pose |-> s.obj[o].pose, mods |-> s.obj[o].mods, roles |-> s.obj[o].roles]
  /\ s.data = [d \in DOMAIN s.data |-> s.data[d]] /\ IsFiniteSet(DOMAIN s.data) /\ DOMAIN s.data \subseteq Nat \ {NoData}
  /\ \A d \in DOMAIN s.data : s.data[d] = [count |-> s.data[d].count, form |-> s.data[d].form, mat |-> s.data[d].mat]
  /\ s.mats = [m \in DOMAIN s.mats |-> s.mats[m]]
  /\ s.set = [k \in DOMAIN s.set |-> s.set[k]]

\* What an object, a datum or the scene refers to is there and of its kind: no light has the
\* data of a mesh.
Referred(s) ==
  /\ \A o \in Objects(s) :
       /\ s.obj[o].kind \in Kinds
       /\ s.obj[o].parent \in Objects(s) \cup {None}
       /\ IF s.obj[o].kind = "EMPTY" THEN s.obj[o].data = NoData ELSE s.obj[o].data \in DOMAIN s.data
  /\ \A o, x \in Objects(s) : s.obj[x].data = s.obj[o].data => s.obj[x].kind = s.obj[o].kind
  /\ \A d \in DOMAIN s.data : s.data[d].mat \in DOMAIN s.mats \cup {None}
  /\ s.camera # None => s.camera \in Objects(s) /\ s.obj[s.camera].kind = "CAMERA"

\* Objects can be ranked so that each is above the ones it hangs under.
Ranked(s, ranks) ==
  \E r \in [Objects(s) -> ranks] :
    \A o \in Objects(s) : s.obj[o].parent # None => r[s.obj[o].parent] < r[o]

ASSUME ScenesAssumption ==
  \A s \in Scenes : Formed(s) /\ Referred(s) /\ Ranked(s, 1..Cardinality(Objects(s)))

ASSUME CallsAssumption == MaxCalls \in Nat

-----------------------------------------------------------------------------

TaskInit == Init /\ calls = 0 /\ last = NoCall /\ failed = FALSE

\* Bound: an argument that names no object is the next free name.
Names0(s) == Objects(s) \cup {None} \cup IF Names \subseteq Objects(s) THEN {} ELSE {NewName(s)}

\* A call that the dispatcher refuses (no such tool, arguments that its schema has not) does
\* nothing at all; one that changes nothing may still open a task.
Use(a) ==
  /\ calls < MaxCalls
  /\ {a.o, a.p} \subseteq Names0(scene)
  /\ Cardinality(Names \ Objects(scene)) >= Adds(a)
  /\ \E out \in {Effect(scene, a)} :
       LET idle == out.scene = scene /\ out.steps = <<>>
       IN  /\ Dispatch([scene |-> out.scene, steps |-> out.steps])
           /\ calls' = IF idle THEN calls ELSE calls + 1
           /\ last' = IF idle THEN last ELSE [sort |-> Sort(a.tool), risk |-> a.risk, failed |-> out.error # None]
           /\ failed' = (failed \/ (~idle /\ out.error # None))

TaskNext ==
  \/ \E a \in Calls : Use(a)
  \/ Rollback /\ last' = NoCall /\ calls' = MaxCalls /\ UNCHANGED failed   \* bound: nothing follows

TaskSpec == TaskInit /\ [][TaskNext]_taskVars

-----------------------------------------------------------------------------
(* Properties *)

Called == calls' = calls + 1 /\ last' # NoCall   \* a call changed something

\* Every name that the scene holds stands for something that is there, and however objects are
\* hung under one another, none comes to hang under itself (ModelingMutator.parent_object walks
\* up to the root; Blender clears a loop elsewhere).
SceneSound ==
  /\ \A o \in Objects(scene) :
       /\ Parent(scene, o) \in Objects(scene) \cup {None}
       /\ Parent(scene, o) # None => o \notin Above(scene, Parent(scene, o))
       /\ Kind(scene, o) # "EMPTY" => scene.obj[o].data \in DOMAIN scene.data
       /\ Data(scene, o).mat \in DOMAIN scene.mats \cup {None}
  /\ Kind(scene, scene.camera) \in {"CAMERA", None} /\ (scene.camera # None => scene.camera \in Objects(scene))

\* The fields of the meshes that a tool of that sort sets however many objects use the mesh:
\* shading and UV map, material slot, and all of a mesh that has the name of the ground.
Fields == {"count", "form", "mat"}

Reached(sort, s) ==
  CASE sort = "surface"          -> (DOMAIN s.data) \X {"form"}
    [] sort = "paint"            -> (DOMAIN s.data) \X {"mat"}
    [] sort \in {"light", "film"} -> {s.obj[o].data : o \in {"AI_Ground"} \cap Meshes(s)} \X Fields
    [] OTHER                     -> {}

\* What no call changes under the other objects that use a mesh.  A mesh that several objects use
\* before and after a call keeps its geometry, shading, UV map and material slot, all but the fields
\* that the tool is known to reach: modelling tools copy it first and change nothing
\* (ModelingMutator._unique_mesh), set_shading and unwrap_uv change its surface and the material
\* tools its slot, for all of its users.
Users(s, d) == {o \in Meshes(s) : s.obj[o].data = d}

SharedDataKept ==
  [][Called => \A o \in Meshes(scene) :
       LET d == scene.obj[o].data
       IN  Cardinality(Users(scene, d)) > 1 /\ Cardinality(Users(scene', d)) > 1 =>
             \A f \in Fields : <<d, f>> \notin Reached(last'.sort, scene) => scene'.data[d][f] = scene.data[d][f]]_taskVars

\* What a user may expect of a linked copy, and what the code does not keep: no call changes a
\* mesh that other objects go on to use.  set_shading, unwrap_uv, the material tools and a ground
\* drawn over a mesh called AI_Ground do.
CopiesApart ==
  [][Called => \A o \in Meshes(scene) :
       LET d == scene.obj[o].data
       IN  Cardinality(Users(scene, d)) > 1 /\ Cardinality(Users(scene', d)) > 1 => scene'.data[d] = scene.data[d]]_taskVars

\* One successful call is one Ctrl+Z: it records its own result once, or nothing when it changed
\* nothing but the samples of a render; a call that failed records nothing.  Only render_shots
\* records one step for each part of the film.
Same(s, t) == [s EXCEPT !.set.samples = 0] = [t EXCEPT !.set.samples = 0]

OneStepEach ==
  [][Called /\ window /\ last'.sort # "film" =>
       \/ past' = past /\ (~last'.failed => Same(scene, scene'))
       \/ past' = Append(past, Step(scene', "tool")) /\ ~last'.failed]_taskVars

\* The objects that a tool of that sort takes for its own by their names, whoever made them:
\* camera_move removes a ShotCamera that is no camera; set_environment removes an AI_Sun that is no
\* light, the lamps of the preset and the ground.
Taken(sort, s) ==
  LET camera == {o \in {"ShotCamera"} : Kind(s, o) # "CAMERA"}
      lights == {"AI_Neon", "AI_Ground"} \cup {o \in {"AI_Sun"} : Kind(s, o) # "LIGHT"}
  IN  CASE sort = "camera"  -> camera
        [] sort = "light"   -> lights
        [] sort = "film"    -> camera \cup lights
        [] sort = "joining" -> Meshes(s)
        [] OTHER            -> {}

Lost(s, t) == {o \in Objects(s) : Kind(t, o) # Kind(s, o)}

\* A call that runs without the user's approval (RiskLevel below MEDIUM) loses no object but one
\* merged into another mesh or one whose very name the tool takes for its own.  Composed tools are
\* no way around the card: a film may lose what its moves and its environment may, and no more.
LossNeedsConsent == [][Called /\ last'.risk # "MEDIUM" => Lost(scene, scene') \subseteq Taken(last'.sort, scene)]_taskVars

\* What the card is for, and what the code does not keep: an object of the user's, one that was
\* there before any call, is not lost without one, unless it is merged into another.  A mesh of the
\* user's called ShotCamera or AI_Ground is removed by a LOW call.
UsersObjectsKept ==
  [][Called /\ calls = 0 /\ last'.risk # "MEDIUM" /\ last'.sort # "joining" => Lost(scene, scene') = {}]_taskVars

\* A rollback takes a task whose calls all went well back to the very scene it began with, also
\* in what no snapshot shows, but for the samples of a render (TaskLedger.rollback).
TaskRollsBack ==
  [][Rollback /\ window /\ open /\ ~failed /\ told'.done = Steps => Same(scene', baseline)]_taskVars

\* A call that failed has not changed the scene without a way back: the next Ctrl+Z or rollback
\* (undo_manager.py: every mutation creates an atomic, discrete undo point).
FailureUndoable == [][Called /\ scene' # scene => past' # past]_taskVars
=============================================================================
