------------------------------ MODULE SceneTools ------------------------------
(***************************************************************************)
(* What the tools do to the scene: the mutators of the adapter, each from  *)
(* its first check to its push of an undo step, and the error the adapter  *)
(* makes of what they raise.  A value that a tool sets is a number that    *)
(* counts its changes.                                                     *)
(*                                                                         *)
(* A call names its tool, an object o, a second object p, an option opt,   *)
(* and bad, the first group of its arguments that is not valid (or a step  *)
(* that Blender refuses).  Its outcome is the scene it leaves, the         *)
(* exception it raised and the scenes recorded as undo steps, in order.    *)
(***************************************************************************)
EXTENDS Naturals, SequencesExt, TLC

CONSTANT Names   \* bound: the names an object can get

None == "none"

ASSUME NamesAssumption == IsFiniteSet(Names) /\ None \notin Names

\* Names that set_environment takes for its own, whoever made the objects.
Helpers == {"AI_Sun", "AI_Neon", "AI_Ground"}

Channels == {"location", "rotation", "scale"}

\* What a snapshot shows of the settings of the scene, and what it does not.
Shown  == {"frames", "engine", "world", "collections"}
Unseen == {"sky", "look", "samples", "frame"}

-----------------------------------------------------------------------------
(* The scene *)

\* Shape and material slot belong to the data, which objects may share: count is what a
\* snapshot shows (vertices, energy, lens), form is what it does not.
\* Data is numbered from 1; an empty has none.
Blank == [count |-> 0, form |-> 0, mat |-> None]
NoData == 0

Object(kind, data) ==
  [kind |-> kind, data |-> data, parent |-> None,
   pose |-> [c \in Channels |-> 0], mods |-> <<>>, roles |-> {}]

Objects(s) == DOMAIN s.obj
Kind(s, o) == IF o \in Objects(s) THEN s.obj[o].kind ELSE None
Data(s, o) == IF Kind(s, o) \in {None, "EMPTY"} THEN Blank ELSE s.data[s.obj[o].data]
Parent(s, o) == IF o \in Objects(s) THEN s.obj[o].parent ELSE None
Meshes(s) == {o \in Objects(s) : Kind(s, o) = "MESH"}
Shared(s, o) == \E x \in Objects(s) \ {o} : Kind(s, o) = "MESH" /\ s.obj[x].data = s.obj[o].data

\* f with v at x.
Put(f, x, v) == [y \in DOMAIN f \cup {x} |-> IF y = x THEN v ELSE f[y]]

NewName(s) == CHOOSE x \in Names : x \notin Objects(s)
NewData(s) == CHOOSE d \in 1..Cardinality(DOMAIN s.data) + 1 : d \notin DOMAIN s.data

\* o and everything it hangs under.
Above(s, o) ==
  LET up[n \in 0..Cardinality(Objects(s))] == IF n = 0 THEN o ELSE Parent(s, up[n - 1])
  IN  {up[n] : n \in DOMAIN up} \ {None}

\* The meshes of o and of what hangs under it, and without a name all but the helpers.
Subjects(s, o) ==
  IF o = None THEN Meshes(s) \ Helpers ELSE {x \in Meshes(s) : o \in Above(s, x)}

\* Data that no object uses is gone.
Swept(s) == [s EXCEPT !.data = [d \in {s.obj[x].data : x \in Objects(s)} \ {NoData} |-> @[d]]]

Linked(s, name, kind) ==
  IF kind = "EMPTY"
  THEN [s EXCEPT !.obj = Put(@, name, Object(kind, NoData))]
  ELSE [s EXCEPT !.obj = Put(@, name, Object(kind, NewData(s))),
                 !.data = Put(@, NewData(s), Blank)]

Posed(s, o, chans) ==
  [s EXCEPT !.obj[o].pose = [c \in Channels |-> IF c \in chans THEN @[c] + 1 ELSE @[c]]]

AtRest(s, o, chans) ==
  [s EXCEPT !.obj[o].pose = [c \in Channels |-> IF c \in chans THEN 0 ELSE @[c]]]

Edited(s, o, field) == [s EXCEPT !.data[s.obj[o].data][field] = @ + 1]
Flat(s, o) == [s EXCEPT !.data[s.obj[o].data].count = 0]
Slotted(s, o, mat) == [s EXCEPT !.data[s.obj[o].data].mat = mat]
Under(s, o, p) == [s EXCEPT !.obj[o].parent = p]
Bumped(s, keys) == [s EXCEPT !.set = [k \in DOMAIN @ |-> IF k \in keys THEN @[k] + 1 ELSE @[k]]]
WithMaterial(s, m) == [s EXCEPT !.mats = IF m \in DOMAIN @ THEN @ ELSE Put(@, m, 0)]

WithData(s, o, d) ==
  Swept([s EXCEPT !.data = Put(@, NewData(s), d), !.obj[o].data = NewData(s)])

Removed(s, gone) ==
  Swept([s EXCEPT
    !.obj = [x \in DOMAIN @ \ gone |->
               IF @[x].parent \in gone THEN [@[x] EXCEPT !.parent = None] ELSE @[x]],
    !.camera = IF @ \in gone THEN None ELSE @])

\* The object with that name if it is of that kind, and a new one in its place otherwise.
Fitted(s, name, kind) ==
  IF Kind(s, name) = kind THEN s ELSE Linked(Removed(s, {name}), name, kind)

-----------------------------------------------------------------------------
(* How a call ends *)

Done(s)    == [scene |-> s, error |-> None, steps |-> <<s>>]
Quiet(s)   == [scene |-> s, error |-> None, steps |-> <<>>]
Fail(s, e) == [scene |-> s, error |-> e, steps |-> <<>>]

Valid(a, group) == a.bad # group

\* The checks are pairs of what must hold and what is raised otherwise.
Checked(s, checks, outcome) ==
  LET failed == {i \in DOMAIN checks : ~checks[i][1]}
  IN  IF failed = {} THEN outcome ELSE Fail(s, checks[Min(failed)][2])

Exists(s, o) == <<o \in Objects(s), "ModelingError">>
IsMesh(s, o) == <<Kind(s, o) = "MESH", "ModelingError">>

-----------------------------------------------------------------------------
(* Making and changing single objects *)

\* The object is linked before its transform is read: a bad vector leaves it there.
Placed(s, a, name, raised) ==
  IF Valid(a, "vector")
  THEN Done(Posed(s, name, Channels))
  ELSE Fail(Posed(s, name, {"location"}), raised)

CreatePrimitive(s, a) ==
  Checked(s, <<<<Valid(a, "type"), "InvalidPrimitiveTypeError">>, <<Valid(a, "size"), "ValueError">>>>,
          Placed(Linked(s, NewName(s), "MESH"), a, NewName(s), "IndexError"))

\* A camera or light of that name is changed, no object of another kind is.
CreateCamera(s, a) ==
  LET name == IF a.o = None THEN NewName(s) ELSE a.o
      made == IF Kind(s, name) = "CAMERA" THEN s ELSE Linked(s, name, "CAMERA")
  IN  Checked(s, <<<<Valid(a, "arguments"), "ValueError">>,
                   <<Kind(s, name) \in {None, "CAMERA"}, "ValueError">>>>,
        Done([Posed(Edited(made, name, "count"), name, {"location", "rotation"})
                EXCEPT !.camera = IF a.opt = "active" THEN name ELSE @]))

\* Mutant of CreateLight: an object of another kind is replaced.
CreateLight_Replaces(s, a) ==
  LET name == IF a.o = None THEN NewName(s) ELSE a.o
  IN  Checked(s, <<<<Valid(a, "arguments"), "ValueError">>>>,
        Done(Posed(Edited(Fitted(s, name, "LIGHT"), name, "count"), name, {"location", "rotation"})))

CreateLight(s, a) ==
  LET name == IF a.o = None THEN NewName(s) ELSE a.o
      made == IF Kind(s, name) = "LIGHT" THEN s ELSE Linked(s, name, "LIGHT")
  IN  Checked(s, <<<<Valid(a, "arguments"), "ValueError">>,
                   <<Kind(s, name) \in {None, "LIGHT"}, "ValueError">>>>,
        Done(Posed(Edited(Edited(made, name, "count"), name, "form"), name, {"location", "rotation"})))

\* Mutant of SetShading: no undo step is pushed.
SetShading_Unrecorded(s, a) ==
  Checked(s, <<<<Kind(s, a.o) = "MESH", "ValueError">>, <<Valid(a, "shading"), "ValueError">>>>,
          Quiet(Edited(s, a.o, "form")))

SetShading(s, a) ==
  Checked(s, <<<<Kind(s, a.o) = "MESH", "ValueError">>, <<Valid(a, "shading"), "ValueError">>>>,
          Done(Edited(s, a.o, "form")))

\* A modifier of the same name and type is changed in place.
Modified(s, o, type) ==
  [s EXCEPT !.obj[o].mods = Put(@, type, IF type \in DOMAIN @ THEN @[type] + 1 ELSE 0)]

AddModifier(s, a) ==
  Checked(s, <<<<Kind(s, a.o) = "MESH", "ValueError">>, <<Valid(a, "arguments"), "ValueError">>,
               <<a.opt = "BOOLEAN" => a.p # a.o /\ Kind(s, a.p) = "MESH", "ValueError">>>>,
          Done(Modified(s, a.o, a.opt)))

AddShapeModifier(s, a) ==
  Checked(s, <<<<Valid(a, "type"), "ModelingError">>, IsMesh(s, a.o), <<Valid(a, "values"), "ModelingError">>>>,
          Done(Modified(s, a.o, "MIRROR")))

\* Location, rotation and scale are checked one after the other, each just before it is set.
TransformObject(s, a) ==
  Checked(s, <<<<a.o \in Objects(s), "ObjectNotFoundError">>, <<Valid(a, "nothing"), "ValueError">>,
               <<Valid(a, "location"), "ValueError">>>>,
    IF ~Valid(a, "rotation") THEN Fail(Posed(s, a.o, {"location"}), "ValueError")
    ELSE IF ~Valid(a, "scale") THEN Fail(Posed(s, a.o, {"location", "rotation"}), "ValueError")
    ELSE Done(Posed(s, a.o, Channels)))

DeleteObject(s, a) ==
  Checked(s, <<<<a.o \in Objects(s), "ObjectNotFoundError">>>>, Done(Removed(s, {a.o})))

\* A copy of o with data of its own.
Copied(s, o, name) ==
  LET named == [s EXCEPT !.obj = Put(@, name, @[o])]
  IN  IF s.obj[o].data = NoData THEN named ELSE WithData(named, name, Data(s, o))

DuplicateObject(s, a) ==
  Checked(s, <<<<a.o \in Objects(s), "ObjectNotFoundError">>, <<Valid(a, "new_name"), "ValueError">>,
               <<Valid(a, "transform"), "ValueError">>>>,
          Done(Posed(Copied(s, a.o, NewName(s)), NewName(s), {"location"})))

ImportAsset(s, a) ==
  Checked(s, <<<<Valid(a, "library"), "Unconfigured">>, <<Valid(a, "path"), "ValueError">>,
               <<Valid(a, "file"), "NotFound">>, <<Valid(a, "importer"), "RuntimeError">>,
               <<Valid(a, "datablock"), "NotFound">>, <<Valid(a, "extension"), "ValueError">>>>,
          Done(Linked(s, NewName(s), "MESH")))

-----------------------------------------------------------------------------
(* Materials *)

Named(s, base) == IF base \in DOMAIN s.mats THEN base \o ".001" ELSE base

Painted(s, m) == [s EXCEPT !.mats[m] = @ + 1]

\* A material is made and put into the slot before its values are read, one after the other.
\* The slot belongs to the data, which other objects may use; only meshes have one.
SetMaterial(s, a) ==
  LET own  == a.o # None /\ a.opt # "named"
      slot == IF Kind(s, a.o) = "MESH" THEN Data(s, a.o).mat ELSE None
      mat  == IF ~own THEN "m" ELSE IF slot # None THEN slot ELSE Named(s, a.o \o "_Material")
      made == WithMaterial(s, mat)
      puts == a.o # None /\ ~(own /\ slot # None)
  IN  Checked(s, <<<<Valid(a, "arguments"), "ValueError">>,
                   <<a.o = None \/ a.o \in Objects(s), "ObjectNotFoundError">>>>,
        IF puts /\ Kind(s, a.o) # "MESH" THEN Fail(made, "ValueError")
        ELSE LET put == IF puts THEN Slotted(made, a.o, mat) ELSE made
             IN  IF ~Valid(a, "values") THEN Fail(put, "ValueError")
                 ELSE IF ~Valid(a, "later") THEN Fail(Painted(put, mat), "ValueError")
                 ELSE Done(Painted(put, mat)))

AssignMaterial(s, a) ==
  LET made == WithMaterial(s, "m")
  IN  Checked(s, <<<<Valid(a, "arguments"), "ValueError">>, <<a.o \in Objects(s), "ObjectNotFoundError">>>>,
        IF Kind(s, a.o) = "MESH" THEN Done(Slotted(made, a.o, "m")) ELSE Fail(made, "ValueError"))

UnwrapUv(s, a) ==
  LET used == {s.obj[x].data : x \in Subjects(s, a.o)}
      laid == [d \in DOMAIN s.data |-> IF d \in used THEN [s.data[d] EXCEPT !.form = @ + 1] ELSE s.data[d]]
  IN  Checked(s, <<<<Valid(a, "arguments"), "ModelingError">>,
                   <<a.o \in Objects(s) \cup {None}, "ModelingError">>, <<Subjects(s, a.o) # {}, "ModelingError">>>>,
        Done([s EXCEPT !.data = laid]))

\* A mesh without a UV map (option bare) is unwrapped first, and stays so if the bake fails.
BakeMaterial(s, a) ==
  LET ready == IF a.opt = "bare" THEN Edited(s, a.o, "form") ELSE s
      baked == Named(s, a.o \o "_Baked")
  IN  Checked(s, <<IsMesh(s, a.o), <<Valid(a, "numbers"), "ModelingError">>,
                   <<~Shared(s, a.o), "ModelingError">>, <<Data(s, a.o).mat # None, "ModelingError">>>>,
        IF a.opt = "flat" THEN Quiet(s)
        ELSE IF Valid(a, "bake") THEN Done(Slotted(WithMaterial(ready, baked), a.o, baked))
        ELSE Fail(ready, "RuntimeError"))

-----------------------------------------------------------------------------
(* Modelling *)

\* _unique_mesh: a shared mesh is copied before it is edited.
Own(s, o) == IF Shared(s, o) THEN WithData(s, o, Data(s, o)) ELSE s

CreateMesh(s, a) ==
  Checked(s, <<<<Valid(a, "geometry"), "ModelingError">>>>,
          Placed(Linked(s, NewName(s), "MESH"), a, NewName(s), "ModelingError"))

\* The solid between two rings, for extrusions and beams.
Loft(s, a) ==
  Checked(s, <<<<Valid(a, "rings"), "ModelingError">>>>,
          Placed(Linked(s, NewName(s), "MESH"), a, NewName(s), "ModelingError"))

CreateExtrusion(s, a) == Checked(s, <<<<Valid(a, "profile"), "ModelingError">>>>, Loft(s, a))

CreateBeam(s, a) == Checked(s, <<<<Valid(a, "ends"), "ModelingError">>>>, Loft(s, a))

LoftProfiles(s, a) ==
  Checked(s, <<<<Valid(a, "profiles"), "ModelingError">>>>,
          Placed(Linked(s, NewName(s), "MESH"), a, NewName(s), "ModelingError"))

\* Splitting gives the new object data of its own; applied modifiers are gone.
ObjectLevelEdit(s, a) ==
  IF a.opt = "apply"
  THEN Checked(s, <<<<s.obj[a.o].mods # <<>>, "ModelingError">>>>,
               Done([Edited(WithData(s, a.o, Data(s, a.o)), a.o, "count") EXCEPT !.obj[a.o].mods = <<>>]))
  ELSE Checked(s, <<<<Valid(a, "by"), "ModelingError">>>>,
               Done(Edited(Copied(s, a.o, NewName(s)), a.o, "count")))

\* The mesh is made single-user before the arguments of the operation are read.
MeshEdit(s, a) ==
  LET own == Own(s, a.o)
  IN  Checked(s, <<<<Valid(a, "operation"), "ModelingError">>, IsMesh(s, a.o)>>,
        IF a.opt \in {"separate", "apply"} THEN ObjectLevelEdit(own, a)
        ELSE IF ~Valid(a, "faces") THEN Fail(own, "ModelingError")
        ELSE Done(Edited(own, a.o, IF a.opt = "normals" THEN "form" ELSE "count")))

Merged(s, sources, target) == Edited(Removed(s, sources), target, "count")

JoinObjects(s, a) ==
  LET own == Own(s, a.p)
  IN  Checked(s, <<<<Valid(a, "names"), "ModelingError">>, IsMesh(s, a.p), IsMesh(s, a.o),
                   <<a.o # a.p, "ModelingError">>>>,
        IF Valid(a, "join") THEN Done(Merged(own, {a.o}, a.p)) ELSE Fail(own, "ModelingError"))

\* Mutant of ParentObject: the walk up to the root is left out.
ParentObject_NoWalk(s, a) ==
  Checked(s, <<Exists(s, a.o), <<a.p = None \/ a.p \in Objects(s), "ModelingError">>,
               <<a.o # a.p, "ModelingError">>>>,
          Done(Posed(Under(s, a.o, a.p), a.o, {"location"})))

ParentObject(s, a) ==
  Checked(s, <<Exists(s, a.o), <<a.p = None \/ a.p \in Objects(s), "ModelingError">>,
               <<a.o # a.p, "ModelingError">>,
               <<a.p \in Objects(s) => a.o \notin Above(s, a.p), "ModelingError">>>>,
          Done(Posed(Under(s, a.o, a.p), a.o, {"location"})))

\* Mutant of ApplyTransform: the mesh is edited although others use it.
ApplyTransform_Shared(s, a) ==
  Checked(s, <<IsMesh(s, a.o), <<Parent(s, a.o) = None, "ModelingError">>>>,
          Done(AtRest(Edited(s, a.o, "form"), a.o, {"rotation", "scale"})))

ApplyTransform(s, a) ==
  Checked(s, <<IsMesh(s, a.o), <<Parent(s, a.o) = None, "ModelingError">>>>,
          Done(AtRest(Edited(Own(s, a.o), a.o, "form"), a.o, {"rotation", "scale"})))

SetOrigin(s, a) ==
  Checked(s, <<<<Valid(a, "mode"), "ModelingError">>, IsMesh(s, a.o),
               <<Parent(s, a.o) = None, "ModelingError">>>>,
          Done(Posed(Edited(Own(s, a.o), a.o, "form"), a.o, {"location"})))

\* No check for loops here: Blender clears the parent that would close one.
PlaceOnSocket(s, a) ==
  LET hung == IF a.opt = "free" THEN s
              ELSE Under(s, a.o, IF a.o \in Above(s, a.p) THEN None ELSE a.p)
      put  == Posed(hung, a.o, {"location", "rotation"})
  IN  Checked(s, <<Exists(s, a.o), Exists(s, a.p), <<a.o # a.p, "ModelingError">>,
                   <<Valid(a, "socket"), "ModelingError">>>>,
        IF Valid(a, "relative_scale") THEN Done(Posed(put, a.o, {"scale"})) ELSE Fail(put, "ModelingError"))

\* Bound: an asset has a root and one part under it.
CreateFromSpec(s, a) ==
  LET root == NewName(s)
      one  == WithMaterial(Posed(Linked(s, root, "MESH"), root, {"location", "rotation"}), "asset")
      part == NewName(one)
      two  == Posed(Linked(Slotted(one, root, "asset"), part, "MESH"), part, {"location", "rotation"})
  IN  Checked(s, <<<<Valid(a, "spec"), "ModelingError">>>>,
        IF Valid(a, "colour") THEN Done(Under(Slotted(two, part, "asset"), part, root))
        ELSE Fail(one, "ValueError"))

-----------------------------------------------------------------------------
(* Props, characters and terrain *)

Polished(s, o) == Edited(Own(s, o), o, "count")

\* One object after the other: a later one may fail when the earlier ones are changed.
PolishModel(s, a) ==
  Checked(s, <<<<Valid(a, "numbers"), "ModelingError">>, IsMesh(s, a.o)>>,
    IF ~Valid(a, "first") THEN Fail(Own(s, a.o), "ModelingError")
    ELSE IF a.p = None THEN Done(Polished(s, a.o))
    ELSE IF Kind(s, a.p) # "MESH" THEN Fail(Polished(s, a.o), "ModelingError")
    ELSE IF ~Valid(a, "second") THEN Fail(Own(Polished(s, a.o), a.p), "ModelingError")
    ELSE Done(Polished(Polished(s, a.o), a.p)))

\* Mutant of OneStep: the pushes of the tools inside are not held back.
OneStep_All(outcome, final) == [Done(final) EXCEPT !.steps = outcome.steps \o @]

\* _OneUndoStep: what the tools inside push is dropped.
OneStep(outcome, final) == Done(final)

\* Bound: two parts, joined into the first unless a rig will move them.
CreateProp(s, a) ==
  LET body == NewName(s)
      one  == Slotted(WithMaterial(Linked(s, body, "MESH"), "prop"), body, "prop")
      part == NewName(one)
      two  == Slotted(Linked(one, part, "MESH"), part, "prop")
      join == JoinObjects(two, [a EXCEPT !.o = part, !.p = body])
  IN  Checked(s, <<<<Valid(a, "kind"), "ModelingError">>>>,
        IF a.opt = "rigged" THEN Done(Polished(Polished(two, body), part))
        ELSE IF join.error # None THEN join
        ELSE OneStep(join, Polished(join.scene, body)))

\* The origin of a part is moved to its joint.
Pivoted(s, o) == Posed(Edited(Own(Under(s, o, None), o), o, "form"), o, {"location"})

\* o is the torso, p the head; every other mesh is a leg or hangs on the torso.
RigCharacter(s, a) ==
  LET leg    == CHOOSE x \in Meshes(s) \ {a.o, a.p} : TRUE
      moved  == Pivoted(Pivoted(Pivoted(s, a.o), a.p), leg)
      rig    == NewName(moved)
      stands == [Posed(Linked(moved, rig, "EMPTY"), rig, {"location"}) EXCEPT !.obj[rig].roles = {a.o, a.p, leg}]
  IN  Checked(s, <<<<Valid(a, "name"), "ModelingError">>, IsMesh(s, a.o), IsMesh(s, a.p),
                   <<Valid(a, "parts"), "ModelingError">>, <<a.o # a.p, "ModelingError">>,
                   <<Meshes(s) \ {a.o, a.p} # {}, "ModelingError">>>>,
        Done([stands EXCEPT !.obj = [x \in DOMAIN @ |->
                IF x \in {a.o, leg} THEN [@[x] EXCEPT !.parent = rig]
                ELSE IF x \in Meshes(s) THEN [@[x] EXCEPT !.parent = a.o]
                ELSE @[x]]]))

\* Every part that still exists under its name goes back to rest and is moved; the rig turns.
Acted(s, rig) ==
  LET parts == (s.obj[rig].roles \cap Objects(s)) \ {rig}
      acted == [s EXCEPT !.obj = [x \in DOMAIN @ |->
                  IF x \in parts THEN [@[x] EXCEPT !.pose.rotation = 1, !.pose.scale = 0]
                  ELSE IF x = rig THEN [@[x] EXCEPT !.pose.rotation = 1]
                  ELSE @[x]]]
  IN  Bumped(Posed(acted, rig, {"location"}), {"frames", "frame"})

IsRig(s, o) == <<Kind(s, o) = "EMPTY" /\ s.obj[o].roles # {}, "ModelingError">>

AnimateCharacter(s, a) ==
  Checked(s, <<<<Valid(a, "preset"), "ModelingError">>, IsRig(s, a.o), <<Valid(a, "numbers"), "ModelingError">>>>,
          Done(Acted(s, a.o)))

AnimateSequence(s, a) ==
  Checked(s, <<<<Valid(a, "segments"), "ModelingError">>, IsRig(s, a.o), <<Valid(a, "plan"), "ModelingError">>>>,
          Done(Acted(s, a.o)))

\* Bound: a saved character has one part.
CharacterLibrary(s, a) ==
  LET rig    == NewName(s)
      stands == Posed(Linked(s, rig, "EMPTY"), rig, {"location"})
      part   == NewName(stands)
      loaded == Under(Linked([stands EXCEPT !.obj[rig].roles = {part}], part, "MESH"), part, rig)
  IN  CASE a.opt = "list" -> Quiet(s)
        [] a.opt = "save" -> Checked(s, <<<<Valid(a, "name"), "ModelingError">>, IsRig(s, a.o)>>, Quiet(s))
        [] OTHER -> Checked(s, <<<<Valid(a, "name"), "ModelingError">>, <<Valid(a, "file"), "ModelingError">>,
                                 <<Valid(a, "location"), "ModelingError">>, <<Valid(a, "rig"), "ModelingError">>>>,
                            Done(loaded))

CreateTerrain(s, a) ==
  Checked(s, <<<<Valid(a, "numbers"), "ModelingError">>>>,
          Placed(Linked(s, NewName(s), "MESH"), a, NewName(s), "ModelingError"))

\* A linked copy of o: both use one mesh.
Instanced(s, o, name, parent) ==
  Posed([s EXCEPT !.obj = Put(@, name, [@[o] EXCEPT !.parent = parent])], name, Channels)

\* Bound: one copy of the source, or one group of two.  When every point misses the
\* ground the new collection is removed again.
Scatter(s, a) ==
  LET placed == Bumped(s, {"collections"})
      root   == NewName(s)
      rooted == Posed(Linked(placed, root, "EMPTY"), root, Channels)
      first  == Instanced(rooted, a.o, NewName(rooted), root)
  IN  Checked(s, <<Exists(s, a.o), <<a.p = None \/ a.p \in Objects(s), "ModelingError">>,
                   <<Valid(a, "numbers"), "ModelingError">>, <<Valid(a, "ground"), "ModelingError">>,
                   <<{a.o, a.p} \cap Meshes(s) # {}, "ModelingError">>>>,
        Done(IF a.p = None THEN Instanced(placed, a.o, root, None)
             ELSE Instanced(first, a.p, NewName(first), root)))

-----------------------------------------------------------------------------
(* Camera, light and look *)

SetLook(s, a) ==
  Checked(s, <<<<Valid(a, "preset"), "ModelingError">>>>, Done(Bumped(s, {"look"})))

\* Aperture, focus, rack focus and blur are set one after the other, each when its arguments
\* have been read.  A rack starts at o, or at what an earlier call has focused.
CameraSettings(s, a) ==
  LET cam   == IF "ShotCamera" \in Objects(s) THEN "ShotCamera" ELSE s.camera
      stops == Edited(s, cam, "form")
      focus == IF a.o = None THEN stops ELSE Edited(stops, cam, "form")
      racks == IF a.p = None THEN focus ELSE Bumped(Edited(focus, cam, "form"), {"frame"})
      blurs == IF a.opt = "blur" THEN Bumped(racks, {"look"}) ELSE racks
      known == a.p = None \/ (a.p \in Objects(s) /\ (a.o # None \/ a.opt = "focused"))
  IN  Checked(s, <<<<Kind(s, cam) = "CAMERA", "ModelingError">>, <<Valid(a, "f_stop"), "ModelingError">>,
                   <<Valid(a, "nothing"), "ModelingError">>>>,
        IF a.o \notin Objects(s) \cup {None} THEN Fail(stops, "ModelingError")
        ELSE IF ~Valid(a, "distance") \/ ~known THEN Fail(focus, "ModelingError")
        ELSE IF ~Valid(a, "shutter") THEN Fail(Bumped(racks, {"look"}), "ModelingError")
        ELSE Done(blurs))

\* World, sun and lamps are changed before the arguments of the ground are read.  A mesh of the
\* ground's name is taken for the ground, also when others use its data.
SetEnvironment(s, a) ==
  LET world == Bumped([s EXCEPT !.set.world = 1], {"sky"})
      sunny == Posed(Edited(Fitted(world, "AI_Sun", "LIGHT"), "AI_Sun", "form"), "AI_Sun", {"rotation"})
      dark  == Removed(sunny, {"AI_Neon"})
      lamps == IF a.opt = "neon" THEN Posed(Linked(dark, "AI_Neon", "LIGHT"), "AI_Neon", {"location"}) ELSE dark
      plane == Painted(WithMaterial(Fitted(lamps, "AI_Ground", "MESH"), "AI_Ground"), "AI_Ground")
      drawn == Edited(Flat(Slotted(plane, "AI_Ground", "AI_Ground"), "AI_Ground"), "AI_Ground", "form")
      lies  == Posed(drawn, "AI_Ground", {"location"})
      set(t) == Bumped([t EXCEPT !.set.engine = 1], {"look"})
  IN  Checked(s, <<<<Valid(a, "preset"), "ModelingError">>>>,
        IF a.opt = "bare" THEN Done(set(Removed(lamps, {"AI_Ground"})))
        ELSE IF Valid(a, "ground") THEN Done(set(lies))
        ELSE Fail(lamps, "ModelingError"))

\* The first frame of the shot is shown before the last numbers are read.  A target is an object
\* of any kind.
CameraMove(s, a) ==
  LET shown  == Bumped(s, {"frame"})
      filmed == Fitted(shown, "ShotCamera", "CAMERA")
      aimed  == IF "ShotTarget" \in Objects(filmed) THEN filmed ELSE Linked(filmed, "ShotTarget", "EMPTY")
      level  == AtRest(Posed(aimed, "ShotCamera", {"location"}), "ShotTarget", {"rotation"})
      moved  == Posed(level, "ShotTarget", IF a.opt = "rolling" THEN {"location", "rotation"} ELSE {"location"})
  IN  Checked(s, <<<<Valid(a, "arguments"), "ModelingError">>>>,
        IF Valid(a, "floats")
        THEN Done(Bumped([Edited(moved, "ShotCamera", "count") EXCEPT !.camera = "ShotCamera"], {"frames"}))
        ELSE Fail(shown, "ValueError"))

\* The settings of the render are put back afterwards, all but its samples.
Rendered(s, a) ==
  LET left == Bumped(s, {"samples"})
  IN  Checked(s, <<<<s.camera # None, "ModelingError">>, <<Valid(a, "engine"), "ModelingError">>>>,
              IF Valid(a, "write") THEN Quiet(left) ELSE Fail(left, "ModelingError"))

RenderImage(s, a) == Checked(s, <<<<Valid(a, "arguments"), "ModelingError">>>>, Rendered(s, a))
RenderAnimation(s, a) == Checked(s, <<<<Valid(a, "arguments"), "ModelingError">>>>, Rendered(s, a))
RenderContactSheet(s, a) == Checked(s, <<<<Valid(a, "arguments"), "ModelingError">>>>, Rendered(s, a))

CheckShot(s, a) ==
  Checked(s, <<<<s.camera # None, "ModelingError">>, <<Valid(a, "arguments"), "ModelingError">>,
               <<a.o \in Objects(s) \cup {None}, "ModelingError">>, <<Subjects(s, a.o) # {}, "ModelingError">>>>,
          IF a.opt = "render" THEN Rendered(s, a) ELSE Quiet(s))

Shoot(s, a, part) ==
  LET fine == [a EXCEPT !.bad = None, !.opt = "ground"]
  IN  CASE part = "environment" -> SetEnvironment(s, fine)
        [] part = "look"        -> SetLook(s, fine)
        [] part = "first move"  -> CameraMove(s, fine)
        [] part = "move"        -> CameraMove(s, a)
        [] part = "render"      -> Rendered(s, a)
        [] part = "edit"        -> Checked(s, <<<<Valid(a, "edit"), "ModelingError">>>>, Quiet(s))

\* Every tool inside pushes its own step, and what is done stays when a later part fails.
Continued(done, out) ==
  IF done.error # None THEN done ELSE [out EXCEPT !.steps = done.steps \o @]

Then(done, a, part) == Continued(done, Shoot(done.scene, a, part))

\* Bound: two shots, the first with an environment and a look.
RenderShots(s, a) ==
  LET set    == Then(Then(Quiet(s), a, "environment"), a, "look")
      first  == Then(Then(set, a, "first move"), a, "render")
      second == Then(Then(first, a, "move"), a, "render")
  IN  Checked(s, <<<<Valid(a, "plan"), "ModelingError">>>>, Then(second, a, "edit"))

\* The view, the exported file and the film are not part of the scene.
FrameView(s, a) == Checked(s, <<<<Valid(a, "arguments"), "ModelingError">>>>, Quiet(s))
EditVideo(s, a) == Checked(s, <<<<Valid(a, "arguments"), "ModelingError">>>>, Quiet(s))
MakeSoundtrack(s, a) == Checked(s, <<<<Valid(a, "arguments"), "ModelingError">>>>, Quiet(s))
CheckModel(s, a) ==
  Checked(s, <<<<a.o \in Objects(s) \cup {None}, "ModelingError">>, <<Subjects(s, a.o) # {}, "ModelingError">>>>, Quiet(s))

\* The objects are moved to the origin for the export and back whatever happens.
ExportGltf(s, a) ==
  LET shifted == Posed(s, a.o, {"location"})
      back    == [shifted EXCEPT !.obj[a.o].pose = s.obj[a.o].pose]
  IN  Checked(s, <<Exists(s, a.o), <<Valid(a, "arguments"), "ModelingError">>>>,
              IF Valid(a, "export") THEN Quiet(back) ELSE Fail(back, "ModelingError"))
=============================================================================
