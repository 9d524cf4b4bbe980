------------------------------ MODULE ToolCalls ------------------------------
(***************************************************************************)
(* The registered tools: the calls that the schema of each one allows, and *)
(* what the adapter does with a call.                                      *)
(***************************************************************************)
EXTENDS SceneTools

\* What can be wrong with the arguments of a call, beside names that no object has, depends on
\* the tool; so does whether it takes a second object and an option.
Allowed(tool, risk, os, ps, opts, bads) ==
  [tool : {tool}, risk : {risk}, o : os, p : ps, opt : opts, bad : bads \cup {None}]

No   == {None}
May  == Names \cup No

InspectSceneTool     == Allowed("inspect_scene", "READ_ONLY", No, No, No, {})
InspectSelectionTool == Allowed("inspect_selection", "READ_ONLY", No, No, No, {})
InspectObjectTool    == Allowed("inspect_object", "READ_ONLY", Names, No, No, {"name"})
InspectMaterialTool  == Allowed("inspect_material", "READ_ONLY", Names, No, {"object", "named"}, {"names", "slot"})
InspectMeshTool      == Allowed("inspect_mesh", "READ_ONLY", Names, No, No, {"name"})
CaptureViewportTool  == Allowed("capture_viewport", "READ_ONLY", No, No, No, {"size", "viewport"})
VisualVerifyTool     == Allowed("visual_verify", "READ_ONLY", No, No, {None, "image"}, {"expected", "size", "viewport"})
EnableToolsTool      == Allowed("enable_tools", "READ_ONLY", No, No, No, {"packs"})

CreatePrimitiveTool  == Allowed("create_primitive", "LOW", No, No, No, {"type", "size", "vector"})
CreateCameraTool     == Allowed("create_camera", "LOW", May, No, {None, "active"}, {"arguments"})
CreateLightTool      == Allowed("create_light", "LOW", May, No, No, {"arguments"})
SetShadingTool       == Allowed("set_shading", "LOW", Names, No, No, {"shading"})
AddModifierTool      == Allowed("add_modifier", "LOW", Names, No, {"BEVEL", "SUBSURF"}, {"arguments"})
                          \cup Allowed("add_modifier", "LOW", Names, Names, {"BOOLEAN"}, {})
AddShapeModifierTool == Allowed("add_shape_modifier", "LOW", Names, No, No, {"type", "values"})
TransformObjectTool  == Allowed("transform_object", "LOW", Names, No, No, {"nothing"} \cup Channels)
DeleteObjectTool     == Allowed("delete_object", "MEDIUM", Names, No, No, {})
DuplicateObjectTool  == Allowed("duplicate_object", "LOW", Names, No, No, {"new_name", "transform"})
ImportAssetTool      == Allowed("import_asset", "LOW", No, No, No,
                          {"library", "path", "file", "importer", "datablock", "extension"})

SetMaterialTool    == Allowed("set_material", "LOW", May, No, {"named", "slot"}, {"arguments", "values", "later"})
AssignMaterialTool == Allowed("assign_material", "LOW", Names, No, No, {"arguments"})
UnwrapUvTool       == Allowed("unwrap_uv", "LOW", May, No, No, {"arguments"})
BakeMaterialTool   == Allowed("bake_material", "LOW", Names, No, {"bare", "flat", "other"}, {"numbers", "bake"})

CreateMeshTool      == Allowed("create_mesh", "LOW", No, No, No, {"geometry", "vector"})
CreateExtrusionTool == Allowed("create_extrusion", "LOW", No, No, No, {"profile", "rings", "vector"})
CreateBeamTool      == Allowed("create_beam", "LOW", No, No, No, {"ends", "rings", "vector"})
LoftProfilesTool    == Allowed("loft_profiles", "LOW", No, No, No, {"profiles", "vector"})
MeshEditTool        == Allowed("mesh_edit", "LOW", Names, No, {"geometry", "normals", "separate", "apply"},
                         {"operation", "faces", "by"})
JoinObjectsTool     == Allowed("join_objects", "LOW", Names, Names, No, {"names", "join"})
ParentObjectTool    == Allowed("parent_object", "LOW", Names, May, No, {})
ApplyTransformTool  == Allowed("apply_transform", "LOW", Names, No, No, {})
SetOriginTool       == Allowed("set_origin", "LOW", Names, No, No, {"mode"})
PlaceOnSocketTool   == Allowed("place_on_socket", "LOW", Names, Names, {"free", "parent"}, {"socket", "relative_scale"})
CreateFromSpecTool  == Allowed("create_from_spec", "LOW", No, No, No, {"spec", "colour"})
PolishModelTool     == Allowed("polish_model", "LOW", Names, May, No, {"numbers", "first", "second"})
CreatePropTool      == Allowed("create_prop", "LOW", No, No, {"rigged", "joined"}, {"kind", "join"})
ExportGltfTool      == Allowed("export_gltf", "LOW", Names, No, No, {"arguments", "export"})
CheckModelTool      == Allowed("check_model", "READ_ONLY", May, No, No, {})
FrameViewTool       == Allowed("frame_view", "LOW", No, No, No, {"arguments"})

RigCharacterTool     == Allowed("rig_character", "LOW", Names, Names, No, {"name", "parts"})
AnimateCharacterTool == Allowed("animate_character", "LOW", Names, No, No, {"preset", "numbers"})
AnimateSequenceTool  == Allowed("animate_sequence", "LOW", Names, No, No, {"segments", "plan"})
CharacterLibraryTool == Allowed("character_library", "LOW", Names, No, {"list", "save", "load"},
                          {"name", "file", "location", "rig"})
CreateTerrainTool    == Allowed("create_terrain", "LOW", No, No, No, {"numbers", "vector"})
ScatterTool          == Allowed("scatter", "LOW", Names, May, No, {"numbers", "ground"})

SetLookTool            == Allowed("set_look", "LOW", No, No, No, {"preset"})
CameraSettingsTool     == Allowed("camera_settings", "LOW", May, May, {None, "focused", "blur"},
                            {"f_stop", "nothing", "distance", "shutter"})
SetEnvironmentTool     == Allowed("set_environment", "LOW", No, No, {"ground", "bare", "neon"}, {"preset", "ground"})
CameraMoveTool         == Allowed("camera_move", "LOW", No, No, {None, "rolling"}, {"arguments", "floats"})
RenderImageTool        == Allowed("render_image", "LOW", No, No, No, {"arguments", "engine", "write"})
RenderAnimationTool    == Allowed("render_animation", "LOW", No, No, No, {"arguments", "engine", "write"})
RenderContactSheetTool == Allowed("render_contact_sheet", "LOW", No, No, No, {"arguments", "engine", "write"})
CheckShotTool          == Allowed("check_shot", "READ_ONLY", May, No, {None, "render"}, {"arguments", "write"})
RenderShotsTool        == Allowed("render_shots", "LOW", No, No, No, {"plan", "floats", "write", "edit"})
EditVideoTool          == Allowed("edit_video", "LOW", No, No, No, {"arguments"})
MakeSoundtrackTool     == Allowed("make_soundtrack", "LOW", No, No, No, {"arguments"})

ReadingCalls ==
  InspectSceneTool \cup InspectSelectionTool \cup InspectObjectTool \cup InspectMaterialTool
    \cup InspectMeshTool
ViewingCalls ==
  CaptureViewportTool \cup VisualVerifyTool \cup EnableToolsTool
SettingCalls ==
  CreatePrimitiveTool \cup CreateCameraTool \cup CreateLightTool \cup SetShadingTool \cup AddModifierTool
HandlingCalls ==
  TransformObjectTool \cup DeleteObjectTool \cup DuplicateObjectTool \cup ImportAssetTool
    \cup SetMaterialTool \cup AssignMaterialTool
BuildingCalls ==
  CreateMeshTool \cup CreateExtrusionTool \cup CreateBeamTool \cup LoftProfilesTool \cup PlaceOnSocketTool
    \cup CreateFromSpecTool \cup MeshEditTool \cup JoinObjectsTool \cup ParentObjectTool
    \cup ApplyTransformTool \cup SetOriginTool \cup ExportGltfTool \cup AddShapeModifierTool
    \cup FrameViewTool
FilmingCalls ==
  CreatePropTool \cup PolishModelTool \cup CharacterLibraryTool \cup RigCharacterTool
    \cup AnimateSequenceTool \cup AnimateCharacterTool \cup SetEnvironmentTool \cup CameraMoveTool
    \cup SetLookTool \cup CreateTerrainTool \cup ScatterTool \cup UnwrapUvTool \cup BakeMaterialTool
    \cup CheckModelTool \cup CheckShotTool \cup CameraSettingsTool \cup RenderContactSheetTool
    \cup MakeSoundtrackTool \cup EditVideoTool \cup RenderShotsTool \cup RenderImageTool
    \cup RenderAnimationTool

Calls == ReadingCalls \cup ViewingCalls \cup SettingCalls \cup HandlingCalls \cup BuildingCalls \cup FilmingCalls

-----------------------------------------------------------------------------
(* Looking *)

Look(s, a) == Quiet(s)

InspectObject(s, a) ==
  Checked(s, <<<<Valid(a, "name"), "invalid">>, <<a.o \in Objects(s), "ObjectNotFoundError">>>>, Quiet(s))

InspectMaterial(s, a) ==
  IF a.opt = "named"
  THEN Checked(s, <<<<Valid(a, "names"), "ValueError">>, <<"m" \in DOMAIN s.mats, "MaterialNotFoundError">>>>, Quiet(s))
  ELSE Checked(s, <<<<Valid(a, "names"), "ValueError">>, <<a.o \in Objects(s), "ObjectNotFoundError">>,
                    <<Valid(a, "slot") /\ Data(s, a.o).mat # None, "MaterialSlotError">>>>, Quiet(s))

InspectMesh(s, a) ==
  Checked(s, <<<<Valid(a, "name"), "invalid">>, <<a.o \in Objects(s), "ObjectNotFoundError">>,
               <<Kind(s, a.o) = "MESH", "InvalidMeshDataTypeError">>>>, Quiet(s))

CaptureViewport(s, a) ==
  Checked(s, <<<<Valid(a, "size"), "ValueError">>, <<Valid(a, "viewport"), "RuntimeError">>>>, Quiet(s))

VisualVerify(s, a) ==
  Checked(s, <<<<Valid(a, "expected"), "invalid">>>>,
          IF a.opt = "image" THEN Quiet(s) ELSE CaptureViewport(s, a))

EnableTools(s, a) == Checked(s, <<<<Valid(a, "packs"), "invalid">>>>, Quiet(s))

-----------------------------------------------------------------------------
(* The adapter: which mutator a tool calls and what error it makes of an exception *)

Told(codes, other, outcome) ==
  [outcome EXCEPT !.error = IF @ = None THEN None ELSE IF @ \in DOMAIN codes THEN codes[@] ELSE other]

Internal == "ADAPTER_INTERNAL_ERROR"

Bad      == [ValueError |-> "INVALID_ARGUMENT", invalid |-> "INVALID_ARGUMENT"]
Missing  == Put(Bad, "ObjectNotFoundError", "OBJECT_NOT_FOUND")
MeshBad  == Put(Missing, "InvalidMeshDataTypeError", "INVALID_DATA_TYPE")
SlotBad  == Put(Put(Missing, "MaterialNotFoundError", "MATERIAL_NOT_FOUND"), "MaterialSlotError", "SLOT_INDEX_OUT_OF_RANGE")
ShapeBad == Put(Bad, "InvalidPrimitiveTypeError", "INVALID_PRIMITIVE_TYPE")
AssetBad == Put(Put(Bad, "Unconfigured", "ASSET_LIBRARY_UNCONFIGURED"), "NotFound", "ASSET_NOT_FOUND")

Modeling(outcome) ==
  Told(Put(Bad, "ModelingError", "INVALID_ARGUMENT"), "MODELING_FAILED", outcome)

Reading(s, a) ==
  CASE a.tool \in {"inspect_scene", "inspect_selection"} -> Told(<<>>, "CONTEXT_UNAVAILABLE", Look(s, a))
    [] a.tool = "inspect_object"   -> Told(Missing, Internal, InspectObject(s, a))
    [] a.tool = "inspect_material" -> Told(SlotBad, Internal, InspectMaterial(s, a))
    [] a.tool = "inspect_mesh"     -> Told(MeshBad, Internal, InspectMesh(s, a))

Viewing(s, a) ==
  CASE a.tool = "capture_viewport" -> Told(Bad, "VIEWPORT_UNAVAILABLE", CaptureViewport(s, a))
    [] a.tool = "visual_verify"    -> Told(Bad, "VIEWPORT_UNAVAILABLE", VisualVerify(s, a))
    [] a.tool = "enable_tools"     -> Told(Bad, Internal, EnableTools(s, a))

Setting(s, a) ==
  CASE a.tool = "create_primitive" -> Told(ShapeBad, Internal, CreatePrimitive(s, a))
    [] a.tool = "create_camera"    -> Told(Bad, Internal, CreateCamera(s, a))
    [] a.tool = "create_light"     -> Told(Bad, Internal, CreateLight(s, a))
    [] a.tool = "set_shading"      -> Told(Bad, Internal, SetShading(s, a))
    [] a.tool = "add_modifier"     -> Told(Bad, Internal, AddModifier(s, a))

Handling(s, a) ==
  CASE a.tool = "transform_object" -> Told(Missing, Internal, TransformObject(s, a))
    [] a.tool = "delete_object"    -> Told(Missing, Internal, DeleteObject(s, a))
    [] a.tool = "duplicate_object" -> Told(Missing, Internal, DuplicateObject(s, a))
    [] a.tool = "import_asset"     -> Told(AssetBad, Internal, ImportAsset(s, a))
    [] a.tool = "set_material"     -> Told(Missing, Internal, SetMaterial(s, a))
    [] a.tool = "assign_material"  -> Told(Missing, Internal, AssignMaterial(s, a))

Building(s, a) ==
  CASE a.tool = "create_mesh" -> CreateMesh(s, a)
    [] a.tool = "create_extrusion" -> CreateExtrusion(s, a)
    [] a.tool = "create_beam" -> CreateBeam(s, a)
    [] a.tool = "loft_profiles" -> LoftProfiles(s, a)
    [] a.tool = "place_on_socket" -> PlaceOnSocket(s, a)
    [] a.tool = "create_from_spec" -> CreateFromSpec(s, a)
    [] a.tool = "mesh_edit" -> MeshEdit(s, a)
    [] a.tool = "join_objects" -> JoinObjects(s, a)
    [] a.tool = "parent_object" -> ParentObject(s, a)
    [] a.tool = "apply_transform" -> ApplyTransform(s, a)
    [] a.tool = "set_origin" -> SetOrigin(s, a)
    [] a.tool = "export_gltf" -> ExportGltf(s, a)
    [] a.tool = "add_shape_modifier" -> AddShapeModifier(s, a)
    [] a.tool = "frame_view" -> FrameView(s, a)

Filming(s, a) ==
  CASE a.tool = "create_prop" -> CreateProp(s, a)
    [] a.tool = "polish_model" -> PolishModel(s, a)
    [] a.tool = "character_library" -> CharacterLibrary(s, a)
    [] a.tool = "rig_character" -> RigCharacter(s, a)
    [] a.tool = "animate_sequence" -> AnimateSequence(s, a)
    [] a.tool = "animate_character" -> AnimateCharacter(s, a)
    [] a.tool = "set_environment" -> SetEnvironment(s, a)
    [] a.tool = "camera_move" -> CameraMove(s, a)
    [] a.tool = "set_look" -> SetLook(s, a)
    [] a.tool = "create_terrain" -> CreateTerrain(s, a)
    [] a.tool = "scatter" -> Scatter(s, a)
    [] a.tool = "unwrap_uv" -> UnwrapUv(s, a)
    [] a.tool = "bake_material" -> BakeMaterial(s, a)
    [] a.tool = "check_model" -> CheckModel(s, a)
    [] a.tool = "check_shot" -> CheckShot(s, a)
    [] a.tool = "camera_settings" -> CameraSettings(s, a)
    [] a.tool = "render_contact_sheet" -> RenderContactSheet(s, a)
    [] a.tool = "make_soundtrack" -> MakeSoundtrack(s, a)
    [] a.tool = "edit_video" -> EditVideo(s, a)
    [] a.tool = "render_shots" -> RenderShots(s, a)
    [] a.tool = "render_image" -> RenderImage(s, a)
    [] a.tool = "render_animation" -> RenderAnimation(s, a)

Reads  == {"inspect_scene", "inspect_selection", "inspect_object", "inspect_material", "inspect_mesh"}
Views  == {"capture_viewport", "visual_verify", "enable_tools"}
Sets   == {"create_primitive", "create_camera", "create_light", "set_shading", "add_modifier"}
Moves  == {"transform_object", "delete_object", "duplicate_object", "import_asset", "set_material", "assign_material"}
Builds == {"create_mesh", "create_extrusion", "create_beam", "loft_profiles", "place_on_socket",
           "create_from_spec", "mesh_edit", "join_objects", "parent_object", "apply_transform",
           "set_origin", "export_gltf", "add_shape_modifier", "frame_view"}

\* A tool hands its arguments to the method of the adapter that has its name.
Effect(s, a) ==
  CASE a.tool \in Reads  -> Reading(s, a)
    [] a.tool \in Views  -> Viewing(s, a)
    [] a.tool \in Sets   -> Setting(s, a)
    [] a.tool \in Moves  -> Handling(s, a)
    [] a.tool \in Builds -> Modeling(Building(s, a))
    [] OTHER             -> Modeling(Filming(s, a))

\* How many objects a call may add.
Makers == {"create_primitive", "create_camera", "create_light", "duplicate_object", "import_asset", "create_mesh",
           "create_extrusion", "create_beam", "loft_profiles", "mesh_edit", "rig_character", "create_terrain"}

Adds(a) ==
  CASE a.tool \in {"create_prop", "create_from_spec", "character_library"} -> 2
    [] a.tool = "scatter" -> IF a.p = None THEN 1 ELSE 3
    [] a.tool \in Makers  -> 1
    [] OTHER              -> 0
=============================================================================
