------------------------------ MODULE Encoder ------------------------------
(***************************************************************************)
(* GpuEncoder and its kernels: one host thread queues work on two CUDA     *)
(* streams, a mesh is brought up to date from buffers its producers still  *)
(* write, binned into tiles and drawn, converted into one of three slots   *)
(* and handed to NVENC, which may keep a slot for a while.  Kernels run    *)
(* when the stream gets to them.  A face is its shape, the tiles it covers *)
(* and its depth; a tile stands for its pixels; a picture is what every    *)
(* tile shows.  Devices that fail outright are left out.                   *)
(***************************************************************************)
EXTENDS Naturals, FiniteSets, SequencesExt

CONSTANTS
  Faces,              \* the faces of the bound topology are 1..Faces
  Tiles,              \* the tiles are 0..Tiles - 1
  Part,               \* device buffers a mesh comes in, with a producer each
  PartFaces,          \* the faces whose vertices each of them holds
  Geometry,           \* bound: the meshes that are uploaded
  ReferenceCapacity,  \* reference_capacity
  TileCapacity,       \* tile_capacity
  MaxPts              \* bound: frames encoded

Face == 1..Faces
Tile == 0..(Tiles - 1)
Slot == 0..2

VARIABLES
  scene,      \* "pattern", "mesh" or "large": which geometry is bound
  large_ready, previous_pts, next_slot,
  render_stream, convert_stream,   \* queued operations, oldest first
  fired,      \* events that have completed
  producing,  \* parts whose producer's stream still works
  buffers,     \* what the device buffers hold
  world,      \* owned vertices: large_buffers[0]
  projected,  \* projected vertices: mesh_vertices
  counts, offsets, lists, status,  \* tile lists and the geometry status
  rgba, nv12, retained,  \* the surface, the slot in work, the slots NVENC keeps
  call,       \* the call the host thread is in
  wanted,     \* history: the mesh of the newest update
  coded       \* history: what the newest encode() gave

encoderVars == <<scene, large_ready, previous_pts, next_slot, render_stream, convert_stream,
                 fired, producing, buffers, world, projected, counts, offsets, lists, status,
                 rgba, nv12, retained, call, wanted, coded>>

geometryVars == <<world, projected, counts, offsets, lists, status>>

NoShape == [tiles |-> {}, depth |-> 0, valid |-> TRUE]
NoFaces == [f \in Face |-> NoShape]
Idle == [name |-> "idle", slot |-> 0, pattern |-> 0]
Uncoded == [pts |-> 0, picture |-> <<>>]
NoFault == [invalid |-> FALSE, over |-> FALSE]
Background == 0

\* What a tile shows: the nearest face, the first of those at the same depth.
Nearest(mesh, candidates) ==
  IF candidates = {} THEN Background
  ELSE CHOOSE f \in candidates : \A g \in candidates \ {f} :
         mesh[f].depth < mesh[g].depth \/ (mesh[f].depth = mesh[g].depth /\ f < g)

Picture(mesh) == [t \in Tile |-> Nearest(mesh, {f \in Face : t \in mesh[f].tiles})]

\* The test pattern; no face has its number.
Pattern(number) == [t \in Tile |-> Faces + number]

\* What a surface held before: nothing may depend on it.
Unknown == Pattern(0)

Op(name, event, slot) == [op |-> name, event |-> event, slot |-> slot]
NoPart == "none"

---------------------------------------------------------------------------
\* Kernels

\* project_large_mesh: vertices that cannot be projected are flagged and left.
Project ==
  /\ projected' = [f \in Face |-> IF world[f].valid THEN world[f] ELSE projected[f]]
  /\ status' = [status EXCEPT !.invalid = \E f \in Face : ~world[f].valid]
  /\ UNCHANGED <<world, counts, offsets, lists>>

BoxOf(f) == IF status.invalid THEN {} ELSE projected[f].tiles

\* bin_large_mesh: how many faces touch each tile.
Bin ==
  /\ counts' = [t \in Tile |-> Cardinality({f \in Face : t \in BoxOf(f)})]
  /\ UNCHANGED <<world, projected, offsets, lists, status>>

\* scan_large_tiles: where the list of each tile begins, and whether all fit.
Scan ==
  LET references == {r \in Tile \X Face : r[2] <= counts[r[1]]}
  IN  /\ offsets' = [t \in Tile |-> Cardinality({r \in references : r[1] < t})]
      /\ status' = [status EXCEPT !.over = \/ Cardinality(references) > ReferenceCapacity
                                           \/ \E t \in Tile : counts[t] > TileCapacity]
      /\ UNCHANGED <<world, projected, counts, lists>>

\* fill_large_tiles: the faces' threads claim the places of each list in any
\* order.  After a fault nothing is written.
Fill ==
  /\ \E order \in [Tile -> SetToSeqs(Face)] :
       LET row(t) == SelectSeq(order[t], LAMBDA f : t \in BoxOf(f))
           holder(i) == {t \in Tile : offsets[t] <= i /\ i < offsets[t] + Len(row(t))}
       IN  lists' = IF status # NoFault THEN lists
                    ELSE [i \in 0..(ReferenceCapacity - 1) |->
                            IF holder(i) = {} THEN lists[i]
                            ELSE LET t == CHOOSE t \in holder(i) : TRUE
                                 IN  row(t)[i - offsets[t] + 1]]
  /\ UNCHANGED <<world, projected, counts, offsets, status>>

Closer(f, best) ==
  \/ best = Background
  \/ projected[f].depth < projected[best].depth
  \/ projected[f].depth = projected[best].depth /\ f < best

\* render_large_mesh: each pixel goes through the list of its tile.
Drawn ==
  [t \in Tile |-> FoldLeft(LAMBDA best, f : IF Closer(f, best) THEN f ELSE best, Background,
                           [i \in 1..counts[t] |-> lists[offsets[t] + i - 1]])]

\* What encode() has the render kernel draw.
Render(pattern) ==
  rgba' = CASE scene = "large" -> Drawn
            [] scene = "mesh" -> Picture(projected)
            [] OTHER -> Pattern(pattern)

---------------------------------------------------------------------------
\* Streams

Fires(event) == fired' = fired \cup {event}

\* The oldest operation of the render stream runs; one that waits for an event
\* holds the stream.
RenderStreamRuns ==
  /\ render_stream # <<>>
  /\ LET o == Head(render_stream)
     IN  \/ /\ o.op = "wait" /\ o.event \in fired
            /\ UNCHANGED <<geometryVars, rgba, fired>>
         \/ /\ o.op = "copy"
            /\ world' = [f \in Face |-> IF f \in PartFaces[o.event] THEN buffers[o.event][f] ELSE world[f]]
            /\ UNCHANGED <<projected, counts, offsets, lists, status, rgba, fired>>
         \/ o.op = "project" /\ Project /\ UNCHANGED <<rgba, fired>>
         \/ o.op = "bin" /\ Bin /\ UNCHANGED <<rgba, fired>>
         \/ o.op = "scan" /\ Scan /\ UNCHANGED <<rgba, fired>>
         \/ o.op = "fill" /\ Fill /\ UNCHANGED <<rgba, fired>>
         \/ o.op = "render" /\ Render(o.slot) /\ UNCHANGED <<geometryVars, fired>>
         \/ o.op = "record" /\ Fires(o.event) /\ UNCHANGED <<geometryVars, rgba>>
  /\ render_stream' = Tail(render_stream)
  /\ UNCHANGED <<scene, large_ready, previous_pts, next_slot, convert_stream, producing, buffers,
                 nv12, retained, call, wanted, coded>>

ConvertStreamRuns ==
  /\ convert_stream # <<>>
  /\ LET o == Head(convert_stream)
     IN  \/ o.op = "wait" /\ o.event \in fired /\ UNCHANGED <<nv12, fired>>
         \/ o.op = "convert" /\ nv12' = rgba /\ UNCHANGED fired
         \/ o.op = "record" /\ Fires(o.event) /\ UNCHANGED nv12
  /\ convert_stream' = Tail(convert_stream)
  /\ UNCHANGED <<scene, large_ready, previous_pts, next_slot, render_stream, producing, buffers,
                 geometryVars, rgba, retained, call, wanted, coded>>

---------------------------------------------------------------------------
\* Geometry, on the host thread

Unbound == call = Idle /\ scene = "pattern" /\ previous_pts = 0

\* mesh(): the small topology is projected by the caller and never changes.
BindMesh(mesh) ==
  /\ Unbound /\ \A f \in Face : mesh[f].valid
  /\ scene' = "mesh" /\ projected' = mesh /\ wanted' = mesh
  /\ UNCHANGED <<large_ready, previous_pts, next_slot, render_stream, convert_stream, fired,
                 producing, buffers, world, counts, offsets, lists, status, rgba, nv12, retained,
                 call, coded>>

\* large_mesh(): the full-size topology, without geometry yet.
BindLargeMesh ==
  /\ Unbound
  /\ scene' = "large" /\ large_ready' = FALSE
  /\ UNCHANGED <<previous_pts, next_slot, render_stream, convert_stream, fired, producing, buffers,
                 geometryVars, rgba, nv12, retained, call, wanted, coded>>

\* finish_geometry() clears counters and status, queues the kernels and waits.
GeometryKernels ==
  <<Op("project", NoPart, 0), Op("bin", NoPart, 0), Op("scan", NoPart, 0), Op("fill", NoPart, 0),
    Op("record", "geometry", 0)>>

\* What the host does when the geometry is on the device: the old one no longer counts.
StartsUpdate(mesh) ==
  /\ call = Idle /\ scene = "large"
  /\ large_ready' = FALSE /\ wanted' = mesh
  /\ status' = NoFault
  /\ call' = [Idle EXCEPT !.name = "update"]

\* update_mesh_host(): a copy that is complete before anything is queued.
UpdateMeshHost(mesh) ==
  /\ StartsUpdate(mesh)
  /\ world' = mesh
  /\ render_stream' = render_stream \o GeometryKernels
  /\ fired' = fired \ {"geometry"}
  /\ UNCHANGED <<scene, previous_pts, next_slot, convert_stream, producing, buffers, projected,
                 counts, offsets, lists, rgba, nv12, retained, coded>>

\* MUTANT: the copy does not wait for the producers.
PartOps_Unordered(parts) == [i \in 1..Len(parts) |-> Op("copy", parts[i], 0)]

\* The render stream waits for every producer before the first copy.
PartOps(parts) ==
  [i \in 1..Len(parts) |-> Op("wait", parts[i], 0)] \o [i \in 1..Len(parts) |-> Op("copy", parts[i], 0)]

\* update_mesh_device(): the parts are still being written by their producers.
UpdateMeshDevice(mesh) ==
  /\ StartsUpdate(mesh)
  /\ producing' = Part
  /\ render_stream' = render_stream \o PartOps(SetToSeq(Part)) \o GeometryKernels
  /\ fired' = fired \ (Part \cup {"geometry"})
  /\ UNCHANGED <<scene, previous_pts, next_slot, convert_stream, buffers, world, projected,
                 counts, offsets, lists, rgba, nv12, retained, coded>>

\* A producer's stream gets to the event that update_mesh_device recorded on it.
ProducerFinishes(p) ==
  /\ p \in producing
  /\ producing' = producing \ {p}
  /\ buffers' = [buffers EXCEPT ![p] = wanted]
  /\ Fires(p)
  /\ UNCHANGED <<scene, large_ready, previous_pts, next_slot, render_stream, convert_stream,
                 geometryVars, rgba, nv12, retained, call, wanted, coded>>

\* Outside the call the SDK may write its buffers as it likes.
SdkReusesBuffers ==
  /\ call.name # "update" /\ \E p \in Part : buffers[p] # NoFaces
  /\ buffers' = [p \in Part |-> NoFaces]
  /\ UNCHANGED <<scene, large_ready, previous_pts, next_slot, render_stream, convert_stream, fired,
                 producing, geometryVars, rgba, nv12, retained, call, wanted, coded>>

\* The status is read after the last kernel; a fault raises.
UpdateReturns ==
  /\ call.name = "update" /\ "geometry" \in fired
  /\ large_ready' = IF status = NoFault THEN TRUE ELSE large_ready
  /\ call' = Idle
  /\ UNCHANGED <<scene, previous_pts, next_slot, render_stream, convert_stream, fired, producing,
                 buffers, geometryVars, rgba, nv12, retained, wanted, coded>>

---------------------------------------------------------------------------
\* encode()

ConvertOps(slot) ==
  <<Op("wait", "rendered", 0), Op("convert", NoPart, slot), Op("record", "converted", 0)>>

\* A frame, whose number is its test pattern, takes the next slot, unless NVENC still keeps it: then encode() raises,
\* with the slot and the PTS used up.
EncodeBegins ==
  /\ call = Idle /\ previous_pts < MaxPts
  /\ scene = "large" => large_ready
  /\ previous_pts' = previous_pts + 1
  /\ next_slot' = (next_slot + 1) % 3
  /\ coded' = Uncoded /\ nv12' = Unknown
  /\ \/ /\ next_slot \in retained
        /\ UNCHANGED <<render_stream, convert_stream, fired, call>>
     \/ /\ next_slot \notin retained
        /\ call' = [name |-> "encode", slot |-> next_slot, pattern |-> previous_pts]
        /\ render_stream' = render_stream \o <<Op("render", NoPart, previous_pts), Op("record", "rendered", 0)>>
        /\ convert_stream' = convert_stream \o ConvertOps(next_slot)
        /\ fired' = fired \ {"rendered", "converted"}
  /\ UNCHANGED <<scene, large_ready, producing, buffers, geometryVars, rgba, retained, wanted>>

\* The converted slot goes to NVENC, which gives the coded frame and may keep the
\* slot, or fails.
EncodeEnds ==
  /\ call.name = "encode" /\ "converted" \in fired
  /\ \/ /\ coded' = [pts |-> previous_pts, picture |-> nv12]
        /\ retained' \in {retained, retained \cup {call.slot}}
     \/ UNCHANGED <<coded, retained>>
  /\ call' = Idle
  /\ UNCHANGED <<scene, large_ready, previous_pts, next_slot, render_stream, convert_stream, fired,
                 producing, buffers, geometryVars, rgba, nv12, wanted>>

NvencReleases(slot) ==
  /\ slot \in retained
  /\ retained' = retained \ {slot}
  /\ UNCHANGED <<scene, large_ready, previous_pts, next_slot, render_stream, convert_stream, fired,
                 producing, buffers, geometryVars, rgba, nv12, call, wanted, coded>>

EncoderInit ==
  /\ scene = "pattern" /\ large_ready = FALSE /\ previous_pts = 0 /\ next_slot = 0
  /\ render_stream = <<>> /\ convert_stream = <<>> /\ fired = {}
  /\ producing = {} /\ buffers = [p \in Part |-> NoFaces]
  /\ world = NoFaces /\ projected = NoFaces
  /\ counts = [t \in Tile |-> 0] /\ offsets = [t \in Tile |-> 0]
  /\ lists = [i \in 0..(ReferenceCapacity - 1) |-> 1] /\ status = NoFault
  /\ rgba = Unknown /\ nv12 = Unknown /\ retained = {}
  /\ call = Idle /\ wanted = NoFaces
  /\ coded = Uncoded

EncoderNext ==
  \/ RenderStreamRuns \/ ConvertStreamRuns
  \/ \E mesh \in Geometry : BindMesh(mesh) \/ UpdateMeshHost(mesh) \/ UpdateMeshDevice(mesh)
  \/ BindLargeMesh \/ UpdateReturns
  \/ \E p \in Part : ProducerFinishes(p)
  \/ SdkReusesBuffers
  \/ EncodeBegins \/ EncodeEnds
  \/ \E slot \in Slot : NvencReleases(slot)

EncoderSpec == EncoderInit /\ [][EncoderNext]_encoderVars

---------------------------------------------------------------------------
\* Properties

\* A frame that has just been coded shows exactly the newest mesh, whole and with
\* every face in its place, or the pattern that was asked for: never a mesh that
\* was refused, one still being written or mixed with the one before, nor the
\* surface of an earlier frame (gpu_encoder.cpp: "no triangle deletion", "source
\* geometry released only after owned copy/projection/binning").
PictureIsReference ==
  [][coded' # coded /\ coded' # Uncoded =>
       coded'.picture = IF scene = "pattern" THEN Pattern(call.pattern) ELSE Picture(wanted)]_encoderVars
=============================================================================
