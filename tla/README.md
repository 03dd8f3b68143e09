# mGL and the NUON SDK run-time libraries in TLA+

TLA+ modules, TLC configurations and TLAPS proofs about the run-time libraries
of the NUON SDK: **mGL**, the OpenGL-like library that spreads rendering over
the processing elements (MPEs) of the chip, and the two lower 3D libraries,
**MML3D** (execute buffers drawn by a pipeline on several MPEs) and **M3DL** (a
chain of renderers that is sent drawing commands). Paths are relative to the
repository; `mgl/x.c` stands for `src/vmlabs/lib/src/mgl/x.c`, and `MML3D/`,
`m3dl/` and the others likewise.

To check a run: `tlc -config <cfg> <module>` in this directory, with the names
of `PROJECT.json`; to check the proofs: `tlapm <module>`.

1. [Inventory](#1-inventory)
2. [Plan](#2-plan)
3. [The modules](#3-the-modules)
4. [What the runs check](#4-what-the-runs-check)
5. [What is proved](#5-what-is-proved)
6. [Disagreements found](#6-disagreements-found)
7. [What is not modelled, and why](#7-what-is-not-modelled-and-why)

## 1. Inventory

### The machine

A NUON chip has four MPEs, each with a small local memory for code and data.
One of them, the *controller*, runs the application and the libraries linked to
it. A library asks the BIOS for further MPEs, writes code and data into their
memories by DMA, starts them, and from then on exchanges four-word packets with
them over the *comm bus*. A packet that arrives at the controller interrupts
it. There is no operating system and no locking: the controller's program, its
interrupt handlers, the other MPEs and the video encoder run side by side and
share main memory.

### The components

| component | state | operations | interacts with |
|---|---|---|---|
| **mGL dispatcher** `mgl/render.c`, `begend.c`, `glutils.c`, `glmutils.s`, `mpe_manage.s`, `loadpoly.s` | vertex buffer and its counters, one task counter per MPE, the MPE's event loop and loader | `glBegin`, `glVertex*`, `glEnd`, `glFlush`, `glFinish`, `mglDrawBuffer`, `mglWaitForMPEs`, `mglInvalidateMPE`; `CommRecvInterrupt`; `EventHandler`, the loaders | packets to and interrupts from the MPEs; the MPEs read the vertex buffer by DMA |
| **mGL state validation** `pipeline.c`, and the setters of `api.c`, `lighting.c`, `matrix.c`, `mgl.c` | settings, `gc->validationFlags`, derived data, per MPE: flags, loaded overlays, data blocks | dozens of setters, `ValidateGC`, `ValidateMPE` | run from every drawing call; writes into MPE memory |
| **mGL screen buffers** `mgl.c`, `api.c` | front, back and render buffer, the field of the last swap | `mglSwapBuffers`, `mglVideoSync`, `glDrawBuffer`, `glClear` | the video encoder, which changes the displayed buffer at field boundaries; the MPEs, which draw |
| **mGL context and textures** `mgl.c`, `glmutils.s` | the context, allocated MPEs, the comm bus interrupt vector, default and bound texture | `mglInit`, `mglEnd`, `mglNewTexture`, `mglDeleteTexture`, `mglSetTexture` | BIOS allocation of MPEs, vectors, memory; reports of MPEs |
| mGL matrix stacks `matrix.c` | three stacks and their depths | `glPushMatrix`, `glPopMatrix`, the multiplications | every operation changes a current matrix and raises the flags of the validation |
| mGL texture loaders `bmp.c`, `jpg.c` | none of their own | `mglInitBMPTexture`, `mglInitJPEGTexture` | textures |
| mGL kernels `raster*.s`, `clip.s`, `light.s`, `xform.s`, `trivia.s` | MPE registers and local memory | one call per triangle | overlays of the validation |
| **MML3D buffers and pipe** `MML3D/m3dbuf.c`, `m3dadd.s`, `load3d.c`, `loadpoly.s`, `pipeline.s` | execute buffers on the heap, the hints and the cached pipe, the list of MPEs | `m3dSizeBuf`, `m3dStartTriangle`, `m3dAddVertex`, `m3dRecycleBuf`, `m3dFreeBuf`, `m3dHint`, `m3dInit`, `m3dExecuteBuffer` | copies the pipe to MPEs, starts them, waits for each; they fetch triangles from the buffer by DMA |
| MML3D matrices, cameras, textures `MML3D/m3dmat.c`, `m3dcamera.c`, `m3djpeg.c`, ... | none of their own | arithmetic on the caller's data | what is put into a buffer |
| **M3DL command ring** `m3dl/mpr.s`, `mprsncdr.s` | per renderer: a ring of packets, counters of commands received and executed, an interrupt mask | `MPR_CommReceive` (interrupt), `MPR_AwaitCommand`, `MPR_NextCommand`, `MPR_SendPacket` | packets from the program and from the renderer before it |
| **M3DL chain and frames** `m3dl/setup.c`, `removmpr.s`, `scrmode.c`, `drawsync.s`, `drawprim.s`, `setscbuf.s`, `scrconv.s`, and the renderers' overlays `mprscrbf.s`, `mprtile.s`, `mprscrcv.s`, `mprsncdr.s`, `mprbrkdr.s` | the range of MPEs, the renderer that is next, two draw contexts with their buffers; per renderer its screen buffer and outstanding DMA | `mdSetupMPRChain`, `mdRemoveMPRChain`, `mdActiveDrawContext`, `mdDrawTile`/`Sprite`/`Poly`/`Image`, `mdDrawSync`, `mdClearDraw`, `mdClearDisp`, the swaps | packets to one or all renderers, a token that travels along the chain; the video encoder |
| M3DL bitmaps, objects `m3dl/mbm.c`, `rendobj.c` | none of their own | conversions of the caller's data | the drawing calls |
| **MML2D** `MML2D/src/Mlsource` | open command sequence, pixmaps | `mmlOpenSeq` ... `mmlExecuteSeq`, drawing primitives | a call of the primitive, or a packet to a dispatcher MPE |
| mutil `mutil/` | none of its own | wrappers of BIOS calls | everything above |
| libjpeg, samples, host tools, documentation, prebuilt binaries | - | - | - |

### What is hard about it

* **Interleaving.** The task counter of an MPE is incremented by the library
  with a load and a store (`mgl/render.c:91`), set by `ValidateMPE`
  (`pipeline.c:776`) and decremented by an interrupt handler. Everything that
  waits, waits for these counters.
* **Shared memory without locks.** MPEs read vertices out of the controller's
  buffer while the application goes on filling it; the library rewinds the
  buffer, and writes overlays into MPE memories, relying on who must be idle.
* **Staleness.** Dirty flags are raised by dozens of setters, consumed once by
  `ValidateGC` and once more per MPE, and some are withheld while a feature is
  disabled. An MPE that takes no part in a draw must catch up later.
* **Time.** A swap takes effect when the video encoder begins the next field.
* **Interrupt and main code.** A renderer's receive interrupt fills the ring that
  its main code empties, masks itself when the ring is full, and relies on the
  main code to unmask it (`m3dl/mpr.s:77-92`, `562-605`).
* **One sender too many.** A command of several packets is told from the next one
  by counting packets; the program and the renderer before both send to the same
  ring (`mpr.s:584-600`, `mprsncdr.s:61-102`).
* **A token instead of an acknowledgement.** `mdDrawSync` sends to the first
  renderer only and listens to the last only, and takes the answer for the end
  of everything sent to anyone (`drawsync.s:33-75`).
* **Ownership of memory.** An execute buffer has two pointers to its block and
  three functions that grow it, each with its own formula
  (`MML3D/m3dbuf.c:71-79`, `118-139`, `m3dadd.s:20-40`).
* **Partition of work.** Every MPE starts at its own place and strides by the
  number of MPEs, and sees the end of the buffer one fetch late
  (`MML3D/loadpoly.s:117-174`).
* **Partial failure.** `mglInit` acquires a context, MPEs, the interrupt vector, the
  texture list and the default texture; all but the vector can fail.

The properties that make each component correct are those of section 4; each
line where something can go wrong is in `PROJECT.json` under `hazards`, with
the properties that cover it or the reason why none does.

## 2. Plan

In order of importance to the system; what is done is marked.

1. *(done)* `MglDispatch` with the abstract `RenderService` it implements, its
   inductive invariant `MglDispatchInv`, and the proofs.
2. *(done)* `MglValidate`: dirty flags, overlays and data on several MPEs.
3. *(done)* `MglSwap`: screen buffers, fields, MPEs; proofs.
4. *(done)* `MglLifecycle`: acquisition, failure, release; proofs.
5. *(done)* `MprRing`, a renderer's ring, with the abstract `CommandQueue` it
   implements; proofs, the refinement included.
6. *(done)* `MprChain`: the chain of renderers, its token, frames and their
   conversion, on top of what `MprRing` promises; proofs that the token
   means what it is taken for, and of what becomes of the frames.
7. *(done)* `M3dBuffer`: an execute buffer's memory, the cached pipe and the
   MPEs that share the triangles; proofs.
8. `MmlSequence`: recording, appending to, replaying and releasing a sequence of
   MML2D.
9. *(done)* An inductive invariant for `MglValidate` ("what is not flagged is
   current"), and from it `DrawsWithCurrentCode` and `DrawsWithCurrentData`.
10. *(done)* `FrameQueue`, which the screen buffers of mGL and those of M3DL
    implement; proofs of both refinements.

Abstract specifications: `RenderService`, `CommandQueue`, `FrameQueue` (done).
Bounds of the planned runs: sequences of three commands.

## 3. The modules

`MC*` modules give constants their values and hold nothing else. Definitions
named `Bad*` are slips a programmer could make in the definition they stand
before; no specification uses them, and each of them breaks the property it
is listed with in `PROJECT.json`.

### MglDispatch, RenderService, MglDispatchRefinement, MglDispatchInv

The controller is a sequential program with a location `pc` (`app`: in the
application). One action is one stretch of code without a visible
intermediate state:

| model | code |
|---|---|
| `entry`, `entryStart` | `gc->vertexEntryCounter`, `gc->vertexEntryStartCounter` |
| `vertexFormat`, `gcDirty`, `nextFormat` | `gc->vertexFormat`; `validationFlags # 0`; the format the current settings lead to |
| `packet`, `left`, `bits`, `reg` | locals of `RenderDirect`; `reg` is the register of `taskCounter++` |
| `taskCounter`, `mpeFlags`, `loader` | the fields of `GLMPE` |
| `xmit`, `commrecv` | a report in flight; a packet in an MPE's receive register |
| `task` | the registers the loader walks through the packet with |
| `owed` | history: the MPEs in the bitfields `mglDrawBuffer` returned per buffer |

The interrupt handler (`CommRecvInterrupt`) may run between any two steps of the
controller, in particular between the load and the store of `taskCounter++`.
The data cache is not modelled: the code flushes it before each packet that
refers to its own buffer, and requires it of the caller of `mglDrawBuffer`
(`render.c:101`).

What `ValidateMPE` copies is reduced to the one datum that has to do with the
packets, the vertex loader. `MglValidate` models the rest.

The specification starts after a successful `mglInit`. The application makes
legal calls: vertices between `glBegin` and `glEnd`, whole triangles, and it
owns a buffer of its own again only after it has waited.

`RenderService` is the abstract promise: workers with at most one job each,
reading shared buffers; an arena that is appended to above everything being
read and rewound when nobody reads; under fairness every job gets done.
`MglDispatchRefinement` maps the dispatcher to it. The mapping of the arena's
top has one subtlety: `FlushVertexBuffer` clears the counters of a full buffer
*before* it waits (`begend.c:41-45`), so while it waits the top is still the
end of the buffer.

### MglValidate

The settings (`gl`) are a record with one small set of values each; a setter is
an action that changes the setting and raises or withholds the flags its code
does. A derived block is the tuple of the settings it is computed from, so
"current" is equality with what would be derived now; arithmetic on colours
and matrices plays no part. `packed` is an MPE's memory from
`VERTEX_LOADER_OVERLAY_ORIGIN` on, word by word: loader, lighter, transformer
and trivial-clip overlays lie behind one another at addresses that depend on
each other's lengths (`pipeline.c:830` on), which is why replacing one forces
those after it to be loaded again. `Junk` is memory nobody has defined.

Which MPE gets a packet, and when, is `MglDispatch`'s subject; here it is any
MPE at any time within a drawing call. `glMaterial` between `glBegin` and
`glEnd` is left out (setters require that nothing is being drawn).

An application is a set of settings that it changes (`Applications`), and
`Rendering` says which MPEs each has: only these exist for it. Settings that meet
in no condition of `pipeline.c` multiply the states without adding a case, and
are put into different applications.

### MglSwap

The ring of screen buffers, the video encoder (`configured`, which a call of
`_VidConfig` sets, and `displayed`, which follows at the next field), and the
work of MPEs as the set of pairs (buffer, mode it was asked for in). Field
numbers are compared for equality only, so the model keeps whether a field has
begun since the number was taken; a wait of exactly 2^32 fields is left out. A
field may begin between any two steps of `mglSwapBuffers`, in particular
between `_VidConfig` and the reading of the field number. With one or two
buffers the application draws only after `mglVideoSync`, as the samples do
(`sample/mgl/room/main.c:195`).

### FrameQueue

The promise that both libraries make to a program that draws frames: begin to
draw into buffers that are neither on the screen nor coming there, finish
drawing, hand over a finished buffer once the one before it is on the screen,
and begin a field. Number and order of the buffers are left open. A library that
leaves it to the program to wait for the drawing may also hand a buffer over
early; `late` then keeps it until everything is known to be drawn (`AllDone`).

`MglSwap` implements it with what is rendered in back mode for `drawn` and
without ever handing over early, since `mglSwapBuffers` waits for the MPEs;
`MprChain` with everything that is on its way to memory or waits in a renderer's
ring, conversions included, and with the buffers that the program swapped
without a sync for `late`.

### MglLifecycle

A block of memory is `"null"`, `"live"` or `"freed"`. `mglInit` is one action
per acquisition, with every failure as an alternative; `mglEnd` one action per
release, in the code's order, and for each MPE first `_MPEStop` and then
`_MPEFree`. MPEs that were drawing when `mglEnd` was called go on until they are
stopped, and their reports interrupt at any point, after the MPE has been stopped
and the context freed too. Which free MPE the BIOS gives, and whether it has a
mini-BIOS, is left open. `found` is the comm bus vector before mGL, NULL (`"none"`)
or the application's: `mglEnd` does not put a NULL back (`mgl.c:457`), so that
mGL's handler then outlives its context.

A default texture that cannot be had stays NULL and `mglInit` goes on, as the
release build does; there is no write through NULL in the model, only the state
after it. `Disciplined` applications call `mglEnd` once for each `mglInit` that
returned 0, at whatever moment.

### MprRing, CommandQueue

One renderer of M3DL and whoever sends to it. Packets are numbered in the order
they are sent, so that "the right packet" is a number; a command is a run of
packets, and `Layouts` are all the ways commands of 1 to `MaxPackets` packets can
follow one another. What a packet holds is left out except for the length in the
header, which `LengthIn` reads.

| model | code |
|---|---|
| `ring`, `readPtr`, `writePtr` | `MPR_CmdBuffer`, `MPR_PacketReadPtr`, the write pointer of `MPR_CmdInfo`; slots for addresses |
| `pending` | the packets the handler still expects of the command that comes in |
| `written`, `read` | `MPR_CmdWritten`, `MPR_CmdRead` |
| `commrecv`, `interrupt`, `masked` | the receive register, the interrupt source, the software mask of it (`SW2`) |
| `handler`, `main` | where the interrupt handler and the main code are |

The handler is three steps, because two things can happen inside it: between
clearing the source and reading the register nothing new may come, and after the
read the next packet does, and raises the source again. The handler preempts the
main code at any of its steps, never the other way round. A sender spins until
the register is empty, so the bus neither loses nor reorders the packets of one
renderer. Texture and code fetches of a command are part of its execution and
take any time. The model starts with `MPR_Start` done.

`CommandQueue` is the promise: whole commands are taken in the order they came,
one at a time. A command counts as sent when its last packet has been stored.

### MprChain

The whole of M3DL in use: the program, `NumMPRs` renderers, the video encoder.
A renderer's ring is a queue of whole commands of bounded length, which is what
`MprRing` shows it to be as long as nobody sends between the packets of another
sender's command; that premise is the property `CommandsArriveWhole` here.

A library call becomes a list `todo` of what it sends and waits for, in order,
and the actions under `Within` do one entry after the other: send the first
packet, send the last packet (which waits for room), await the answer of the
last renderer, wait for a field, change the displayed buffer, go on to the next
buffer, give the MPEs back. Calls of the program are the actions under `App`:
any call may follow any other, with these restrictions, which the examples in
`src/vmlabs/sample` observe and the code takes for granted:

* primitives are drawn after `mdActiveDrawContext` has been called for the frame
  (`selected`);
* `mdClearDraw` and `mdClearDisp`, which draw to every buffer, are called before
  anything is shown (`M3DL/m3dl.h:377` says not to execute them every frame).

`SwapDrawBufYCC` waits for no renderer, unlike `SwapDrawBufGRB`, and may be called
at any time. The other examples call `mdDrawSync` before it, but
`sample/m3dl/Background/bground.c` draws its sprites after the sync (lines 197 to
220) and swaps: that frame is on the screen, or about to be, while it is still
being drawn. `synced` records whether the answer to everything sent has come, and
the history `late` collects the buffers handed over without it, until the next
answer. `MaxEarly` bounds their number in the run; nothing else restricts the swap.

A draw command carries, as a history, the buffer the program means; the renderer
draws to the one its `sb` says. `converted` counts for each line how often it has
been converted for this frame. The two tokens are `SD` (SYNC) and `BD` (BREAK),
on which a renderer stops: `"halting"` is the stretch between forwarding the
token and the halt instruction. Other programs may hold MPEs (`taken`), and may
send the program a packet that it did not ask for (`Stray`).

`_VidSetup`, which shows the first buffer in an unspecified state, is left out:
nothing is shown before the first swap. Settings other than the screen buffer
(`setblend.s` and its like) are broadcast in the same way and left out.

### M3dBuffer

A buffer of MML3D and the pipe that draws it. The heap is modelled by its blocks:
`live` gives each block that is allocated its size in bytes, `realloc` returns a
fresh one, and `misused` records that `realloc` or `free` was passed a pointer that
the heap had not handed out. A pointer is a block and the bytes from its start
(`skip`), so that `realentries`, which `realloc` returned, and `entries`, the first
vector boundary at or after it, differ by as much as the block lies beside a
boundary (`Gaps`). What C's heap guarantees about this is not in the repository,
so every block may lie differently.

| the code | in the model |
|---|---|
| a growth allocates 16 bytes more than the entries take and aligns `entries` (`m3dbuf.c:73-78`, `m3dadd.s:60-94`) | `Grow`; the old contents come to the start of the new block, so the entries survive if the gap is the same (`lost` otherwise) |
| `m3dFreeBuf` frees `entries` (`m3dbuf.c:99`) | misuse, if the block does not begin on a boundary |
| `m3dSizeBuf` reallocates `entries`, does not align it, and leaves `realentries` (`m3dbuf.c:128-131`) | misuse, or two pointers to different blocks; a growth then begins from the old one (`outgrown`) |

Of the entries only the number is kept, and `lost` how many of the first ones were
not carried over. After a misuse the heap may do anything, and the buffer is
followed no further (`Sane`); a `realloc` that finds no memory stops the program.

An MPE is a record of what `loadpoly.s` and `pipeline.s` keep: the triangles left,
the number of the triangle to be fetched next, the two input buffers, which of
them is fetched into and which is read, the fetch on its way. `writing` holds the
MPEs whose pixels are on their way to the screen. `DMADone` ends a fetch and
`PixelsDone` the writing of an MPE, each at any time. `Run3DPipe` starts the MPEs
one at a time and waits for all of them. A triangle that is clipped away is drawn by doing nothing. The build is the
makefile's (`INCLUDE_EDGEAA = 0`). `m3dInit` may get any list of different MPEs,
the empty one too: then `m3dExecuteBuffer` draws nothing, as it does in the code.

## 4. What the runs check

| run | instance | what it shows |
|---|---|---|
| `dispatch` | 2 MPEs, a buffer of two vertices (16 scalars), both vertex sizes, one application buffer of 7 vertices | the dispatcher's safety properties, that every call returns, and that it implements the fair `RenderService` |
| `dispatch_mixed` | a buffer of 24 scalars; the format changes with vertices buffered | violation of `InBounds` (section 6) |
| `validate` | 6 applications on 1 MPE covering every setting, 1 application on 2 MPEs | every packet is rendered with current data and by current, correctly placed code, also on an MPE that was passed over and catches up |
| `validate_lighter`, `validate_texture` | 1 application each | two violations (section 6) |
| `swap` | 2 and 3 buffers, front and back drawing | no tearing, no lost frame, no unfinished frame, no hang: a `FrameQueue` |
| `lifecycle` | 3 MPEs of which any are taken, 2 asked for, 2 textures, a vector that was NULL or not, `mglEnd` at any moment | nothing leaks, the vector comes back, MPEs are stopped before they are given back, reports and draws meet live objects |
| `lifecycle_twice` | the same, `mglEnd` also after a failed `mglInit` and twice | violation of `EndsLiveContext` (section 6) |
| `ring` | a ring of 4 packets, 4 commands of 1 to 3 packets | no packet is lost or mixed up, a full ring is emptied again, the ring is a queue |
| `chain` | 2 renderers, rings of 2 commands, 3 lines, all drawing modes, one unsynced swap between two answers | the token means what it is taken for; nobody waits in a circle; frames are whole; MPEs come and go |
| `m3d` | up to 2 MPEs, 3 triangles, growth by 20 entries, sizing to 14, blocks on a vector boundary or 8 bytes before one, 2 hints | the buffer stays in its block, and the heap gets its own pointers back where it aligns its blocks; every triangle is drawn once, as hinted |
| `m3d_sized` | growth by 5 entries, sizing to 7, blocks on vector boundaries | violation of `OnlyGetsLarger` (section 6) |

The properties of the dispatcher, validation, swap and lifecycle:

* **TaskAccounting** - the counter of an MPE is the number of its packets and
  reports, wherever they are on their way (about to be sent, in the receive
  register, being rendered, being reported, in flight), and never above one.
* **CopiesToIdleMPE** - code and data are written into an MPE's memory only
  while it is halted or in its receive loop.
* **LoaderMatchesPacket** - what an MPE is handed has the layout its loader reads.
* **NoOverwrite**, **InBounds** - a vertex is stored only inside the buffer and
  above what is still to be read.
* **BitfieldCoversReaders** - waiting for the bitfield that `mglDrawBuffer`
  returned is enough to own the buffer again (`doc/mgl_release.txt:10-19`).
* **FinishMeansIdle** - nothing is outstanding when `glFinish` or the wait in
  `mglSwapBuffers` is over.
* **ImplementsFairService** - the dispatcher is a `RenderService` in which every
  job gets done.
* **DrawsWithCurrentData**, **DrawsWithCurrentCode** - at every packet, the
  blocks that the settings make use of are those the settings call for, and
  each overlay is the right one, whole and at its place.
* **NoTearing**, **FrameFinished** - what is rendered into the back buffer is off
  the screen; nobody, in front mode either, renders into the buffer handed over.
* **ImplementsFrames** - the screen buffers are a `FrameQueue`.
* **NoLeak**, **VectorRestored** - wherever `mglInit` fails and whenever `mglEnd` is
  called, nothing of mGL's stays allocated, and the interrupt vector is again the
  one it found (a NULL excepted).
* **ReportsMeetContext** - an MPE's report, however late, is not counted in a
  context that has been freed, unless the vector before mGL was NULL: restoring the
  vector comes before freeing the context.
* **OnlyOwnMPEsRun** - in the middle of `mglEnd`'s loop too, no MPE runs mGL's code
  that may be somebody else's: it is stopped first and freed then.
* **BoundTextureLive** - what the next draw would use as texture is allocated.
* **CallsReturn** - every call returns.

of a renderer's ring:

* **ExecutesOwnPackets** - from the moment a command is taken until it is freed
  its packets lie in the ring, in order, where the code looks for them.
* **NoPacketLost** - no packet of a command still to be executed has been
  overwritten: the handler masks itself in time, and is masked while a command
  is being freed.
* **ImplementsQueue**, **AllExecuted** - the ring is a `CommandQueue`, and every
  command that was sent is executed: the sender, the handler's mask and the main
  code do not wait for one another in a circle.

of the chain:

* **SyncMeansDone** - when `mdDrawSync` has returned, no renderer has a command
  left or a write on its way.
* **DrawnWhereMeant** - a primitive lands in the buffer that was active when the
  program drew it, whichever renderer gets it and whenever.
* **NoTearing** - no renderer has, or will have, writes to the buffer that is
  shown or will be at the next field, unless the program handed that frame over
  without a sync and no answer has come since. So one early frame does not spoil
  the others.
* **ConvertsFinishedFrame**, **FrameConverted** - lines are converted only when
  nobody draws any more, and when the converted buffer is shown each of its lines
  has been converted exactly once.
* **ImplementsFrames** - the screen buffers are a `FrameQueue`; in particular the
  base of the display is changed only when the base set before has come on the
  screen.
* **CommandsArriveWhole** - between the packets of the program's command no
  token reaches the same ring.
* **OnlyOwnMPEsRun** - a renderer runs on an MPE that M3DL holds, and when the
  MPEs are given back the renderers have nothing left to do but halt.
* **NoDeadlock**, **CallsReturn** - during a call the program or a renderer can go
  on, and the call returns.

of an execute buffer and its pipe:

* **BufferSound** - the buffer's entries, and those there is said to be room for,
  lie in one live block. Unless a buffer outgrows the size that `m3dSizeBuf` gave
  it, entries survive every growth if blocks lie alike to the vector boundaries, and
  the heap gets back only what it has handed out if they all begin on one; no block
  is forgotten otherwise.
* **DrawsOwnTriangle** - the triangle that an MPE draws is the one whose turn it
  is, while the next one is fetched.
* **DrawsAsHinted** - the MPEs run the pipe the hints ask for, although it is
  cached between calls.
* **DrawsEachOnce**, **ExecuteReturns** - when the call returns, and it does, each
  triangle of the buffer has been drawn once, by whichever MPE.
* **NothingLeftBehind** - when it has returned, the pixels of all MPEs are on the
  screen, and none of them has left a transfer behind.

Where a module's type invariant, or an invariant that is little more than one,
is a theorem (section 5), no run repeats it; `ImplementsService` is part of
`ImplementsFairService`, and `EveryFrameShown` of `ImplementsFrames`.

### Why the bounds are enough

*Dispatch.* Two MPEs are what `mglDrawBuffer` splits work over; with a third
nothing new meets, because every interaction is between the controller and one
MPE, and the loops over MPEs are tried at their first and last index. A buffer of
two eight-scalar vertices (`MAX_VERTS` is 3*512 in `mpedefs.h:46`) or four
four-scalar ones fills up in the middle of a triangle and is flushed full, partly
full and empty. Seven vertices are more than one block and a short one. The
invariants are proved for every bound.

*Validation.* One MPE reaches every path of `ValidateMPE`; two are needed for
flags that one MPE consumes and the other still has. A numeric setting with two
values can be current or stale. The lengths of the overlays differ between the
textured and the untextured pipeline by different amounts, so that a stale
overlay never lies in place by accident. In the passing run the texture
environment does not vary together with lighting, and textures are bound while
texturing is enabled: the other two cases are the violations below.

*Swap.* Two buffers is the least number that swaps, three the least that may
draw without waiting; the proofs cover all numbers. One buffer is left out of
the run: `backBuffer` then starts at 1, never equals `numBuffers`, and counts up
with every swap.

*Lifecycle.* Three MPEs, any subset of them taken, make the loop over MPEs
succeed fully, partly and not at all; two textures are one to bind and one to
delete.

*Ring.* Four packets hold one longest command and one more packet, so that the
ring is full with a whole command, with part of a second one, and with single
ones; commands of three wrap around it at every slot. Four commands fill it twice.
The theorems cover every size.

*Chain.* With two renderers the first and the last are different, and each is
somebody's neighbour; rings of two commands fill up behind a token. Three lines
over two renderers do not divide evenly, and the reciprocal may round down to one
or zero lines for the second. The properties also hold with three renderers and
four lines (3.4 million states; not among the runs).

*Execute buffers.* Three triangles on one MPE, on two with an uneven share, and
fewer triangles than MPEs in a smaller buffer. Growing by twenty entries, one less
than three triangles take, makes the room run out before the last vertex with one
entry left, which is where the two tests for room differ; sized to 14, two
triangles, it runs out before a header. `BufferSoundCorrect` covers every other
growth. Three blocks are a block, the one that replaces it, and a forgotten one;
gaps of 0 and 8 bytes are a block on a boundary and beside one. Of the three hints
`edge_aa` chooses the same pixel function as `texture_filter` and is left out of
the run, not of the proofs.

`CHECK_DEADLOCK FALSE` appears in the validation runs, where the application may
choose to do nothing more, and in `ring`, which is over when the `MaxCommands`
commands have been executed.

### Fairness

Weak fairness suffices everywhere: nothing that is enabled is taken away by
another process. No fairness is assumed of an application outside a call.

`dispatch` assumes it of the library's code (the processor executes it; spin loops
are steps that are enabled when their condition holds), of the interrupt for each
MPE's report (the library never masks it), and of each MPE's own program. `swap`
assumes that the library's code runs, that fields follow one another, and that
MPEs finish what they render; the second is the video hardware's clock, the last
is the result of `dispatch`. `ring` assumes that the sender sends what it has begun
(it spins in `MPR_SendPacket`), that the handler runs when it is raised and not
masked, and that the main code runs when the handler does not: a command's own
code comes to an end. `chain` assumes that the program goes on within a call, that
each renderer executes its queue (`AllExecuted` of `ring`), that transfers on the
main bus end, and that fields come. `m3d` assumes that the host goes on within
`m3dExecuteBuffer`, and the MPEs and their transfers too.

## 5. What is proved

For every value of the constants that the named assumptions of the modules
admit (any number of MPEs, of renderers, of buffers, of packets, any capacity):

| module | theorems | hypotheses |
|---|---|---|
| `MglDispatchProofs` | `TypeCorrect`, `TaskAccountingCorrect`, `LoaderCorrect`, `BitfieldCorrect`, `CopiesToIdle`, `NoOverwriteCorrect`, `FinishCorrect`, `WaitsForTheBusyCorrect`, `DispatcherImplementsService` | none |
| | `BoundsCorrect` | the format does not change while vertices are buffered |
| `MglValidateProofs` | `TypeCorrect`, `CurrentCodeCorrect`, `OtherDataCorrect` | none |
| | `DisciplinedDataCorrect` | no texture is bound while texturing is disabled, and nothing is drawn with lighting on under a replacing texture |
| | `CurrentDataCorrect` | the applications can do neither |
| `MglSwapProofs` | `TypeCorrect`, `NoTearingCorrect`, `EveryFrameShownCorrect`, `FrameFinishedCorrect`, `SwapImplementsFrames` | none |
| | `RenderBufferCorrect` | nobody asks for `GL_NONE` |
| `MglLifecycleProofs` | `TypeCorrect` | none |
| | `NoLeakCorrect`, `VectorRestoredCorrect`, `ReportsMeetContextCorrect`, `OnlyOwnMPEsRunCorrect`, `BoundTextureCorrect` | the application calls `mglEnd` once for each `mglInit` that returned 0 (`Disciplined`) |
| `MprRingProofs` | `TypeCorrect`, `InterruptMeansPacketCorrect`, `NoPacketLostCorrect`, `ExecutesOwnPacketsCorrect`, `NeverLockedUpCorrect`, `EveryStepCountsCorrect`, `RingImplementsQueue` | none |
| `M3dBufferProofs` | `TypeCorrect`, `BufferSoundCorrect`, `DrawsAsHintedCorrect`, `DrawsOwnTriangleCorrect`, `DrawsEachOnceCorrect`, `NothingLeftBehindCorrect`, `WorkGoesDownCorrect` | none |
| `MprChainProofs` | `TypeCorrect`, `SyncMeansDoneCorrect`, `CommandsArriveWholeCorrect`, `OnlyOwnMPEsRunCorrect`, `NoDeadlockCorrect` | none |
| `MprFrameProofs` | `DrawnWhereMeantCorrect`, `ConvertsFinishedFrameCorrect`, `FrameConvertedCorrect`, `NoTearingCorrect`, `EveryFrameShownCorrect`, `ChainImplementsFrames` | none |

**Dispatcher.** None of the properties is inductive alone: that the counter is
right when it is stored depends on the MPE picked by `WaitForAnyMPE` being idle
ever since, which depends on who may change its counter meanwhile. `IInv` adds

* `CallInv`, the locals of the call in progress: the packet in hand has the
  current format, and if it is cut from the library's buffer it ends at
  `entry`; the MPEs a wait has passed are still idle;
* `FlagInv`: `VAL_MPE_INVALIDATED` marks exactly the halted MPEs, and without
  any flag the loader is the one of the current format;
* `PickedInv`: between the pick and the send, the picked MPE's counter is zero
  (except while its boot report is awaited) and its flags get cleared;
* `ReaderInv`: everything still to be read lies below the top of the buffer;
* for `InBounds`, `FillInv`: the buffered vertices are of one size, which
  divides the size of the buffer.

One lemma per conjunct shows that every action preserves it; the theorems follow
by PTL. The refinement has one lemma per action: `Vertex` appends, `Send`
assigns, the last `RenderBlock` completes, the end of a wait rewinds,
everything else stutters.

**Validation.** "What is not flagged is current" is three statements, because a
setting passes through three places. `DataInv`: a derived block whose flag is
down in `gc->validationFlags` is what the settings would derive now, and
`PipeInv`: without `VAL_PIPELINE` the pipeline chosen is the one they call for.
`MPEInv`: on every MPE that has been started, what its own flags do not name is
what the context holds; an MPE may stay behind as long as it likes, its flags
cover the difference. `DrawingInv` says that between `ValidateGC` and the
end of the drawing call no flag of the context is up. The lemma `Covered` is the
heart of it: whatever a setter changes in what a block is derived from, it flags,
for each setter and each block.

The code overlays need an argument of their own, since they lie packed behind
one another. `LoadInPlace` shows that what `ValidateMPE` believes to be in place
is: an overlay is not copied again only if it is the believed one and nothing in
front of it has changed its length, and what is copied lies behind what stays
(`PackedApart`). This holds for all lengths of overlays that fit; that they fit
is the assumption `OverlaysFit`, which `ValidateMPE` asserts in DEBUG builds
(`pipeline.c:882`).

`DataInv` does not cover texture and light data: for these it is false, and that is
findings 2 and 3 of section 6. `OtherDataCorrect` therefore claims all other
blocks, without any hypothesis. With `TextureInv` (the bound texture is flagged
unless texturing has been enabled with it since) and `LightInv` (light data that
are not flagged fit the vertex format) the property holds, and the two conditions of
`DisciplinedDataCorrect` are those that these need: exactly what the two runs with a
violation do is excluded, as a condition on the behaviour.
`CurrentDataCorrect` derives it from the constants, as the passing run has them:
an application that leaves one of texturing, its environment and lighting at what
`mglInit` set never gets to validate that combination. Textured and lit triangles
are among what it may draw.

**Swap.** `RingInv` (the back buffer follows the front buffer in the ring),
`WorkInv` (rendering in back mode goes to the back buffer; none during the
swap), `VideoInv` (what is displayed is what is configured or the buffer before
it; a new field leaves no doubt) and `SyncInv` (with two buffers, work implies
that no swap is pending). The refinement of `FrameQueue` follows: `Draw` and
`glClear` draw, `RenderDone` and `ClearDone` finish, `Config` hands over.

**Lifecycle.** `ContextInv`, `MPEInv`, `VectorInv` and `TextureInv` say for each
resource how far it is acquired or released at each location. `VectorInv` carries
`ReportsMeetContext`: from `EndVector` on the vector is what was there before mGL,
so that the context may go while reports are still under way; if that was NULL, a
second context may find mGL's own handler there, which `AsFound` allows for. In
`MPEInv` an MPE that runs is one that `mglEnd`'s loop has not yet stopped, and what
it has not yet freed is what the BIOS has given.

**Ring.** The packets are followed by number: those in the ring are the
consecutive numbers from the oldest command's header on, in consecutive slots
(`PlaceInv`), and the counters of commands agree with them (`CountInv`). That
there are never more than the ring holds is not visible from the ring: it takes
`MaskInv`, which says that a full ring is masked, that the handler, between
deciding and storing, has masked the interrupt already if its packet is the one
that fills the ring, and that the interrupt stays masked while a command is
freed. The refinement needs one lemma more: storing the last packet sends,
taking and freeing are the abstract steps, all others stutter.

**Execute buffers.** `HeapInv`: `BufferSound` and `PointerInv`, which says that
`realentries` is always the start of a block and that the entries begin behind a
gap that `gaps` names, if they are in the block of `realentries` or not at the start
of theirs. So a pointer given wrongly to the heap shows either a gap that is not
zero or that the buffer outgrew its size. `PolyInv` (an open
triangle was begun with room for all of it), `PipeInv` (a pipe that exists is
the one asked for unless the change is noted), `RunInv` (MPEs run only during a
call). That each triangle is drawn once rests on one equation, `FetchInv`: an
MPE's count of triangles and the number of the next one to fetch add up to the
same sum always, and the number leaves, divided by the number of MPEs, the MPE's
place in the list. From it `DrawnInv` counts: a triangle has been drawn once if
the MPE in whose remainder class it is has come past it, otherwise not at all.
The rest is arithmetic of remainders.

**Chain.** The proof follows the token. `Follows` says of what is left of a call
that a token is sent to the first renderer and awaited next, that nothing else
is awaited, and that MPEs are given back only after a break was awaited; it is
kept when parts of calls are put together and when a step is done. `TokenInv`:
exactly while the program awaits there is one token, either the last command in
the ring of one renderer, with those before it done and none behind it, or the
answer in the inbox, with all of them done. `BreakInv`: the renderers stop as a
break passes them. `SyncMeansDone` is a conjunct of the invariant itself.

**Frames** (`MprFrameProofs`). Where a primitive lands depends on commands that
may lie anywhere between the program and a renderer, so the invariant speaks of
paths: `Flow` says that the commands in a renderer's ring, followed by those of
the call in progress that go to it, are a `Track` from the screen buffer it has
to the one that is selected, with every primitive on the way drawn to the buffer
reached there. Tracks can be cut at the head, extended and joined, which is what
executing, sending and calling do. That a track without screen-buffer commands
does not move needs an induction over its length; it is done with the least place
at which the track would have moved, since the least-number principle can be
cited and an induction theorem cannot.

`CallInv` describes a swap by the number of steps left (`GRBStage`, `YCCStage`).
While a frame is converted, `FinishedInv` says that after the token has returned
no renderer has drawing left, and `PartsInv` that the conversions in the rings are
the parts that have been sent, each at its renderer and not yet counted in
`converted`. What remains is arithmetic: `LinesParted`, that the ranges
the conversion is split into (`ConvLines`, with a quotient that may be rounded
down too far) contain every line exactly once, for every height and number of
renderers.

`VideoInv` relates what is displayed to what was handed to the video encoder and
to the buffer that the program is at, in the order of each mode; `WriteInv` says
that all that is or will be written is the active buffer, once the field has
come the one the frame is converted to, or in `late`: what is outstanding when the
program swaps without a sync is for the buffer that `ChangeBase` puts there. The
first two are disjoint from what is shown, which is `NoTearing`. For the refinement
of `FrameQueue` it remains that what renderers and buses do adds nothing to what is outstanding (`RendererOutstanding`): by
`DrawnWhereMeant` a renderer writes to the buffer that its command named when it
was sent.

**Nobody waits for ever.** Liveness is out of the prover's reach, but most of an
argument for it is not: that somebody can go on, and that going on brings the
end nearer. Both are properties of states and steps, and proved as such.

* *Chain*, `NoDeadlock`: `RunInv` says that in a call all renderers run, and while
  a break travels those that it has still to come to. Whoever waits then waits
  for room in the ring of a renderer that runs and holds no token, whose first
  command is therefore one that it executes alone; or for the token, and
  `TokenInv` says where that is. Fields and transfers come by themselves.
* *Ring*, `NeverLockedUp`: `WakeInv` says that a packet in the register has its
  interrupt raised until the handler comes to it, and that outside the freeing of
  a command the interrupt is masked only while the ring is full. A full ring holds
  a whole command, because none is longer than the ring, so that the main code has
  one to take. `EveryStepCounts` is the other half: the steps still to be done are
  a number that every step lowers by exactly one.
* *Dispatcher*, `WaitsForTheBusy`: a counter that is not zero belongs to an MPE that
  renders, reports or has a packet, or whose report is in flight; with `HaltedInv`
  none belongs to one that has been stopped.
* *Execute buffers*, `WorkGoesDown`: what an MPE has left to do is five steps per
  triangle in its turn, and what is under way. It is positive while the MPE runs,
  since `CountInv` bounds below the count that `loadpoly.s` lets go below zero.

Only model-checked: liveness itself (`CallsReturn`, `AllExecuted`, `ExecuteReturns`
and the fair part of `ImplementsFairService`), where from the theorems above the
rule for weak fairness remains to be applied, which the prover does not have. In `ring`,
`dispatch` and `m3d` no run repeats the four theorems: each run checks the
liveness property that would fail with them.

## 6. Disagreements found

Each is a run with `expect: violation` and an entry under `findings`.

1. `dispatch_mixed`: `glVertex` flushes when the scalar counter *equals* the
   buffer's size. The counter is rewound only by the flush of a full buffer
   (`begend.c:41-43`) and by `glFinish` (`api.c:892-897`). An odd number of
   four-scalar vertices followed by enough eight-scalar ones (in the real sizes:
   one untextured triangle, then 512 textured ones without `glFinish`) steps over
   the value and on to the counters behind the buffer (`context.h:186-191`).
2. `validate_lighter`: with lighting on and a texture in replace mode there is
   no lighter, and the light data are computed for the textured vertex layout;
   when texturing is disabled the lighter becomes the colour one, but nothing
   raises the lighting flag.
3. `validate_texture`: a texture bound while texturing is disabled is not copied
   when texturing is enabled.
4. `lifecycle_twice`: `mglEnd` frees the context but leaves `gc` set, so that the
   test "ensure that graphics context is allocated" passes for a freed one.
5. `m3d_sized`: `m3dSizeBuf` sets `entries` and leaves `realentries` as it was
   (`MML3D/m3dbuf.c:128-131`), so that the first entry beyond the size reallocates
   the wrong pointer, NULL after `m3dInitBuf`: the buffer's entries and their block
   are lost, where `m3dbuf.h:125-128` promises room for at least N entries and a
   buffer that only gets larger.

Seen while reading, without a run: `mglCountIdleMPEs` (`glutils.c:325-335`)
counts and then returns 0, where `doc/mgl_release.txt:66-68` promises the
number; with one screen buffer `mglGetBuffer(GL_BACK)` indexes behind the list
(`mgl.c:557`); `mglEnd` reads the pixel type of the default texture it has just
freed if a texture is bound and texturing on (`mgl.c:389`); a JPEG texture that
does not fit leaves the decompressor behind (`mgl/jpg.c:69`); a block that is not
a multiple of three vertices makes the loader read past it
(`mgl/loadpoly.s:47`). Without memory for the default texture, `mglInit` writes
through NULL in release builds and returns 0 (`mgl.c:236`, against
`doc/mgl_release.txt:89-91`); a comm bus vector that was NULL is not restored, and
mGL's handler stays while its context is freed (`mgl.c:457`); a report between
`mgl.c:459` and the stopping of its MPE goes to the handler that was there before
mGL. Where the C heap does not align blocks to 16 bytes, `m3dFreeBuf` and
`m3dSizeBuf` give it the aligned pointer, which it never handed out
(`MML3D/m3dbuf.c:99`, `128`), a growth that moves a block to another alignment
shifts the entries (`m3dbuf.c:73-78`), and `m3dSizeBuf` does not align the entries
at all: `BufferSound` names these cases. `sample/m3dl/Background/bground.c:231`
swaps without waiting for the sprites it has drawn since its `mdDrawSync`.
`mdSetupMPRChain` keeps the MPEs it has got when the next
one cannot be had (`m3dl/setup.c:48`), and `m3dl/mpr.s:671` clears the
source of the receive interrupt when a renderer starts, so that a packet which
had come before would stay in the register.

## 7. What is not modelled, and why

* **Kernels** (rasterizers, clipping, lighting, transformation; M3DL's drawing
  overlays; the stages of MML3D's pipeline): long VLIW arithmetic without shared
  control; an MPE that renders is busy, and what it writes is a buffer.
* **Vertex attributes** (`begend.c`), **contents of packets and entries**:
  packing of colours, normals and coordinates. The models keep the number of
  scalars, packets or entries.
* **Matrix arithmetic** (`matrix.c`, `m3dmat.c`): sequential fixed-point code. The
  stacks' depths are tested in DEBUG builds only; balanced calls are the
  application's affair.
* **Texture loaders, bitmaps, objects, cameras**: sequential conversions.
* **The data cache**: its flushes are in the code wherever a packet refers to
  memory the controller has written; the models treat memory as coherent.
* **MML2D**: sequence recording is sequential table lookup; planned, section 2.
* **mutil**: thin wrappers, whose effect is part of the calling actions.
  **libjpeg**: vendored. **Samples, tools, documentation, binaries**: no behaviour
  of the libraries.

By lines most of the repository is pixel arithmetic, vendored code and samples;
the modules cover the control that is shared between processors, which is a small
part of it.
