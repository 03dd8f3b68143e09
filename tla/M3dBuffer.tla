----------------------------- MODULE M3dBuffer -----------------------------
(***************************************************************************)
(* MML3D: an execute buffer of triangles that grows in the C heap, the     *)
(* rendering pipe that m3dHint changes and m3dExecuteBuffer caches, and    *)
(* the MPEs that draw the buffer's triangles in turns, each fetching the   *)
(* next one by DMA while it draws.                                         *)
(*                                                                         *)
(* Sources: m3dbuf.c, m3dadd.s, load3d.c, pipeline.s, loadpoly.s.  Entry   *)
(* i of the buffer belongs to triangle i / 7, so that only the number of   *)
(* entries is kept, and how many of the first ones the heap has lost.  An  *)
(* entry is a vector of 16 bytes.  The build is the makefile's, without    *)
(* edge anti-aliasing.  Bad* are slips that break a property.              *)
(***************************************************************************)
EXTENDS Integers, FiniteSets, Sequences, SequencesExt

CONSTANTS
  GROWAMOUNT,  (* entries a full buffer grows by                             *)
  MaxEntries,  (* bound: entries the program puts into the buffer            *)
  Sizes,       (* sizes the program gives to m3dSizeBuf: whole triangles     *)
  Blocks,      (* bound: blocks of the heap                                  *)
  Gaps,        (* bytes from a block's start to the next vector boundary     *)
  Hinted,      (* bound: hints the program gives                             *)
  AllMPEs,     (* MPEs that m3dInit may get                                  *)
  NoBlock,     (* the NULL pointer                                           *)
  None         (* no triangle, no pipe                                       *)

Hints == {"pixel_type", "texture_filter", "edge_aa"}

ASSUME BufferAssumption ==
  /\ GROWAMOUNT \in Nat /\ GROWAMOUNT >= 2
  /\ MaxEntries \in Nat
  /\ Sizes \subseteq {n \in Nat \ {0} : n % 7 = 0}
  /\ NoBlock \notin Blocks
  /\ Gaps \subseteq 0 .. 15
  /\ Hinted \subseteq Hints
  /\ IsFiniteSet(AllMPEs)
  /\ None \notin Int

VARIABLES
  numentries, maxentries,  \* fields of m3dBuf
  entries, realentries,    \* its pointers: a block, and bytes from its start
  polyState,               \* its state: vertices of the open triangle, or None
  live,                    \* blocks that are allocated, with their bytes
  misused,                 \* realloc or free was given a pointer it must not get
  lost,                    \* first entries that did not survive a realloc
  gaps,                    \* history: the gaps of the blocks the buffer has had
  outgrown,                \* history: a buffer grew beyond its m3dSizeBuf size
  hint,                    \* pixel_type, texture_filter, edge_aa: set or not
  part,                    \* the pixel function of pipe_parts
  pipe_changed,            \* flag of that name
  cur_3d_pipe,             \* the pixel function of the pipe built last
  mpe_list,                \* the MPEs m3dInit has got
  calling,                 \* m3dExecuteBuffer: "no" or "start"
  started,                 \* MPEs it has started
  mpe,                     \* the pipeline on each MPE
  writing,                 \* the MPEs whose pixels are on their way to the screen
  drawn                    \* how often each triangle has been drawn in this call

heapVars == <<entries, realentries, live, misused, lost, gaps, outgrown>>
bufVars == <<numentries, maxentries, polyState, heapVars>>
pipeVars == <<hint, part, pipe_changed, cur_3d_pipe>>
runVars == <<calling, started, mpe, writing, drawn>>
vars == <<bufVars, pipeVars, mpe_list, runVars>>

Triangles == 0 .. MaxEntries \div 7
num_polys == numentries \div 7
Pixels == {"pixel", "bilerp", "mpegpixel"}
NumMPEs == Len(mpe_list)

Pointers == [block : Blocks \cup {NoBlock}, skip : 0 .. 15]
Pointer(b, n) == [block |-> b, skip |-> n]
Null == Pointer(NoBlock, 0)

Idle == [pc |-> "off", pixel |-> None, numtris |-> 0, extern |-> 0,
         dma |-> None, localptr |-> 2, triptr |-> 1,
         inpbuf |-> <<None, None>>]

Init ==
  /\ numentries = 0 /\ maxentries = 0 /\ polyState = None
  /\ entries = Null /\ realentries = Null
  /\ live = [b \in {} |-> 0]
  /\ misused = FALSE /\ lost = 0
  /\ gaps = {} /\ outgrown = FALSE
  /\ hint = [what \in Hints |-> FALSE]
  /\ part = "pixel" /\ pipe_changed = FALSE /\ cur_3d_pipe = None
  /\ mpe_list = <<>>
  /\ calling = "no" /\ started = 0
  /\ mpe = [m \in AllMPEs |-> Idle]
  /\ writing = {}
  /\ drawn = [t \in Triangles |-> 0]

-----------------------------------------------------------------------------
(* The heap.  realloc and free take the start of a live block, or NULL; of    *)
(* anything else it is undefined what happens.                                *)
Allocated == DOMAIN live \cup {entries.block, realentries.block}

Fresh == CHOOSE b \in Blocks : b \notin Allocated

Own(p) == p = Null \/ (p.block \in DOMAIN live /\ p.skip = 0)

(* A block with the bytes of p at its start, and any gap before its first     *)
(* vector; without memory the program stops (m3dERROR).                       *)
realloc(p, size, gap) ==
  /\ \E b \in Blocks : b \notin Allocated
  /\ live' = [c \in (DOMAIN live \ {p.block}) \cup {Fresh} |->
               IF c = Fresh THEN size ELSE live[c]]
  /\ misused' = (misused \/ ~Own(p))
  /\ gaps' = gaps \cup {gap}

(* The raw pointer grows, with a vector to spare, and the entries begin at    *)
(* the first boundary in the new block.  They are kept if the raw pointer's   *)
(* block was theirs and they began behind the same gap.                       *)
Grow(full, n) ==
  IF full
  THEN \E gap \in Gaps :
         /\ realloc(realentries, 16 + 16 * n, gap)
         /\ maxentries' = maxentries + GROWAMOUNT
         /\ realentries' = Pointer(Fresh, 0) /\ entries' = Pointer(Fresh, gap)
         /\ lost' = IF entries = Pointer(realentries.block, gap) THEN lost
                    ELSE numentries
         /\ outgrown' = (outgrown \/ entries.block # realentries.block)
  ELSE UNCHANGED <<maxentries, heapVars>>

Quiet == calling = "no"

(* Once the heap has been misused, the buffer is followed no further. *)
Sane == Quiet /\ ~misused

-----------------------------------------------------------------------------
(* The buffer. *)

(* The entries' pointer is freed, not the raw one. *)
m3dFreeBuf ==
  /\ Sane
  /\ misused' = ~Own(entries)
  /\ live' = [c \in DOMAIN live \ (IF Own(entries) THEN {entries.block} ELSE {}) |->
               live[c]]
  /\ numentries' = 0 /\ maxentries' = 0 /\ polyState' = None
  /\ entries' = Null /\ realentries' = Null /\ lost' = 0
  /\ gaps' = IF Own(entries) THEN {} ELSE gaps
  /\ UNCHANGED <<outgrown, pipeVars, mpe_list, runVars>>

m3dRecycleBuf ==
  /\ Sane
  /\ numentries' = 0 /\ polyState' = None /\ lost' = 0
  /\ UNCHANGED <<maxentries, entries, realentries, live, misused, gaps, outgrown,
                 pipeVars, mpe_list, runVars>>

(* The entries' pointer is reallocated and set to what comes, on a boundary   *)
(* or not, and the raw pointer keeps what it was.                             *)
m3dSizeBuf(size, force_shrink) ==
  /\ Sane /\ polyState = None
  /\ IF size >= maxentries \/ force_shrink
     THEN /\ \E gap \in Gaps : realloc(entries, 16 * size, gap)
          /\ entries' = Pointer(Fresh, 0)
          /\ maxentries' = size
          /\ numentries' = IF numentries > size THEN size ELSE numentries
     ELSE UNCHANGED <<entries, live, misused, gaps, maxentries, numentries>>
  /\ UNCHANGED <<realentries, lost, outgrown, polyState, pipeVars, mpe_list,
                 runVars>>

(* A triangle begins with a header entry, through _m3dAddEntry... *)
m3dStartTriangle ==
  /\ Sane /\ polyState = None
  /\ numentries + 7 <= MaxEntries
  /\ Grow(numentries >= maxentries, numentries + GROWAMOUNT)
  /\ numentries' = numentries + 1
  /\ polyState' = 0
  /\ UNCHANGED <<pipeVars, mpe_list, runVars>>

(* A vertex takes two entries, and there is only one left. *)
BadNoRoom == numentries >= maxentries

NoRoom == numentries >= maxentries - 1

(* ... each vertex adds two...                                                *)
m3dAddVertex ==
  /\ Sane /\ polyState \in 0 .. 2
  /\ Grow(NoRoom, maxentries + GROWAMOUNT)
  /\ numentries' = numentries + 2
  /\ polyState' = polyState + 1
  /\ UNCHANGED <<pipeVars, mpe_list, runVars>>

(* ... and with any other number than three the program is stopped.           *)
m3dEndTriangle ==
  /\ Sane /\ polyState = 3
  /\ polyState' = None
  /\ UNCHANGED <<numentries, maxentries, heapVars, pipeVars, mpe_list,
                 runVars>>
-----------------------------------------------------------------------------
(* The pipe and the MPEs it runs on. *)

(* The function that draws pixels; without edge anti-aliasing its own ones    *)
(* are the bilinear one.                                                      *)
PixelFor(h) ==
  IF h["pixel_type"] THEN "mpegpixel"
  ELSE IF h["texture_filter"] \/ h["edge_aa"] THEN "bilerp" ELSE "pixel"

(* The pipe is built anew only when the hint sets something. *)
Badm3dHint(what, how) ==
  /\ Quiet /\ hint[what] # how
  /\ hint' = [hint EXCEPT ![what] = how]
  /\ part' = PixelFor(hint')
  /\ pipe_changed' = (pipe_changed \/ (how /\ part' # part))
  /\ UNCHANGED <<cur_3d_pipe, bufVars, mpe_list, runVars>>

m3dHint(what, how) ==
  /\ Quiet /\ hint[what] # how
  /\ hint' = [hint EXCEPT ![what] = how]
  /\ part' = PixelFor(hint')
  /\ pipe_changed' = (pipe_changed \/ part' # part)
  /\ UNCHANGED <<cur_3d_pipe, bufVars, mpe_list, runVars>>

(* The MPEs of an earlier call are freed; how many of those asked for are got *)
(* depends on what else uses MPEs.                                            *)
m3dInit(list) ==
  /\ Quiet
  /\ mpe_list' = list
  /\ cur_3d_pipe' = None
  /\ UNCHANGED <<hint, part, pipe_changed, bufVars, runVars>>

m3dExecuteBuffer ==
  /\ Sane
  /\ cur_3d_pipe' = IF pipe_changed \/ cur_3d_pipe = None THEN part
                    ELSE cur_3d_pipe
  /\ pipe_changed' = FALSE
  /\ calling' = "start" /\ started' = 0
  /\ drawn' = [t \in Triangles |-> 0]
  /\ UNCHANGED <<hint, part, bufVars, mpe_list, mpe, writing>>

(* An MPE begins behind the triangles that the others draw in its place. *)
BadInitialNumtris(me) == num_polys - me * NumMPEs

InitialNumtris(me) == num_polys - me + NumMPEs

(* Run3DPipe starts the next MPE: cur_mpe is its place in mpe_list.  The       *)
(* pipeline's loader begins to fetch its first triangle.                      *)
StartMPE ==
  /\ calling = "start" /\ started < NumMPEs
  /\ mpe' = [mpe EXCEPT ![mpe_list[started + 1]] =
               [pc |-> "load", pixel |-> cur_3d_pipe,
                numtris |-> InitialNumtris(started),
                extern |-> started + NumMPEs, dma |-> started,
                localptr |-> 2, triptr |-> 1, inpbuf |-> <<None, None>>]]
  /\ started' = started + 1
  /\ UNCHANGED <<calling, writing, drawn, bufVars, pipeVars, mpe_list>>

(* WaitMPE, one after the other, comes to waiting for all of them.            *)
Return ==
  /\ calling = "start" /\ started = NumMPEs
  /\ \A i \in 1 .. NumMPEs : mpe[mpe_list[i]].pc = "off"
  /\ calling' = "no" /\ started' = 0 /\ drawn' = [t \in Triangles |-> 0]
  /\ UNCHANGED <<mpe, writing, bufVars, pipeVars, mpe_list>>

Step(m, p) ==
  /\ mpe' = [mpe EXCEPT ![m] = p]
  /\ UNCHANGED <<calling, started, bufVars, pipeVars, mpe_list>>

DMADone(m) ==
  LET p == mpe[m] IN
  /\ p.dma # None
  /\ Step(m, [p EXCEPT !.inpbuf[p.localptr] = p.dma, !.dma = None])
  /\ UNCHANGED <<writing, drawn>>

(* The main bus has written the pixels.                                       *)
PixelsDone(m) ==
  /\ m \in writing
  /\ writing' = writing \ {m}
  /\ Step(m, mpe[m])
  /\ UNCHANGED drawn

(* The next triangle goes over the one that has just come. *)
BadOther(b) == b

Other(b) == 3 - b

(* loadpoly: when the triangle has come, the next one is fetched into the     *)
(* other buffer, and then it is seen whether there was one.                   *)
Load(m) ==
  LET p == mpe[m]
      left == p.numtris - NumMPEs
  IN
  /\ p.pc = "load" /\ p.dma = None
  /\ Step(m, [p EXCEPT !.triptr = p.localptr,
                       !.localptr = Other(p.localptr),
                       !.dma = p.extern, !.extern = p.extern + NumMPEs,
                       !.numtris = left,
                       !.pc = IF left <= 0 THEN "end" ELSE "draw"])
  /\ UNCHANGED <<writing, drawn>>

Draw(m) ==
  LET p == mpe[m]
      t == p.inpbuf[p.triptr]
  IN
  /\ p.pc = "draw"
  /\ drawn' = [u \in Triangles |-> IF u = t THEN drawn[u] + 1 ELSE drawn[u]]
  /\ writing' = writing \cup {m}
  /\ Step(m, [p EXCEPT !.pc = "load"])

(* It waits in the same way as NextDMA does, and then waits again. *)
BadEnd(m) ==
  LET p == mpe[m] IN
  /\ p.pc = "end" /\ p.dma = None /\ m \notin writing
  /\ Step(m, p)
  /\ UNCHANGED <<writing, drawn>>

(* It waits for the bus it fetches on only. *)
BadEndEarly(m) ==
  LET p == mpe[m] IN
  /\ p.pc = "end" /\ p.dma = None
  /\ Step(m, Idle)
  /\ UNCHANGED <<writing, drawn>>

(* The pipeline waits for the fetch that it has begun in vain and for the     *)
(* pixels it has written, and halts.                                          *)
End(m) ==
  LET p == mpe[m] IN
  /\ p.pc = "end" /\ p.dma = None /\ m \notin writing
  /\ Step(m, Idle)
  /\ UNCHANGED <<writing, drawn>>

-----------------------------------------------------------------------------
MpeLists == {l \in BoundedSeq(AllMPEs, Cardinality(AllMPEs)) :
               \A i, j \in DOMAIN l : l[i] = l[j] => i = j}

Program ==
  \/ m3dFreeBuf \/ m3dRecycleBuf
  \/ \E size \in Sizes, force \in BOOLEAN : m3dSizeBuf(size, force)
  \/ m3dStartTriangle \/ m3dAddVertex \/ m3dEndTriangle
  \/ \E what \in Hinted, how \in BOOLEAN : m3dHint(what, how)
  \/ \E list \in MpeLists : m3dInit(list)
  \/ m3dExecuteBuffer

Machine(m) == DMADone(m) \/ PixelsDone(m) \/ Load(m) \/ Draw(m) \/ End(m)

Next == Program \/ StartMPE \/ Return \/ \E m \in AllMPEs : Machine(m)

Spec == Init /\ [][Next]_vars

(* The host runs on inside a call, and so do the MPEs and their DMA; nobody    *)
(* has to call again.                                                         *)
FairSpec ==
  /\ Spec
  /\ WF_vars(StartMPE) /\ WF_vars(Return)
  /\ \A m \in AllMPEs : WF_vars(Machine(m))

-----------------------------------------------------------------------------
Pipelines ==
  [pc : {"off", "load", "draw", "end"}, pixel : Pixels \cup {None},
   numtris : Int, extern : Nat, dma : Nat \cup {None},
   localptr : 1 .. 2, triptr : 1 .. 2, inpbuf : [1 .. 2 -> Nat \cup {None}]]

(* Types: in particular the two input buffers of an MPE are the only ones.    *)
TypeOK ==
  /\ numentries \in 0 .. MaxEntries /\ maxentries \in Nat
  /\ polyState \in 0 .. 3 \cup {None}
  /\ entries \in Pointers /\ realentries \in Pointers
  /\ DOMAIN live \subseteq Blocks /\ \A b \in DOMAIN live : live[b] \in Nat
  /\ misused \in BOOLEAN /\ outgrown \in BOOLEAN
  /\ lost \in 0 .. MaxEntries /\ gaps \subseteq Gaps
  /\ hint \in [Hints -> BOOLEAN] /\ part \in Pixels
  /\ pipe_changed \in BOOLEAN /\ cur_3d_pipe \in Pixels \cup {None}
  /\ mpe_list \in MpeLists
  /\ calling \in {"no", "start"} /\ started \in 0 .. Cardinality(AllMPEs)
  /\ mpe \in [AllMPEs -> Pipelines]
  /\ writing \subseteq AllMPEs
  /\ drawn \in [Triangles -> Nat]

(* The entries that the buffer has, and those that it says there is room for, *)
(* lie in its block, wherever in the block the first one is.                  *)
EntriesFit ==
  /\ numentries <= maxentries
  /\ entries = Null => maxentries = 0
  /\ entries # Null /\ ~misused =>
       /\ entries.block \in DOMAIN live
       /\ entries.skip + 16 * maxentries <= live[entries.block]

(* All blocks the buffer has had lie alike: at a vector boundary, say. *)
SameGap(g) == gaps \subseteq {g}

(* However a buffer is filled, grown, sized, recycled and freed, it stays     *)
(* inside its block (_m3dAddEntry, m3dAddVertex and m3dSizeBuf compute size   *)
(* and room each in its own way).  As long as it does not outgrow the size    *)
(* that m3dSizeBuf gave it, its entries survive each growth if all blocks lie *)
(* alike to the vector boundaries (m3dbuf.c:73-78), the heap is given its own *)
(* pointers if they all begin on one (m3dbuf.c:99, 128), and no block is      *)
(* forgotten unless by such a misuse.                                         *)
BufferSound ==
  /\ EntriesFit
  /\ lost > 0 => outgrown \/ \A g \in Gaps : ~SameGap(g)
  /\ misused => outgrown \/ ~SameGap(0)
  /\ DOMAIN live \subseteq {entries.block} \/ misused \/ outgrown

(* m3dbuf.h:125-128 "force a buffer to have room for at least N entries; if   *)
(* force_shrink is non-zero, it will shrink a buffer, otherwise buffer can    *)
(* only get larger": adding entries to a buffer that has been sized does not  *)
(* lose those that it has.                                                    *)
OnlyGetsLarger == lost = 0

(* An MPE has the triangle whose turn it is: fetching the next one does not   *)
(* disturb it (loadpoly's two input buffers).                                 *)
DrawsOwnTriangle ==
  \A m \in AllMPEs :
    LET p == mpe[m] IN
    p.pc = "draw" =>
      /\ p.inpbuf[p.triptr] = p.extern - 2 * NumMPEs
      /\ p.dma # None => p.triptr # p.localptr

(* The MPEs draw pixels by the function that the hints now ask for, though    *)
(* the pipe was built in an earlier call (m3dHint, pipe_changed).             *)
DrawsAsHinted ==
  \A m \in AllMPEs : mpe[m].pc # "off" => mpe[m].pixel = PixelFor(hint)

(* When m3dExecuteBuffer returns, and if there is an MPE at all, the MPEs     *)
(* together have drawn each whole triangle of the buffer once and no other.   *)
DrawsEachOnce ==
  [][calling # "no" /\ calling' = "no" /\ NumMPEs > 0 =>
       \A t \in Triangles : drawn[t] = IF t < num_polys THEN 1 ELSE 0]_vars

(* When m3dExecuteBuffer has returned, every pixel is on the screen and no    *)
(* transfer is left behind: the MPEs halt with nothing outstanding, although  *)
(* each has begun a fetch too many (pipeline.s:278, load3d.c:174).            *)
NothingLeftBehind ==
  calling = "no" =>
    writing = {} /\ \A m \in AllMPEs : mpe[m].pc = "off" /\ mpe[m].dma = None

(* What an MPE has left to do at most: five steps for each triangle in its    *)
(* turn, besides what is under way.                                           *)
Work(m) ==
  LET p == mpe[m] IN
  IF p.pc = "off" THEN 0
  ELSE 5 * (p.numtris + NumMPEs) + (IF p.pc = "draw" THEN 2 ELSE 0)
       + (IF p.dma = None THEN 0 ELSE 1) + (IF m \in writing THEN 1 ELSE 0)

(* No call draws for ever: an MPE is started once in it and each step that    *)
(* it makes then, in whatever order its fetches and its pixels arrive, brings *)
(* it nearer to halting, though it counts triangles in strides (loadpoly.s).  *)
WorkGoesDown ==
  [][\A m \in AllMPEs :
       /\ mpe[m].pc # "off" => Work(m) > 0
       /\ mpe[m] # mpe'[m] \/ (m \in writing) # (m \in writing') =>
            \/ Work(m)' < Work(m)
            \/ /\ calling = "start" /\ Work(m) = 0
               /\ started' = started + 1 /\ mpe_list[started'] = m]_vars

(* m3dExecuteBuffer returns. *)
ExecuteReturns == calling = "start" ~> calling = "no"
=============================================================================
