-------------------------- MODULE M3dBufferProofs --------------------------
(***************************************************************************)
(* Proofs about M3dBuffer for a buffer of any size, grown by any amount,   *)
(* any alignment of the heap's blocks and any number of MPEs: the buffer   *)
(* stays inside its block, the pipe is the one asked for, and each call    *)
(* draws each triangle once.                                               *)
(*                                                                         *)
(* The last follows from one equation, that an MPE's count of triangles    *)
(* and its pointer into the buffer always add up to the same number, and   *)
(* from arithmetic: the i-th MPE fetches the triangles that leave i when   *)
(* divided by the number of MPEs, in ascending order and without a gap.    *)
(***************************************************************************)
EXTENDS M3dBuffer, FiniteSetTheorems, TLAPS

(* The raw pointer is at the start of a block; the entries begin behind a gap *)
(* that a block has had, unless m3dSizeBuf has set them to a block's start.   *)
PointerInv ==
  /\ realentries.skip = 0
  /\ entries.block = NoBlock => entries = Null
  /\ entries # Null /\ (entries.block = realentries.block \/ entries.skip # 0) =>
       entries.skip \in gaps

HeapInv == PointerInv /\ BufferSound

(* An open triangle was begun with room for all of it. *)
PolyInv == polyState \in 0 .. 2 => numentries + 6 - 2 * polyState <= MaxEntries

(* The pipe that exists is the one asked for, unless that has changed since. *)
PipeInv ==
  /\ part = PixelFor(hint)
  /\ ~pipe_changed /\ cur_3d_pipe # None => cur_3d_pipe = part
  /\ calling = "start" => cur_3d_pipe = part

(* MPEs run only during a call, and only those that it has started; those     *)
(* that do not run have nothing outstanding.                                  *)
RunInv ==
  /\ calling = "start" => started <= NumMPEs
  /\ \A m \in AllMPEs :
       IF mpe[m].pc = "off" THEN mpe[m].dma = None
       ELSE /\ calling = "start"
            /\ mpe[m].pixel = cur_3d_pipe
            /\ \E i \in 1 .. started : mpe_list[i] = m
  /\ \A m \in writing : mpe[m].pc # "off"

(* The triangle that is being fetched, or has come last. *)
Coming(p, t) ==
  IF p.dma = None THEN p.inpbuf[p.localptr] = t ELSE p.dma = t

(* Where the pipeline on the me-th MPE is in the buffer. *)
Fetching(p, me) ==
  /\ p.numtris = num_polys + 2 * NumMPEs - p.extern
  /\ p.extern >= NumMPEs /\ p.extern % NumMPEs = me
  /\ Coming(p, p.extern - NumMPEs)
  /\ p.pc = "draw" => /\ p.extern >= 2 * NumMPEs
                      /\ p.extern - 2 * NumMPEs < num_polys
                      /\ p.triptr # p.localptr
                      /\ p.inpbuf[p.triptr] = p.extern - 2 * NumMPEs
  /\ p.pc = "end" => p.extern - 2 * NumMPEs >= num_polys

FetchInv ==
  calling = "start" =>
    \A i \in 1 .. started :
      mpe[mpe_list[i]].pc # "off" => Fetching(mpe[mpe_list[i]], i - 1)

(* The first triangle in a pipeline's turn that it has not drawn. *)
Turn(p) == IF p.pc = "load" THEN p.extern - NumMPEs ELSE p.extern - 2 * NumMPEs

(* The MPE whose turn triangle t is has come past it. *)
Passed(t) ==
  LET me == t % NumMPEs IN
  /\ me < started
  /\ mpe[mpe_list[me + 1]].pc = "off" \/ t < Turn(mpe[mpe_list[me + 1]])

DrawnInv ==
  calling = "start" /\ NumMPEs > 0 =>
    \A t \in Triangles :
      drawn[t] = IF t < num_polys /\ Passed(t) THEN 1 ELSE 0

IInv ==
  TypeOK /\ HeapInv /\ PolyInv /\ PipeInv /\ RunInv /\ FetchInv /\ DrawnInv

-----------------------------------------------------------------------------
(* Arithmetic. *)

(* Quotient and remainder determine a number... *)
LEMMA Division ==
  ASSUME NEW n \in Nat, n > 0, NEW t \in Int
  PROVE  /\ t = n * (t \div n) + (t % n)
         /\ t \div n \in Int
         /\ t % n \in 0 .. n - 1
<1>1. t = n * (t \div n) + (t % n)
  BY Z3
<1> QED BY <1>1

(* ... and conversely.                                                        *)
LEMMA Remainder ==
  ASSUME NEW n \in Nat \ {0}, NEW k \in Int, NEW r \in 0 .. n - 1
  PROVE  (k * n + r) % n = r
OBVIOUS

(* A number and the one n further on are in the same MPE's turn. *)
LEMMA NextTurn ==
  ASSUME NEW n \in Nat, n > 0, NEW t \in Int
  PROVE  (t + n) % n = t % n
<1> DEFINE q == t \div n
           r == t % n
<1>1. t = n * q + r /\ q \in Int /\ r \in 0 .. n - 1
  BY Division
<1> HIDE DEF q, r
<1>2. t + n = (q + 1) * n + r
  BY <1>1
<1>3. ((q + 1) * n + r) % n = r
  BY <1>1, Remainder
<1> QED BY <1>2, <1>3 DEF r

(* There is only one of a turn among n consecutive numbers. *)
LEMMA OneInTurn ==
  ASSUME NEW n \in Nat, n > 0, NEW t \in Int, NEW u \in Int,
         t <= u, u < t + n, t % n = u % n
  PROVE  t = u
<1> DEFINE q == t \div n
           r == t % n
           s == u \div n
<1>1. t = n * q + r /\ q \in Int /\ r \in 0 .. n - 1
  BY Division
<1>2. u = n * s + r /\ s \in Int
  BY Division
<1> HIDE DEF q, r, s
<1>3. u - t = (s - q) * n
  BY <1>1, <1>2
<1>4. CASE s - q >= 1
  <2>1. (s - q) * n >= n
    BY <1>1, <1>2, <1>4
  <2> QED BY <2>1, <1>3
<1>5. CASE s - q <= -1
  <2>1. (s - q) * n <= -n
    BY <1>1, <1>2, <1>5
  <2> QED BY <2>1, <1>3
<1> QED BY <1>1, <1>2, <1>4, <1>5

(* Whole triangles among the entries. *)
LEMMA Polys ==
  ASSUME TypeOK
  PROVE  num_polys \in Nat
BY DEF TypeOK, num_polys

LEMMA Numbers ==
  /\ GROWAMOUNT \in Nat /\ GROWAMOUNT >= 2
  /\ MaxEntries \in Nat
  /\ \A size \in Sizes : size \in Nat
  /\ \A i \in Int : i # None
BY BufferAssumption

(* The list of MPEs has no MPE twice. *)
LEMMA ListFacts ==
  ASSUME TypeOK
  PROVE  /\ NumMPEs \in Nat /\ NumMPEs <= Cardinality(AllMPEs)
         /\ Cardinality(AllMPEs) \in Nat
         /\ mpe_list \in [1 .. NumMPEs -> AllMPEs]
         /\ \A i, j \in 1 .. NumMPEs : mpe_list[i] = mpe_list[j] => i = j
<1>1. Cardinality(AllMPEs) \in Nat
  BY FS_CardinalityType, BufferAssumption
<1>2. PICK n \in 0 .. Cardinality(AllMPEs) : mpe_list \in [1 .. n -> AllMPEs]
  BY DEF TypeOK, MpeLists, BoundedSeq, SeqOf
<1>3. NumMPEs = n
  BY <1>1, <1>2 DEF NumMPEs
<1> QED BY <1>1, <1>2, <1>3 DEF TypeOK, MpeLists

(* If there is memory, a new block is one that the buffer has no pointer to. *)
LEMMA FreshFacts ==
  ASSUME \E b \in Blocks : b \notin Allocated
  PROVE  /\ Fresh \in Blocks /\ Fresh \notin DOMAIN live /\ Fresh # NoBlock
         /\ Fresh # entries.block /\ Fresh # realentries.block
BY BufferAssumption DEF Fresh, Allocated

-----------------------------------------------------------------------------
(* Types. *)

LEMMA InitType == Init => TypeOK
<1> SUFFICES ASSUME Init PROVE TypeOK
  OBVIOUS
<1>1. Cardinality(AllMPEs) \in Nat
  BY FS_CardinalityType, BufferAssumption
<1>2. <<>> \in MpeLists
  BY <1>1 DEF MpeLists, BoundedSeq, SeqOf
<1>3. Idle \in Pipelines
  BY DEF Idle, Pipelines
<1>4. hint \in [Hints -> BOOLEAN] /\ part \in Pixels
  BY DEF Init, Pixels
<1>5. DOMAIN live = {}
  BY DEF Init
<1>6. drawn \in [Triangles -> Nat] /\ mpe \in [AllMPEs -> Pipelines]
  BY <1>3 DEF Init
<1>7. /\ numentries \in 0 .. MaxEntries /\ maxentries \in Nat
      /\ lost \in 0 .. MaxEntries /\ polyState \in 0 .. 3 \cup {None}
  BY Numbers DEF Init
<1>8. started \in 0 .. Cardinality(AllMPEs)
  BY <1>1 DEF Init
<1>9. entries \in Pointers /\ realentries \in Pointers
  BY DEF Init, Null, Pointer, Pointers
<1>10. /\ calling \in {"no", "start"} /\ cur_3d_pipe \in Pixels \cup {None}
       /\ misused \in BOOLEAN /\ outgrown \in BOOLEAN /\ pipe_changed \in BOOLEAN
  BY DEF Init
<1> QED BY <1>2, <1>4, <1>5, <1>6, <1>7, <1>8, <1>9, <1>10 DEF Init, TypeOK

(* What a new block does to the heap. *)
LEMMA NewBlock ==
  ASSUME TypeOK, NEW p, NEW size \in Nat, NEW gap \in Gaps, realloc(p, size, gap)
  PROVE  /\ Fresh \in Blocks /\ Fresh \notin DOMAIN live /\ Fresh # NoBlock
         /\ Fresh # entries.block /\ Fresh # realentries.block
         /\ DOMAIN live' = (DOMAIN live \ {p.block}) \cup {Fresh}
         /\ live'[Fresh] = size
         /\ DOMAIN live' \subseteq Blocks
         /\ \A b \in DOMAIN live' : live'[b] \in Nat
         /\ misused' = (misused \/ ~Own(p))
         /\ gaps' = gaps \cup {gap} /\ gaps' \subseteq Gaps
         /\ gap \in 0 .. 15
<1>1. \E b \in Blocks : b \notin Allocated
  BY DEF realloc
<1>2. gap \in 0 .. 15
  BY BufferAssumption
<1> QED BY <1>1, <1>2, FreshFacts DEF realloc, TypeOK

(* Growing keeps the types of what it changes. *)
LEMMA GrowType ==
  ASSUME TypeOK, NEW full \in BOOLEAN, NEW n \in Nat, Grow(full, n)
  PROVE  /\ maxentries' \in Nat
         /\ entries' \in Pointers /\ realentries' \in Pointers
         /\ DOMAIN live' \subseteq Blocks /\ \A b \in DOMAIN live' : live'[b] \in Nat
         /\ misused' \in BOOLEAN /\ lost' \in 0 .. MaxEntries
         /\ gaps' \subseteq Gaps /\ outgrown' \in BOOLEAN
<1>1. CASE full
  <2>1. PICK gap \in Gaps :
          /\ realloc(realentries, 16 + 16 * n, gap)
          /\ maxentries' = maxentries + GROWAMOUNT
          /\ realentries' = Pointer(Fresh, 0) /\ entries' = Pointer(Fresh, gap)
          /\ lost' = IF entries = Pointer(realentries.block, gap) THEN lost
                     ELSE numentries
          /\ outgrown' = (outgrown \/ entries.block # realentries.block)
    BY <1>1 DEF Grow
  <2>2. 16 + 16 * n \in Nat
    OBVIOUS
  <2>3. /\ DOMAIN live' \subseteq Blocks /\ \A b \in DOMAIN live' : live'[b] \in Nat
        /\ gaps' \subseteq Gaps /\ Fresh \in Blocks /\ gap \in 0 .. 15
        /\ misused' = (misused \/ ~Own(realentries))
    BY <2>1, <2>2, NewBlock
  <2>4. maxentries' \in Nat
    BY <2>1, Numbers DEF TypeOK
  <2>5. entries' \in Pointers /\ realentries' \in Pointers
    BY <2>1, <2>3 DEF Pointer, Pointers
  <2>6. misused' \in BOOLEAN /\ outgrown' \in BOOLEAN /\ lost' \in 0 .. MaxEntries
    BY <2>1, <2>3 DEF TypeOK
  <2> QED BY <2>3, <2>4, <2>5, <2>6
<1>2. CASE ~full
  BY <1>2 DEF Grow, TypeOK, heapVars
<1> QED BY <1>1, <1>2

LEMMA NextType ==
  ASSUME TypeOK, PolyInv, [Next]_vars
  PROVE  TypeOK'
<1>1. CASE m3dFreeBuf
  <2>1. /\ DOMAIN live' \subseteq DOMAIN live
        /\ \A b \in DOMAIN live' : live'[b] = live[b]
    BY <1>1 DEF m3dFreeBuf
  <2>2. misused' \in BOOLEAN /\ gaps' \subseteq Gaps
    BY <1>1 DEF m3dFreeBuf, TypeOK
  <2>3. DOMAIN live' \subseteq Blocks /\ \A b \in DOMAIN live' : live'[b] \in Nat
    BY <2>1 DEF TypeOK
  <2>4. /\ numentries' \in 0 .. MaxEntries /\ maxentries' \in Nat
        /\ lost' \in 0 .. MaxEntries
    BY <1>1, Numbers DEF m3dFreeBuf
  <2>5. /\ polyState' \in 0 .. 3 \cup {None}
        /\ entries' \in Pointers /\ realentries' \in Pointers
    BY <1>1 DEF m3dFreeBuf, Null, Pointer, Pointers
  <2> QED BY <1>1, <2>2, <2>3, <2>4, <2>5 DEF m3dFreeBuf, TypeOK, pipeVars, runVars
<1>2. CASE m3dRecycleBuf
  BY <1>2, Numbers DEF m3dRecycleBuf, TypeOK, pipeVars, runVars
<1>3. ASSUME NEW size \in Sizes, NEW force \in BOOLEAN, m3dSizeBuf(size, force)
      PROVE  TypeOK'
  <2>1. size \in Nat /\ 16 * size \in Nat
    BY BufferAssumption
  <2>2. CASE size >= maxentries \/ force
    <3>1. PICK gap \in Gaps : realloc(entries, 16 * size, gap)
      BY <1>3, <2>2 DEF m3dSizeBuf
    <3>2. /\ DOMAIN live' \subseteq Blocks /\ \A b \in DOMAIN live' : live'[b] \in Nat
          /\ misused' = (misused \/ ~Own(entries))
          /\ gaps' \subseteq Gaps /\ Fresh \in Blocks
      BY <2>1, <3>1, NewBlock
    <3>3. /\ entries' = Pointer(Fresh, 0) /\ maxentries' = size
          /\ numentries' = IF numentries > size THEN size ELSE numentries
      BY <1>3, <2>2 DEF m3dSizeBuf
    <3>4. numentries' \in 0 .. MaxEntries
      <4>1. numentries \in 0 .. MaxEntries /\ MaxEntries \in Nat
        BY Numbers DEF TypeOK
      <4>2. numentries' = IF numentries > size THEN size ELSE numentries
        BY <3>3
      <4> QED BY <2>1, <4>1, <4>2
    <3>5. entries' \in Pointers /\ misused' \in BOOLEAN /\ maxentries' \in Nat
      BY <2>1, <3>2, <3>3 DEF Pointer, Pointers, TypeOK
    <3> QED BY <1>3, <3>2, <3>4, <3>5 DEF m3dSizeBuf, TypeOK, pipeVars, runVars
  <2>3. CASE ~(size >= maxentries \/ force)
    BY <1>3, <2>1, <2>3 DEF m3dSizeBuf, TypeOK, pipeVars, runVars
  <2> QED BY <2>2, <2>3
<1>4. CASE m3dStartTriangle
  <2> DEFINE full == numentries >= maxentries
  <2>0. full \in BOOLEAN
    OBVIOUS
  <2>1. Grow(full, numentries + GROWAMOUNT)
    BY <1>4 DEF m3dStartTriangle
  <2>2. numentries + GROWAMOUNT \in Nat
    <3>1. GROWAMOUNT \in Nat /\ numentries \in 0 .. MaxEntries
      BY BufferAssumption DEF TypeOK
    <3> QED BY <3>1, Numbers
  <2>3. numentries' \in 0 .. MaxEntries /\ polyState' \in 0 .. 3
    BY <1>4, Numbers DEF m3dStartTriangle, TypeOK
  <2> HIDE DEF full
  <2>4. /\ maxentries' \in Nat
        /\ entries' \in Pointers /\ realentries' \in Pointers
        /\ DOMAIN live' \subseteq Blocks /\ \A b \in DOMAIN live' : live'[b] \in Nat
        /\ misused' \in BOOLEAN /\ lost' \in 0 .. MaxEntries
        /\ gaps' \subseteq Gaps /\ outgrown' \in BOOLEAN
    BY <2>0, <2>1, <2>2, GrowType
  <2> QED BY <1>4, <2>3, <2>4 DEF m3dStartTriangle, TypeOK, pipeVars, runVars
<1>5. CASE m3dAddVertex
  <2>1. Grow(NoRoom, maxentries + GROWAMOUNT) /\ NoRoom \in BOOLEAN
    BY <1>5 DEF m3dAddVertex, NoRoom
  <2>2. maxentries + GROWAMOUNT \in Nat
    <3>1. maxentries \in Nat
      BY DEF TypeOK
    <3> QED BY <3>1, Numbers
  <2>3. numentries' \in 0 .. MaxEntries /\ polyState' \in 0 .. 3
    BY <1>5, Numbers DEF m3dAddVertex, TypeOK, PolyInv
  <2>4. /\ maxentries' \in Nat
        /\ entries' \in Pointers /\ realentries' \in Pointers
        /\ DOMAIN live' \subseteq Blocks /\ \A b \in DOMAIN live' : live'[b] \in Nat
        /\ misused' \in BOOLEAN /\ lost' \in 0 .. MaxEntries
        /\ gaps' \subseteq Gaps /\ outgrown' \in BOOLEAN
    BY <2>1, <2>2, GrowType
  <2> QED BY <1>5, <2>3, <2>4 DEF m3dAddVertex, TypeOK, pipeVars, runVars
<1>6. CASE m3dEndTriangle
  BY <1>6 DEF m3dEndTriangle, TypeOK, heapVars, pipeVars, runVars
<1>7. ASSUME NEW what \in Hinted, NEW how \in BOOLEAN, m3dHint(what, how)
      PROVE  TypeOK'
  <2>1. hint' \in [Hints -> BOOLEAN] /\ part' \in Pixels
    BY <1>7, BufferAssumption DEF m3dHint, TypeOK, PixelFor, Pixels
  <2> QED BY <1>7, <2>1 DEF m3dHint, TypeOK, bufVars, heapVars, runVars
<1>8. ASSUME NEW list \in MpeLists, m3dInit(list)
      PROVE  TypeOK'
  BY <1>8 DEF m3dInit, TypeOK, bufVars, heapVars, runVars
<1>9. CASE m3dExecuteBuffer
  <2>1. Cardinality(AllMPEs) \in Nat
    BY ListFacts
  <2>2. started' \in 0 .. Cardinality(AllMPEs) /\ drawn' \in [Triangles -> Nat]
    BY <1>9, <2>1 DEF m3dExecuteBuffer
  <2>3. cur_3d_pipe' \in Pixels \cup {None} /\ pipe_changed' \in BOOLEAN
    BY <1>9 DEF m3dExecuteBuffer, TypeOK
  <2> QED BY <1>9, <2>2, <2>3 DEF m3dExecuteBuffer, TypeOK, bufVars, heapVars
<1>10. CASE StartMPE
  <2>1. NumMPEs \in Nat /\ num_polys \in Nat
    BY ListFacts, Polys
  <2>2. started + 1 \in 0 .. Cardinality(AllMPEs)
    BY <1>10, ListFacts DEF StartMPE, TypeOK
  <2>3. [pc |-> "load", pixel |-> cur_3d_pipe,
         numtris |-> InitialNumtris(started),
         extern |-> started + NumMPEs, dma |-> started,
         localptr |-> 2, triptr |-> 1, inpbuf |-> <<None, None>>] \in Pipelines
    BY <2>1, <2>2, ListFacts DEF Pipelines, InitialNumtris, TypeOK
  <2> QED BY <1>10, <2>2, <2>3 DEF StartMPE, TypeOK, bufVars, heapVars, pipeVars
<1>11. CASE Return
  <2>1. started' \in 0 .. Cardinality(AllMPEs) /\ drawn' \in [Triangles -> Nat]
    BY <1>11, ListFacts DEF Return
  <2> QED BY <1>11, <2>1 DEF Return, TypeOK, bufVars, heapVars, pipeVars
<1>12. ASSUME NEW m \in AllMPEs, Machine(m)
       PROVE  TypeOK'
  <2> DEFINE p == mpe[m]
  <2>0. p \in Pipelines /\ NumMPEs \in Nat
    BY ListFacts DEF TypeOK
  <2>1. SUFFICES /\ mpe' \in [AllMPEs -> Pipelines] /\ drawn' \in [Triangles -> Nat]
                 /\ writing' \subseteq AllMPEs
    BY <1>12 DEF Machine, DMADone, PixelsDone, Load, Draw, End, Step, TypeOK, bufVars, heapVars,
                 pipeVars
  <2>2. CASE DMADone(m)
    BY <2>0, <2>2 DEF DMADone, Step, TypeOK, Pipelines
  <2>3. CASE Load(m)
    <3>1. p.dma = None /\ p.extern + NumMPEs \in Nat /\ p.numtris - NumMPEs \in Int
      BY <2>0, <2>3 DEF Load, Pipelines
    <3>2. Other(p.localptr) \in 1 .. 2
      BY <2>0 DEF Other, Pipelines
    <3> QED BY <2>0, <2>3, <3>1, <3>2 DEF Load, Step, TypeOK, Pipelines
  <2>4. CASE Draw(m)
    <3>1. \A u \in Triangles : drawn[u] \in Nat /\ drawn[u] + 1 \in Nat
      BY DEF TypeOK
    <3>2. drawn' \in [Triangles -> Nat]
      BY <2>4, <3>1 DEF Draw
    <3> QED BY <2>0, <2>4, <3>2 DEF Draw, Step, TypeOK, Pipelines
  <2>5. CASE End(m)
    BY <2>0, <2>5 DEF End, Step, Idle, TypeOK, Pipelines
  <2>6. CASE PixelsDone(m)
    BY <2>0, <2>6 DEF PixelsDone, Step, TypeOK
  <2> QED BY <1>12, <2>2, <2>3, <2>4, <2>5, <2>6 DEF Machine
<1>13. CASE UNCHANGED vars
  BY <1>13 DEF vars, TypeOK, bufVars, heapVars, pipeVars, runVars
<1> QED BY <1>1, <1>2, <1>3, <1>4, <1>5, <1>6, <1>7, <1>8, <1>9, <1>10, <1>11,
           <1>12, <1>13 DEF Next, Program

-----------------------------------------------------------------------------
(* The buffer. *)

LEMMA InitBuffer == Init => HeapInv /\ PolyInv
<1> SUFFICES ASSUME Init PROVE HeapInv /\ PolyInv
  OBVIOUS
<1>1. DOMAIN live = {}
  BY DEF Init
<1>2. PointerInv
  BY DEF Init, PointerInv, Null, Pointer
<1>3. BufferSound
  BY <1>1 DEF Init, BufferSound, EntriesFit
<1>4. PolyInv
  BY BufferAssumption DEF Init, PolyInv
<1> QED BY <1>2, <1>3, <1>4 DEF HeapInv

(* A buffer that grows lies in its new block. *)
LEMMA GrowHeap ==
  ASSUME TypeOK, HeapInv, ~misused, NEW full \in BOOLEAN, NEW n \in Nat,
         Grow(full, n), full => n >= maxentries + GROWAMOUNT,
         numentries' <= maxentries'
  PROVE  HeapInv'
<1>1. CASE full
  <2>1. PICK gap \in Gaps :
          /\ realloc(realentries, 16 + 16 * n, gap)
          /\ maxentries' = maxentries + GROWAMOUNT
          /\ realentries' = Pointer(Fresh, 0) /\ entries' = Pointer(Fresh, gap)
          /\ lost' = IF entries = Pointer(realentries.block, gap) THEN lost
                     ELSE numentries
          /\ outgrown' = (outgrown \/ entries.block # realentries.block)
    BY <1>1 DEF Grow
  <2>2. 16 + 16 * n \in Nat
    OBVIOUS
  <2>3. /\ Fresh # NoBlock
        /\ DOMAIN live' = (DOMAIN live \ {realentries.block}) \cup {Fresh}
        /\ live'[Fresh] = 16 + 16 * n
        /\ misused' = ~Own(realentries)
        /\ gaps' = gaps \cup {gap} /\ gap \in 0 .. 15
    BY <2>1, <2>2, NewBlock
  <2>4. entries'.block = Fresh /\ entries'.skip = gap
        /\ realentries'.block = Fresh /\ realentries'.skip = 0
    BY <2>1 DEF Pointer
  <2>5. PointerInv'
    BY <2>3, <2>4 DEF PointerInv
  <2>6. EntriesFit'
    <3>1. gap + 16 * (maxentries + GROWAMOUNT) <= 16 + 16 * n
      BY <1>1, <2>3, Numbers DEF TypeOK
    <3>2. entries' # Null'
      BY <2>3, <2>4 DEF Null, Pointer
    <3> QED BY <2>1, <2>3, <2>4, <3>1, <3>2 DEF EntriesFit
  <2>7. CASE outgrown'
    BY <2>5, <2>6, <2>7 DEF HeapInv, BufferSound
  <2>8. CASE ~outgrown'
    <3>1. ~outgrown /\ entries.block = realentries.block
      BY <2>1, <2>8
    <3>2. ~misused'
      <4>1. CASE entries = Null
        <5>1. realentries.block = NoBlock /\ realentries.skip = 0
          BY <3>1, <4>1 DEF HeapInv, PointerInv, Null, Pointer
        <5>2. realentries = Null
          BY <5>1 DEF TypeOK, Pointers, Null, Pointer
        <5> QED BY <2>3, <5>2 DEF Own
      <4>2. CASE entries # Null
        BY <2>3, <3>1, <4>2 DEF HeapInv, PointerInv, BufferSound, EntriesFit, Own
      <4> QED BY <4>1, <4>2
    <3>3. DOMAIN live' \subseteq {entries'.block}
      BY <2>3, <2>4, <3>1 DEF HeapInv, BufferSound
    <3>4. ASSUME lost' > 0, NEW g \in Gaps PROVE ~SameGap(g)'
      <4>1. CASE entries = Pointer(realentries.block, gap)
        <5>1. ~SameGap(g)
          BY <2>1, <3>1, <3>4, <4>1 DEF HeapInv, BufferSound
        <5> QED BY <2>3, <5>1 DEF SameGap
      <4>2. CASE entries # Pointer(realentries.block, gap)
        <5>1. numentries > 0
          BY <2>1, <3>4, <4>2
        <5>2. entries # Null
          BY <5>1, Numbers DEF HeapInv, BufferSound, EntriesFit, TypeOK
        <5>3. entries.skip \in gaps
          BY <3>1, <5>2 DEF HeapInv, PointerInv
        <5>4. entries.skip # gap
          BY <3>1, <4>2 DEF TypeOK, Pointers, Pointer
        <5> QED BY <2>3, <5>3, <5>4 DEF SameGap
      <4> QED BY <4>1, <4>2
    <3> QED BY <2>5, <2>6, <3>2, <3>3, <3>4 DEF HeapInv, BufferSound
  <2> QED BY <2>1, <2>7, <2>8
<1>2. CASE ~full
  BY <1>2 DEF Grow, heapVars, HeapInv, PointerInv, BufferSound, EntriesFit, SameGap, Null, Pointer
<1> QED BY <1>1, <1>2

LEMMA NextBuffer ==
  ASSUME TypeOK, HeapInv, PolyInv, [Next]_vars
  PROVE  HeapInv' /\ PolyInv'
<1>1. CASE m3dFreeBuf
  <2>1. DOMAIN live' = DOMAIN live \ (IF Own(entries) THEN {entries.block} ELSE {})
    BY <1>1 DEF m3dFreeBuf
  <2>2. /\ ~misused /\ misused' = ~Own(entries) /\ outgrown' = outgrown
        /\ gaps' = IF Own(entries) THEN {} ELSE gaps
        /\ entries' = Null /\ realentries' = Null /\ lost' = 0
        /\ numentries' = 0 /\ maxentries' = 0
    BY <1>1 DEF m3dFreeBuf, Sane
  <2>3. PointerInv' /\ EntriesFit'
    BY <2>2 DEF PointerInv, EntriesFit, Null, Pointer
  <2>4. misused' => ~SameGap(0)'
    <3>1. SUFFICES ASSUME ~Own(entries) PROVE ~SameGap(0)'
      BY <2>2
    <3>2. entries # Null /\ entries.block \in DOMAIN live
      BY <2>2, <3>1 DEF Own, HeapInv, BufferSound, EntriesFit
    <3>3. entries.skip # 0
      BY <3>1, <3>2 DEF Own
    <3>4. entries.skip \in gaps'
      BY <2>2, <3>1, <3>2, <3>3 DEF HeapInv, PointerInv
    <3> QED BY <3>3, <3>4 DEF SameGap
  <2>5. DOMAIN live' = {} \/ misused' \/ outgrown'
    BY <2>1, <2>2 DEF HeapInv, BufferSound
  <2>6. PolyInv'
    BY <1>1, BufferAssumption DEF m3dFreeBuf, PolyInv
  <2> QED BY <2>2, <2>3, <2>4, <2>5, <2>6 DEF HeapInv, BufferSound
<1>2. CASE m3dRecycleBuf
  <2>1. HeapInv'
    BY <1>2 DEF m3dRecycleBuf, TypeOK, HeapInv, PointerInv, BufferSound, EntriesFit, SameGap,
               Null, Pointer
  <2>2. PolyInv'
    BY <1>2, BufferAssumption DEF m3dRecycleBuf, PolyInv
  <2> QED BY <2>1, <2>2
<1>3. ASSUME NEW size \in Sizes, NEW force \in BOOLEAN, m3dSizeBuf(size, force)
      PROVE  HeapInv' /\ PolyInv'
  <2>1. size \in Nat /\ 16 * size \in Nat
    BY Numbers
  <2>2. PolyInv'
    BY <1>3, BufferAssumption DEF m3dSizeBuf, PolyInv
  <2>3. CASE size >= maxentries \/ force
    <3>1. PICK gap \in Gaps : realloc(entries, 16 * size, gap)
      BY <1>3, <2>3 DEF m3dSizeBuf
    <3>2. /\ entries' = Pointer(Fresh, 0) /\ maxentries' = size
          /\ numentries' = IF numentries > size THEN size ELSE numentries
          /\ UNCHANGED <<realentries, lost, outgrown>> /\ ~misused
      BY <1>3, <2>3 DEF m3dSizeBuf, Sane
    <3>3. /\ Fresh # NoBlock /\ Fresh # realentries.block
          /\ DOMAIN live' = (DOMAIN live \ {entries.block}) \cup {Fresh}
          /\ live'[Fresh] = 16 * size
          /\ misused' = ~Own(entries)
          /\ gaps' = gaps \cup {gap}
      BY <2>1, <3>1, <3>2, NewBlock
    <3>4. entries'.block = Fresh /\ entries'.skip = 0
      BY <3>2 DEF Pointer
    <3>5. PointerInv'
      BY <3>2, <3>3, <3>4 DEF HeapInv, PointerInv
    <3>6. EntriesFit'
      <4>1. numentries' <= maxentries'
        BY <2>1, <3>2, Numbers DEF TypeOK
      <4>2. 0 + 16 * size <= 16 * size
        BY <2>1
      <4>3. entries' # Null'
        BY <3>3, <3>4 DEF Null, Pointer
      <4> QED BY <3>2, <3>3, <3>4, <4>1, <4>2, <4>3 DEF EntriesFit
    <3>7. misused' => ~SameGap(0)'
      <4>1. SUFFICES ASSUME ~Own(entries) PROVE ~SameGap(0)'
        BY <3>3
      <4>2. entries # Null /\ entries.block \in DOMAIN live
        BY <3>2, <4>1 DEF Own, HeapInv, BufferSound, EntriesFit
      <4>3. entries.skip # 0
        BY <4>1, <4>2 DEF Own
      <4>4. entries.skip \in gaps'
        BY <3>3, <4>2, <4>3 DEF HeapInv, PointerInv
      <4> QED BY <4>3, <4>4 DEF SameGap
    <3>8. DOMAIN live' \subseteq {entries'.block} \/ misused' \/ outgrown'
      BY <3>2, <3>3, <3>4 DEF HeapInv, BufferSound
    <3>9. lost' > 0 => outgrown' \/ \A g \in Gaps : ~SameGap(g)'
      BY <3>2, <3>3 DEF HeapInv, BufferSound, SameGap
    <3> QED BY <2>2, <3>5, <3>6, <3>7, <3>8, <3>9 DEF HeapInv, BufferSound
  <2>4. CASE ~(size >= maxentries \/ force)
    BY <1>3, <2>2, <2>4 DEF m3dSizeBuf, HeapInv, PointerInv, BufferSound, EntriesFit, SameGap,
       Null, Pointer
  <2> QED BY <2>3, <2>4
<1>4. CASE m3dStartTriangle
  <2> DEFINE full == numentries >= maxentries
             size == numentries + GROWAMOUNT
  <2>1. /\ full \in BOOLEAN /\ size \in Nat
        /\ full => size >= maxentries + GROWAMOUNT
    BY Numbers DEF TypeOK
  <2>2. Grow(full, size) /\ ~misused
    BY <1>4 DEF m3dStartTriangle, Sane
  <2>3. numentries' = numentries + 1 /\ polyState' = 0
    BY <1>4 DEF m3dStartTriangle
  <2>4. numentries <= maxentries
    BY DEF HeapInv, BufferSound, EntriesFit
  <2>5. /\ full => numentries + 1 <= maxentries + GROWAMOUNT
        /\ ~full => numentries + 1 <= maxentries
    BY <2>4, Numbers DEF TypeOK
  <2>6. PolyInv'
    BY <1>4, <2>3, Numbers DEF m3dStartTriangle, PolyInv, TypeOK
  <2> HIDE DEF full, size
  <2>7. maxentries' = IF full THEN maxentries + GROWAMOUNT ELSE maxentries
    BY <2>2 DEF Grow
  <2>8. numentries' <= maxentries'
    BY <2>3, <2>5, <2>7
  <2> QED BY <2>1, <2>2, <2>6, <2>8, GrowHeap
<1>5. CASE m3dAddVertex
  <2> DEFINE size == maxentries + GROWAMOUNT
  <2>1. /\ NoRoom \in BOOLEAN /\ size \in Nat
        /\ NoRoom => size >= maxentries + GROWAMOUNT
    BY Numbers DEF TypeOK, NoRoom
  <2>2. Grow(NoRoom, size) /\ ~misused
    BY <1>5 DEF m3dAddVertex, Sane
  <2>3. numentries' = numentries + 2
    BY <1>5 DEF m3dAddVertex
  <2>4. numentries <= maxentries
    BY DEF HeapInv, BufferSound, EntriesFit
  <2>5. /\ NoRoom => numentries + 2 <= maxentries + GROWAMOUNT
        /\ ~NoRoom => numentries + 2 <= maxentries
    BY <2>4, Numbers DEF TypeOK, NoRoom
  <2>6. PolyInv'
    BY <1>5, Numbers DEF m3dAddVertex, PolyInv, TypeOK
  <2> HIDE DEF size
  <2>7. maxentries' = IF NoRoom THEN maxentries + GROWAMOUNT ELSE maxentries
    BY <2>2 DEF Grow
  <2>8. numentries' <= maxentries'
    BY <2>3, <2>5, <2>7
  <2> QED BY <2>1, <2>2, <2>6, <2>8, GrowHeap
<1>6. CASE m3dEndTriangle
  <2>1. PolyInv'
    BY <1>6, BufferAssumption DEF m3dEndTriangle, PolyInv
  <2> QED BY <1>6, <2>1 DEF m3dEndTriangle, heapVars, HeapInv, PointerInv,
         BufferSound, EntriesFit, SameGap, Null, Pointer
<1>7. CASE UNCHANGED bufVars
  BY <1>7 DEF bufVars, heapVars, HeapInv, PointerInv, BufferSound, EntriesFit, SameGap,
     Null, Pointer, PolyInv
<1>8. (\E what \in Hinted, how \in BOOLEAN : m3dHint(what, how)) => UNCHANGED bufVars
  BY DEF m3dHint
<1>9. (\E list \in MpeLists : m3dInit(list)) \/ m3dExecuteBuffer => UNCHANGED bufVars
  BY DEF m3dInit, m3dExecuteBuffer
<1>10. StartMPE \/ Return \/ (\E m \in AllMPEs : Machine(m)) => UNCHANGED bufVars
  BY DEF StartMPE, Return, Machine, DMADone, PixelsDone, Load, Draw, End, Step
<1>11. UNCHANGED vars => UNCHANGED bufVars
  BY DEF vars
<1> QED BY <1>1, <1>2, <1>3, <1>4, <1>5, <1>6, <1>7, <1>8, <1>9, <1>10, <1>11
        DEF Next, Program

-----------------------------------------------------------------------------
(* The pipe. *)

LEMMA InitPipe == Init => PipeInv
BY DEF Init, PipeInv, PixelFor, Hints

LEMMA NextPipe ==
  ASSUME TypeOK, PipeInv, [Next]_vars
  PROVE  PipeInv'
<1>1. ASSUME NEW what \in Hinted, NEW how \in BOOLEAN, m3dHint(what, how)
      PROVE  PipeInv'
  <2>1. part' = PixelFor(hint)'
    BY <1>1 DEF m3dHint, PixelFor
  <2>2. calling' = "no"
    BY <1>1 DEF m3dHint, Quiet, runVars
  <2> QED BY <1>1, <2>1, <2>2 DEF m3dHint, PipeInv
<1>2. ASSUME NEW list \in MpeLists, m3dInit(list)
      PROVE  PipeInv'
  BY <1>2 DEF m3dInit, PipeInv, Quiet, runVars, PixelFor
<1>3. CASE m3dExecuteBuffer
  BY <1>3 DEF m3dExecuteBuffer, PipeInv, PixelFor
<1>4. CASE UNCHANGED pipeVars /\ (calling' = calling \/ calling' = "no")
  BY <1>4 DEF pipeVars, PipeInv, PixelFor
<1>5. m3dFreeBuf \/ m3dRecycleBuf \/ m3dStartTriangle \/ m3dAddVertex
      \/ m3dEndTriangle => UNCHANGED pipeVars /\ calling' = calling
  BY DEF m3dFreeBuf, m3dRecycleBuf, m3dStartTriangle, m3dAddVertex, m3dEndTriangle,
         runVars
<1>6. (\E size \in Sizes, force \in BOOLEAN : m3dSizeBuf(size, force))
        => UNCHANGED pipeVars /\ calling' = calling
  BY DEF m3dSizeBuf, runVars
<1>7. StartMPE \/ (\E m \in AllMPEs : Machine(m))
        => UNCHANGED pipeVars /\ calling' = calling
  BY DEF StartMPE, Machine, DMADone, PixelsDone, Load, Draw, End, Step
<1>8. Return => UNCHANGED pipeVars /\ calling' = "no"
  BY DEF Return
<1>9. UNCHANGED vars => UNCHANGED pipeVars /\ calling' = calling
  BY DEF vars, runVars
<1> QED BY <1>1, <1>2, <1>3, <1>4, <1>5, <1>6, <1>7, <1>8, <1>9 DEF Next, Program

-----------------------------------------------------------------------------
(* The MPEs. *)

(* Outside a call the program leaves the MPEs alone, and a call that begins   *)
(* has started none.                                                          *)
LEMMA ProgramSteps ==
  ASSUME TypeOK, Program
  PROVE  /\ calling = "no" /\ mpe' = mpe /\ writing' = writing
         /\ \/ calling' = "no"
            \/ /\ calling' = "start" /\ started' = 0 /\ mpe_list' = mpe_list
               /\ drawn' = [t \in Triangles |-> 0]
<1>1. m3dFreeBuf \/ m3dRecycleBuf \/ m3dStartTriangle \/ m3dAddVertex
      \/ m3dEndTriangle => calling = "no" /\ UNCHANGED runVars
  BY DEF m3dFreeBuf, m3dRecycleBuf, m3dStartTriangle, m3dAddVertex, m3dEndTriangle,
         Quiet, Sane
<1>2. (\E size \in Sizes, force \in BOOLEAN : m3dSizeBuf(size, force))
        => calling = "no" /\ UNCHANGED runVars
  BY DEF m3dSizeBuf, Quiet, Sane
<1>3. (\E what \in Hinted, how \in BOOLEAN : m3dHint(what, how))
        => calling = "no" /\ UNCHANGED runVars
  BY DEF m3dHint, Quiet, Sane
<1>4. (\E list \in MpeLists : m3dInit(list)) => calling = "no" /\ UNCHANGED runVars
  BY DEF m3dInit, Quiet, Sane
<1>5. m3dExecuteBuffer =>
        /\ calling = "no" /\ mpe' = mpe /\ writing' = writing
        /\ calling' = "start" /\ started' = 0 /\ mpe_list' = mpe_list
        /\ drawn' = [t \in Triangles |-> 0]
  BY DEF m3dExecuteBuffer, Quiet, Sane
<1> QED BY <1>1, <1>2, <1>3, <1>4, <1>5 DEF Program, runVars

(* The MPE that a call starts next. *)
LEMMA Starting ==
  ASSUME TypeOK, RunInv, StartMPE
  PROVE  /\ calling = "start" /\ calling' = "start"
         /\ started \in Nat /\ started < NumMPEs /\ started' = started + 1
         /\ NumMPEs \in Nat /\ NumMPEs' = NumMPEs /\ mpe_list' = mpe_list
         /\ num_polys' = num_polys /\ cur_3d_pipe' = cur_3d_pipe /\ drawn' = drawn
         /\ mpe_list[started + 1] \in AllMPEs
         /\ mpe'[mpe_list[started + 1]] =
              [pc |-> "load", pixel |-> cur_3d_pipe,
               numtris |-> InitialNumtris(started),
               extern |-> started + NumMPEs, dma |-> started,
               localptr |-> 2, triptr |-> 1, inpbuf |-> <<None, None>>]
         /\ \A m \in AllMPEs : m # mpe_list[started + 1] => mpe'[m] = mpe[m]
         /\ \A i \in 1 .. started : /\ mpe_list[i] \in AllMPEs
                                    /\ mpe_list[i] # mpe_list[started + 1]
                                    /\ mpe'[mpe_list[i]] = mpe[mpe_list[i]]
<1>1. /\ calling = "start" /\ started < NumMPEs /\ started' = started + 1
      /\ calling' = "start" /\ mpe_list' = mpe_list
      /\ num_polys' = num_polys /\ cur_3d_pipe' = cur_3d_pipe /\ drawn' = drawn
      /\ NumMPEs' = NumMPEs
  BY DEF StartMPE, bufVars, pipeVars, NumMPEs, num_polys
<1>2. started \in Nat /\ NumMPEs \in Nat
  BY ListFacts DEF TypeOK
<1>3. started + 1 \in 1 .. NumMPEs /\ \A i \in 1 .. started : i \in 1 .. NumMPEs
  BY <1>1, <1>2
<1>4. /\ mpe_list[started + 1] \in AllMPEs
      /\ \A i \in 1 .. started : /\ mpe_list[i] \in AllMPEs
                                 /\ mpe_list[i] # mpe_list[started + 1]
  BY <1>2, <1>3, ListFacts
<1>5. mpe \in [AllMPEs -> Pipelines]
  BY DEF TypeOK
<1> QED BY <1>1, <1>2, <1>4, <1>5 DEF StartMPE

(* A step of an MPE that has been started, as the i-th. *)
LEMMA Working ==
  ASSUME TypeOK, RunInv, NEW m \in AllMPEs, Machine(m)
  PROVE  /\ calling = "start" /\ mpe[m].pc # "off" /\ mpe[m].pixel = cur_3d_pipe
         /\ calling' = calling /\ started' = started /\ mpe_list' = mpe_list
         /\ num_polys' = num_polys /\ NumMPEs' = NumMPEs /\ NumMPEs \in Nat
         /\ cur_3d_pipe' = cur_3d_pipe
         /\ mpe \in [AllMPEs -> Pipelines] /\ mpe[m] \in Pipelines
         /\ \A n \in AllMPEs : n # m => mpe'[n] = mpe[n]
         /\ \E i \in 1 .. started :
              /\ mpe_list[i] = m
              /\ i \in 1 .. NumMPEs /\ started <= NumMPEs
              /\ \A j \in 1 .. started :
                   /\ mpe_list[j] \in AllMPEs
                   /\ j # i => mpe_list[j] # m /\ mpe'[mpe_list[j]] = mpe[mpe_list[j]]
<1>1. mpe \in [AllMPEs -> Pipelines] /\ NumMPEs \in Nat /\ started \in Nat
  BY ListFacts DEF TypeOK
<1>2. mpe[m].pc # "off"
  BY DEF Machine, DMADone, PixelsDone, Load, Draw, End, RunInv
<1>3. PICK p : Step(m, p)
  BY DEF Machine, DMADone, PixelsDone, Load, Draw, End
<1>4. /\ calling' = calling /\ started' = started /\ mpe_list' = mpe_list
      /\ num_polys' = num_polys /\ NumMPEs' = NumMPEs /\ cur_3d_pipe' = cur_3d_pipe
      /\ \A n \in AllMPEs : n # m => mpe'[n] = mpe[n]
  BY <1>1, <1>3 DEF Step, bufVars, pipeVars, num_polys, NumMPEs
<1>5. /\ calling = "start" /\ started <= NumMPEs /\ mpe[m].pixel = cur_3d_pipe
      /\ \E i \in 1 .. started : mpe_list[i] = m
  BY <1>2 DEF RunInv
<1>6. PICK i \in 1 .. started : mpe_list[i] = m
  BY <1>5
<1>7. \A j \in 1 .. started : j \in 1 .. NumMPEs
  BY <1>1, <1>5
<1>8. \A j \in 1 .. started :
        /\ mpe_list[j] \in AllMPEs
        /\ j # i => mpe_list[j] # m
  BY <1>6, <1>7, ListFacts
<1>9. \A j \in 1 .. started :
        j # i => mpe'[mpe_list[j]] = mpe[mpe_list[j]]
  BY <1>4, <1>8
<1> QED BY <1>1, <1>2, <1>4, <1>5, <1>6, <1>7, <1>8, <1>9

LEMMA InitRun == Init => RunInv /\ FetchInv /\ DrawnInv
BY DEF Init, RunInv, FetchInv, DrawnInv, Idle

LEMMA NextRun ==
  ASSUME TypeOK, RunInv, [Next]_vars
  PROVE  RunInv'
<1>1. CASE Program
  <2>1. NumMPEs \in Nat
    BY ListFacts
  <2>2. \A m \in AllMPEs : mpe'[m].pc = "off" /\ mpe'[m].dma = None
    BY <1>1, ProgramSteps DEF RunInv
  <2>3. calling' = "start" => started' <= NumMPEs'
    BY <1>1, <2>1, ProgramSteps DEF NumMPEs
  <2>4. \A m \in writing' : mpe'[m].pc # "off"
    BY <1>1, ProgramSteps DEF RunInv
  <2> QED BY <2>2, <2>3, <2>4 DEF RunInv
<1>2. CASE StartMPE
  <2> DEFINE new == mpe_list[started + 1]
  <2>1. started' <= NumMPEs'
    BY <1>2, Starting
  <2>2. mpe'[new].pc # "off" /\ mpe'[new].pixel = cur_3d_pipe' /\ calling' = "start"
    BY <1>2, Starting
  <2>3. started + 1 \in 1 .. started' /\ mpe_list'[started + 1] = new
    BY <1>2, Starting
  <2>4. \A i \in 1 .. started : i \in 1 .. started' /\ mpe_list'[i] = mpe_list[i]
    BY <1>2, Starting
  <2>5. ASSUME NEW m \in AllMPEs, m # new
        PROVE  IF mpe'[m].pc = "off" THEN mpe'[m].dma = None
               ELSE /\ calling' = "start"
                    /\ mpe'[m].pixel = cur_3d_pipe'
                    /\ \E i \in 1 .. started' : mpe_list'[i] = m
    <3>1. mpe'[m] = mpe[m] /\ calling' = "start" /\ cur_3d_pipe' = cur_3d_pipe
      BY <1>2, <2>5, Starting
    <3>2. CASE mpe[m].pc = "off"
      BY <3>1, <3>2 DEF RunInv
    <3>3. CASE mpe[m].pc # "off"
      <4>1. PICK i \in 1 .. started : mpe_list[i] = m
        BY <3>3 DEF RunInv
      <4> QED BY <2>4, <3>1, <3>3, <4>1 DEF RunInv
    <3> QED BY <3>2, <3>3
  <2>6. \A m \in writing' : m \in AllMPEs /\ mpe'[m].pc # "off"
    <3>1. \A m \in writing : m \in AllMPEs /\ mpe[m].pc # "off"
      BY DEF RunInv, TypeOK
    <3>2. writing' = writing
      BY <1>2 DEF StartMPE
    <3>3. \A m \in AllMPEs : m # new => mpe'[m] = mpe[m]
      BY <1>2, Starting
    <3> QED BY <2>2, <3>1, <3>2, <3>3
  <2> QED BY <2>1, <2>2, <2>3, <2>5, <2>6 DEF RunInv
<1>3. CASE Return
  <2>1. /\ calling' = "no" /\ mpe' = mpe /\ started = NumMPEs /\ writing' = writing
        /\ \A i \in 1 .. NumMPEs : mpe[mpe_list[i]].pc = "off"
    BY <1>3 DEF Return
  <2>2. \A m \in AllMPEs : mpe[m].pc = "off"
    BY <2>1 DEF RunInv
  <2> QED BY <2>1, <2>2 DEF RunInv
<1>4. ASSUME NEW m \in AllMPEs, Machine(m)
      PROVE  RunInv'
  <2>1. /\ calling = "start" /\ calling' = "start" /\ started' = started
        /\ mpe_list' = mpe_list /\ NumMPEs' = NumMPEs /\ cur_3d_pipe' = cur_3d_pipe
        /\ mpe[m].pixel = cur_3d_pipe
        /\ mpe \in [AllMPEs -> Pipelines] /\ mpe[m] \in Pipelines
        /\ \A n \in AllMPEs : n # m => mpe'[n] = mpe[n]
        /\ \E i \in 1 .. started : mpe_list[i] = m
    BY <1>4, Working
  <2>2. IF mpe'[m].pc = "off" THEN mpe'[m].dma = None
        ELSE mpe'[m].pixel = cur_3d_pipe
    <3>1. CASE DMADone(m)
      BY <2>1, <3>1 DEF DMADone, Step, RunInv, Pipelines
    <3>2. CASE Load(m)
      BY <2>1, <3>2 DEF Load, Step, Pipelines
    <3>3. CASE Draw(m)
      BY <2>1, <3>3 DEF Draw, Step, Pipelines
    <3>4. CASE End(m)
      BY <2>1, <3>4 DEF End, Step, Idle
    <3>5. CASE PixelsDone(m)
      BY <2>1, <3>5 DEF PixelsDone, Step, RunInv
    <3> QED BY <1>4, <3>1, <3>2, <3>3, <3>4, <3>5 DEF Machine
  <2>3. \A n \in writing' : mpe'[n].pc # "off"
    <3>1. \A n \in writing : mpe[n].pc # "off" /\ n \in AllMPEs
      BY DEF RunInv, TypeOK
    <3>2. /\ mpe'[m].pc = "off" => m \notin writing'
          /\ writing' \subseteq writing \cup {m}
      <4>1. CASE DMADone(m) \/ PixelsDone(m)
        BY <2>1, <4>1, <3>1 DEF DMADone, PixelsDone, Step, Pipelines
      <4>2. CASE Load(m)
        BY <2>1, <4>2 DEF Load, Step, Pipelines
      <4>3. CASE Draw(m)
        BY <2>1, <4>3 DEF Draw, Step, Pipelines
      <4>4. CASE End(m)
        BY <4>4 DEF End
      <4> QED BY <1>4, <4>1, <4>2, <4>3, <4>4 DEF Machine
    <3> QED BY <2>1, <3>1, <3>2
  <2> QED BY <2>1, <2>2, <2>3 DEF RunInv
<1>5. CASE UNCHANGED vars
  BY <1>5 DEF vars, RunInv, runVars, pipeVars, NumMPEs
<1> QED BY <1>1, <1>2, <1>3, <1>4, <1>5 DEF Next

(* A pipeline's step takes it to the next triangle of its turn. *)
LEMMA FetchStep ==
  ASSUME TypeOK, RunInv, NEW m \in AllMPEs, Machine(m), NEW me \in 0 .. NumMPEs - 1,
         Fetching(mpe[m], me), mpe'[m].pc # "off"
  PROVE  Fetching(mpe'[m], me)
<1> DEFINE p == mpe[m]
           n == NumMPEs
<1>1. /\ p \in Pipelines /\ mpe \in [AllMPEs -> Pipelines] /\ n \in Nat /\ n > 0
      /\ num_polys \in Nat
  BY Working, Polys
<1>2. /\ p.numtris \in Int /\ p.extern \in Nat /\ p.dma \in Nat \cup {None}
      /\ p.localptr \in 1 .. 2 /\ p.triptr \in 1 .. 2
      /\ p.inpbuf \in [1 .. 2 -> Nat \cup {None}]
  BY <1>1 DEF Pipelines
<1>3. CASE DMADone(m)
  <2>1. /\ p.dma # None
        /\ mpe'[m] = [p EXCEPT !.inpbuf[p.localptr] = p.dma, !.dma = None]
    BY <1>1, <1>3 DEF DMADone, Step
  <2>2. /\ mpe'[m].dma = None /\ mpe'[m].inpbuf[p.localptr] = p.dma
        /\ mpe'[m].localptr = p.localptr /\ mpe'[m].triptr = p.triptr
        /\ mpe'[m].extern = p.extern /\ mpe'[m].numtris = p.numtris
        /\ mpe'[m].pc = p.pc
        /\ p.triptr # p.localptr => mpe'[m].inpbuf[p.triptr] = p.inpbuf[p.triptr]
    BY <1>1, <1>2, <2>1 DEF Pipelines
  <2> QED BY <2>1, <2>2 DEF Fetching, Coming
<1>4. CASE Load(m)
  <2> DEFINE left == p.numtris - n
  <2>1. /\ p.dma = None /\ p.pc = "load"
        /\ mpe'[m] = [p EXCEPT !.triptr = p.localptr,
                               !.localptr = Other(p.localptr),
                               !.dma = p.extern, !.extern = p.extern + n,
                               !.numtris = left,
                               !.pc = IF left <= 0 THEN "end" ELSE "draw"]
    BY <1>1, <1>4 DEF Load, Step
  <2>2. /\ mpe'[m].triptr = p.localptr /\ mpe'[m].localptr = Other(p.localptr)
        /\ mpe'[m].dma = p.extern /\ mpe'[m].extern = p.extern + n
        /\ mpe'[m].numtris = left /\ mpe'[m].inpbuf = p.inpbuf
        /\ mpe'[m].pc = IF left <= 0 THEN "end" ELSE "draw"
    BY <1>1, <2>1 DEF Pipelines
  <2>3. /\ p.numtris = num_polys + 2 * n - p.extern
        /\ p.extern >= n /\ p.extern % n = me
        /\ p.inpbuf[p.localptr] = p.extern - n
    BY <2>1 DEF Fetching, Coming
  <2>4. (p.extern + n) % n = me
    <3>1. p.extern \in Int
      BY <1>2
    <3> HIDE DEF p, n
    <3>2. (p.extern + n) % n = p.extern % n
      BY <1>1, <3>1, NextTurn
    <3> QED BY <2>3, <3>2
  <2>5. /\ left = num_polys + 2 * n - (p.extern + n)
        /\ p.extern + n >= 2 * n /\ p.extern + n >= n
        /\ (p.extern + n) - n = p.extern
        /\ (p.extern + n) - 2 * n = p.extern - n
        /\ left <= 0 => p.extern - n >= num_polys
        /\ ~(left <= 0) => p.extern - n < num_polys
    BY <1>1, <1>2, <2>3
  <2>6. Other(p.localptr) # p.localptr
    BY <1>2 DEF Other
  <2>7. p.extern # None
    BY <1>2, Numbers
  <2> HIDE DEF left, n
  <2> QED BY <2>2, <2>3, <2>4, <2>5, <2>6, <2>7 DEF Fetching, Coming, n
<1>5. CASE Draw(m)
  <2>1. mpe'[m] = [p EXCEPT !.pc = "load"]
    BY <1>1, <1>5 DEF Draw, Step
  <2>2. /\ mpe'[m].dma = p.dma /\ mpe'[m].inpbuf = p.inpbuf
        /\ mpe'[m].localptr = p.localptr /\ mpe'[m].triptr = p.triptr
        /\ mpe'[m].extern = p.extern /\ mpe'[m].numtris = p.numtris
        /\ mpe'[m].pc = "load"
    BY <1>1, <2>1 DEF Pipelines
  <2> QED BY <2>2 DEF Fetching, Coming
<1>6. CASE End(m)
  BY <1>1, <1>6 DEF End, Step, Idle
<1>7. CASE PixelsDone(m)
  <2>1. mpe'[m] = p
    BY <1>1, <1>7 DEF PixelsDone, Step
  <2> QED BY <2>1 DEF Fetching, Coming
<1> QED BY <1>3, <1>4, <1>5, <1>6, <1>7 DEF Machine

LEMMA NextFetch ==
  ASSUME TypeOK, RunInv, FetchInv, [Next]_vars
  PROVE  FetchInv'
<1>1. CASE Program
  BY <1>1, ProgramSteps DEF FetchInv
<1>2. CASE StartMPE
  <2> DEFINE new == mpe_list[started + 1]
             n == NumMPEs
  <2>1. /\ started \in Nat /\ n \in Nat /\ started < n /\ started' = started + 1
        /\ n > 0 /\ num_polys \in Nat
    BY <1>2, Starting, Polys
  <2>2. mpe'[new] = [pc |-> "load", pixel |-> cur_3d_pipe,
                     numtris |-> InitialNumtris(started),
                     extern |-> started + n, dma |-> started,
                     localptr |-> 2, triptr |-> 1, inpbuf |-> <<None, None>>]
    BY <1>2, Starting
  <2>3. started % n = started
    BY <2>1
  <2>4. (started + n) % n = started
    BY <2>1, <2>3, NextTurn
  <2>5. started # None /\ InitialNumtris(started) = num_polys + 2 * n - (started + n)
    BY <2>1, BufferAssumption DEF InitialNumtris
  <2>6. started + n >= n /\ (started + n) - n = started
    BY <2>1
  <2>7. Fetching(mpe'[new], started)
    BY <2>2, <2>4, <2>5, <2>6 DEF Fetching, Coming
  <2>8. ASSUME NEW i \in 1 .. started', mpe'[mpe_list[i]].pc # "off"
        PROVE  Fetching(mpe'[mpe_list[i]], i - 1)
    <3>1. CASE i = started + 1
      <4>1. i - 1 = started
        BY <2>1, <3>1
      <4> QED BY <2>7, <3>1, <4>1
    <3>2. CASE i # started + 1
      <4>1. i \in 1 .. started
        BY <2>1, <3>2
      <4>2. mpe'[mpe_list[i]] = mpe[mpe_list[i]] /\ calling = "start"
        BY <1>2, <4>1, Starting
      <4> QED BY <2>8, <4>1, <4>2 DEF FetchInv
    <3> QED BY <3>1, <3>2
  <2>9. num_polys' = num_polys /\ NumMPEs' = NumMPEs /\ mpe_list' = mpe_list
    BY <1>2, Starting
  <2> QED BY <2>8, <2>9 DEF FetchInv, Fetching
<1>3. CASE Return
  BY <1>3 DEF Return, FetchInv
<1>4. ASSUME NEW m \in AllMPEs, Machine(m)
      PROVE  FetchInv'
  <2>1. /\ calling = "start" /\ started' = started /\ mpe_list' = mpe_list
        /\ num_polys' = num_polys /\ NumMPEs' = NumMPEs /\ NumMPEs \in Nat
        /\ mpe[m].pc # "off"
    BY <1>4, Working
  <2>2. PICK i \in 1 .. started :
          /\ mpe_list[i] = m /\ i \in 1 .. NumMPEs
          /\ \A j \in 1 .. started : j # i => mpe'[mpe_list[j]] = mpe[mpe_list[j]]
    BY <1>4, Working
  <2>3. i - 1 \in 0 .. NumMPEs - 1
    BY <2>1, <2>2
  <2>4. Fetching(mpe[m], i - 1)
    BY <2>1, <2>2 DEF FetchInv
  <2>5. mpe'[m].pc # "off" => Fetching(mpe'[m], i - 1)
    BY <1>4, <2>3, <2>4, FetchStep
  <2>6. ASSUME NEW j \in 1 .. started, mpe'[mpe_list[j]].pc # "off"
        PROVE  Fetching(mpe'[mpe_list[j]], j - 1)
    BY <2>1, <2>2, <2>5, <2>6 DEF FetchInv
  <2> QED BY <2>1, <2>6 DEF FetchInv, Fetching
<1>5. CASE UNCHANGED vars
  BY <1>5 DEF vars, FetchInv, Fetching, runVars, bufVars, num_polys, NumMPEs
<1> QED BY <1>1, <1>2, <1>3, <1>4, <1>5 DEF Next

-----------------------------------------------------------------------------
(* What has been drawn. *)

LEMMA NextDrawn ==
  ASSUME TypeOK, RunInv, FetchInv, DrawnInv, [Next]_vars
  PROVE  DrawnInv'
<1> DEFINE n == NumMPEs
           Drawn(t) == IF t < num_polys /\ Passed(t) THEN 1 ELSE 0
<1>1. CASE Program
  <2>1. SUFFICES ASSUME calling' = "start", n' > 0, NEW t \in Triangles
                 PROVE  drawn'[t] = 0 /\ ~Passed(t)'
    BY DEF DrawnInv
  <2>2. started' = 0 /\ n' = n /\ drawn' = [u \in Triangles |-> 0]
    BY <1>1, <2>1, ProgramSteps DEF NumMPEs
  <2>3. n \in Nat /\ n > 0 /\ t \in Int
    BY <2>1, <2>2, ListFacts DEF Triangles
  <2>4. t % n \in 0 .. n - 1
    BY <2>3, Division
  <2>5. (t % n)' = t % n
    BY <2>2
  <2> HIDE DEF n
  <2>6. ~(t % n < started')
    BY <2>2, <2>3, <2>4
  <2>7. ~Passed(t)'
    BY <2>5, <2>6 DEF Passed, n
  <2> QED BY <2>2, <2>7
<1>2. CASE StartMPE
  <2> DEFINE new == mpe_list[started + 1]
  <2>1. /\ calling = "start" /\ started \in Nat /\ started < n /\ started' = started + 1
        /\ n \in Nat /\ n > 0 /\ n' = n /\ mpe_list' = mpe_list
        /\ num_polys' = num_polys /\ drawn' = drawn
        /\ mpe'[new].pc = "load" /\ mpe'[new].extern = started + n
        /\ \A i \in 1 .. started : mpe'[mpe_list[i]] = mpe[mpe_list[i]]
    BY <1>2, Starting
  <2>2. ASSUME NEW t \in Triangles
        PROVE  Passed(t)' <=> Passed(t)
    <3> DEFINE me == t % n
    <3>1. t \in Int /\ t >= 0
      BY DEF Triangles
    <3>2. me \in 0 .. n - 1 /\ me <= t
      <4>1. me \in 0 .. n - 1
        BY <2>1, <3>1, Division
      <4>2. CASE t < n
        BY <2>1, <3>1, <4>2
      <4>3. CASE t >= n
        BY <2>1, <3>1, <4>1, <4>3
      <4> QED BY <2>1, <3>1, <4>1, <4>2, <4>3
    <3>3. (t % n)' = t % n
      BY <2>1
    <3> HIDE DEF me
    <3>4. CASE me = started
      <4>1. ~Passed(t)
        BY <2>1, <3>4 DEF Passed, me
      <4>2. mpe'[mpe_list'[me + 1]] = mpe'[new]
        BY <2>1, <3>4
      <4>3. started + n - n = started /\ ~(t < started)
        BY <2>1, <3>1, <3>2, <3>4
      <4>4. ~Passed(t)'
        BY <2>1, <3>3, <3>4, <4>2, <4>3 DEF Passed, Turn, me
      <4> QED BY <4>1, <4>4
    <3>5. CASE me < started
      <4>1. me + 1 \in 1 .. started
        BY <2>1, <3>2, <3>5
      <4>2. mpe'[mpe_list'[me + 1]] = mpe[mpe_list[me + 1]]
        BY <2>1, <4>1
      <4> QED BY <2>1, <3>3, <3>2, <3>5, <4>2 DEF Passed, Turn, me
    <3>6. CASE me > started
      BY <2>1, <3>2, <3>3, <3>6 DEF Passed, me
    <3> QED BY <2>1, <3>2, <3>4, <3>5, <3>6
  <2> QED BY <2>1, <2>2 DEF DrawnInv
<1>3. CASE Return
  BY <1>3 DEF Return, DrawnInv
<1>4. ASSUME NEW m \in AllMPEs, Machine(m)
      PROVE  DrawnInv'
  <2> DEFINE p == mpe[m]
  <2>1. /\ calling = "start" /\ started' = started /\ mpe_list' = mpe_list
        /\ num_polys' = num_polys /\ n' = n /\ n \in Nat
        /\ p.pc # "off" /\ p \in Pipelines /\ mpe \in [AllMPEs -> Pipelines]
        /\ started \in Nat /\ num_polys \in Nat
    BY <1>4, Working, Polys DEF TypeOK
  <2>2. PICK i \in 1 .. started :
          /\ mpe_list[i] = m /\ i \in 1 .. n /\ started <= n
          /\ \A j \in 1 .. started : j # i => mpe'[mpe_list[j]] = mpe[mpe_list[j]]
    BY <1>4, Working
  <2>3. n > 0 /\ p.extern \in Nat
    BY <2>1, <2>2 DEF Pipelines
  <2>4. Fetching(p, i - 1)
    BY <2>1, <2>2 DEF FetchInv
  <2>5. SUFFICES ASSUME NEW t \in Triangles
                 PROVE  drawn'[t] = IF t < num_polys /\ Passed(t)' THEN 1 ELSE 0
    BY <2>1 DEF DrawnInv
  <2>6. drawn[t] = IF t < num_polys /\ Passed(t) THEN 1 ELSE 0
    BY <2>1, <2>3 DEF DrawnInv
  <2>7. t \in Nat /\ t % n \in 0 .. n - 1 /\ (t % n)' = t % n
    <3>1. t \in Nat
      BY DEF Triangles
    <3> QED BY <2>1, <2>3, <3>1, Division
  <2>8. CASE t % n # i - 1
    <3>1. Passed(t)' <=> Passed(t)
      <4>1. CASE t % n < started
        <5>1. (t % n) + 1 \in 1 .. started /\ (t % n) + 1 # i
          BY <2>1, <2>2, <2>7, <2>8, <4>1
        <5>2. mpe'[mpe_list[(t % n) + 1]] = mpe[mpe_list[(t % n) + 1]]
          BY <2>2, <5>1
        <5> QED BY <2>1, <2>7, <5>2 DEF Passed, Turn
      <4>2. CASE ~(t % n < started)
        BY <2>1, <2>7, <4>2 DEF Passed
      <4> QED BY <4>1, <4>2
    <3>2. drawn'[t] = drawn[t]
      <4>1. CASE Draw(m)
        <5>1. /\ p.inpbuf[p.triptr] = p.extern - 2 * n /\ p.extern % n = i - 1
              /\ p.extern >= 2 * n
          BY <2>4, <4>1 DEF Draw, Fetching
        <5>2. (p.extern - 2 * n) % n = i - 1
          <6> DEFINE e == p.extern - 2 * n
          <6>1. e \in Int /\ e + n \in Int /\ (e + n) + n = p.extern
            BY <2>1, <2>3
          <6> HIDE DEF e, n
          <6>2. (e + n) % n = e % n /\ ((e + n) + n) % n = (e + n) % n
            BY <2>1, <2>3, <6>1, NextTurn
          <6> QED BY <5>1, <6>1, <6>2 DEF e
        <5>3. t # p.inpbuf[p.triptr]
          BY <2>8, <5>1, <5>2
        <5> QED BY <4>1, <5>3 DEF Draw
      <4>2. CASE DMADone(m) \/ PixelsDone(m) \/ Load(m) \/ End(m)
        BY <4>2 DEF DMADone, PixelsDone, Load, End
      <4> QED BY <1>4, <4>1, <4>2 DEF Machine
    <3> QED BY <2>6, <3>1, <3>2
  <2>9. CASE t % n = i - 1
    <3>1. (t % n) + 1 = i /\ t % n < started
      BY <2>1, <2>2, <2>7, <2>9
    <3>2. Passed(t) <=> t < Turn(p)
      BY <2>1, <2>2, <3>1 DEF Passed
    <3>3. Passed(t)' <=> mpe'[m].pc = "off" \/ t < Turn(mpe'[m])
      BY <2>1, <2>2, <2>7, <3>1 DEF Passed, Turn
    <3>4. CASE DMADone(m)
      <4>1. mpe'[m].pc = p.pc /\ mpe'[m].extern = p.extern /\ drawn' = drawn
        BY <2>1, <3>4 DEF DMADone, Step, Pipelines
      <4> QED BY <2>1, <2>6, <3>2, <3>3, <4>1 DEF Turn
    <3>5. CASE Load(m)
      <4>1. /\ p.pc = "load" /\ mpe'[m].extern = p.extern + n /\ drawn' = drawn
            /\ mpe'[m].pc \in {"draw", "end"}
        BY <2>1, <3>5 DEF Load, Step, Pipelines
      <4>2. Turn(mpe'[m]) = Turn(p)
        BY <2>1, <2>3, <4>1 DEF Turn
      <4> QED BY <2>6, <3>2, <3>3, <4>1, <4>2
    <3>6. CASE Draw(m)
      <4> DEFINE u == p.extern - 2 * n
      <4>1. /\ p.pc = "draw" /\ p.inpbuf[p.triptr] = u /\ p.extern % n = i - 1
            /\ u >= 0 /\ u < num_polys /\ u \in Int
            /\ mpe'[m].pc = "load" /\ mpe'[m].extern = p.extern
            /\ drawn' = [v \in Triangles |-> IF v = u THEN drawn[v] + 1 ELSE drawn[v]]
        BY <2>1, <2>3, <2>4, <3>6 DEF Draw, Step, Fetching, Pipelines
      <4>2. Turn(p) = u /\ Turn(mpe'[m]) = u + n
        BY <2>1, <2>3, <4>1 DEF Turn
      <4>3. u % n = t % n
        <5>1. u + n \in Int /\ (u + n) + n = p.extern
          BY <2>1, <2>3
        <5> HIDE DEF u, n
        <5>2. (u + n) % n = u % n /\ ((u + n) + n) % n = (u + n) % n
          BY <2>1, <2>3, <4>1, <5>1, NextTurn
        <5> QED BY <2>9, <4>1, <5>1, <5>2
      <4> HIDE DEF u, n
      <4>4. CASE t = u
        <5>1. ~Passed(t) /\ Passed(t)' /\ t < num_polys
          BY <2>1, <2>3, <3>2, <3>3, <4>1, <4>2, <4>4
        <5> QED BY <2>6, <4>1, <4>4, <5>1
      <4>5. CASE t # u
        <5>1. ~(u <= t /\ t < u + n)
          BY <2>1, <2>3, <2>7, <4>1, <4>3, <4>5, OneInTurn
        <5>2. Passed(t)' <=> Passed(t)
          BY <2>1, <2>3, <2>7, <3>2, <3>3, <4>1, <4>2, <5>1
        <5> QED BY <2>6, <4>1, <4>5, <5>2
      <4> QED BY <4>4, <4>5
    <3>7. CASE End(m)
      <4>1. /\ p.pc = "end" /\ p.extern - 2 * n >= num_polys /\ drawn' = drawn
            /\ mpe'[m].pc = "off"
        BY <2>1, <2>4, <3>7 DEF End, Step, Idle, Fetching
      <4>2. t < num_polys => t < Turn(p)
        BY <2>1, <2>3, <2>7, <4>1 DEF Turn
      <4> QED BY <2>6, <3>2, <3>3, <4>1, <4>2
    <3>8. CASE PixelsDone(m)
      <4>1. mpe'[m] = p /\ drawn' = drawn
        BY <2>1, <3>8 DEF PixelsDone, Step
      <4>2. p.pc # "off"
        BY <2>1
      <4> QED BY <2>6, <3>2, <3>3, <4>1, <4>2
    <3> QED BY <1>4, <3>4, <3>5, <3>6, <3>7, <3>8 DEF Machine
  <2> QED BY <2>8, <2>9
<1>5. CASE UNCHANGED vars
  BY <1>5 DEF vars, DrawnInv, Passed, Turn, runVars, bufVars, num_polys, NumMPEs
<1> QED BY <1>1, <1>2, <1>3, <1>4, <1>5 DEF Next

-----------------------------------------------------------------------------
(* How far an MPE is from halting. *)

(* A pipeline that runs has triangles left in its count, or, once it has      *)
(* found that there is none, had some before that.                            *)
CountInv ==
  \A m \in AllMPEs :
    mpe[m].pc # "off" =>
      /\ mpe[m].numtris + NumMPEs > 0
      /\ mpe[m].pc = "load" => mpe[m].numtris > 0
      /\ mpe[m].pc = "draw" => mpe[m].numtris > 0

(* The MPE that is started is off and has nothing on its way. *)
LEMMA StartsFromOff ==
  ASSUME TypeOK, RunInv, StartMPE
  PROVE  LET m == mpe_list[started + 1] IN mpe[m].pc = "off" /\ m \notin writing
<1>1. mpe_list[started + 1] \in AllMPEs
  BY Starting
<1>2. ~\E i \in 1 .. started : mpe_list[i] = mpe_list[started + 1]
  BY Starting
<1>3. mpe[mpe_list[started + 1]].pc = "off"
  BY <1>1, <1>2 DEF RunInv
<1> QED BY <1>3 DEF RunInv

LEMMA NextCount ==
  ASSUME TypeOK, RunInv, CountInv, [Next]_vars
  PROVE  CountInv'
<1>1. CASE Program
  <2>1. mpe' = mpe /\ \A m \in AllMPEs : mpe[m].pc = "off"
    BY <1>1, ProgramSteps DEF RunInv
  <2> QED BY <2>1 DEF CountInv
<1>2. CASE StartMPE
  <2> DEFINE new == mpe_list[started + 1]
  <2>1. /\ started \in Nat /\ started < NumMPEs /\ NumMPEs \in Nat
        /\ num_polys \in Nat /\ NumMPEs' = NumMPEs
    BY <1>2, Starting, Polys
  <2>2. InitialNumtris(started) > 0 /\ InitialNumtris(started) + NumMPEs > 0
    BY <2>1 DEF InitialNumtris
  <2>3. mpe'[new].numtris = InitialNumtris(started)
    BY <1>2, Starting
  <2>4. \A m \in AllMPEs : m # new => mpe'[m] = mpe[m]
    BY <1>2, Starting
  <2> HIDE DEF new
  <2> QED BY <2>1, <2>2, <2>3, <2>4 DEF CountInv
<1>3. CASE Return
  BY <1>3 DEF Return, CountInv, NumMPEs
<1>4. ASSUME NEW m \in AllMPEs, Machine(m)
      PROVE  CountInv'
  <2> DEFINE p == mpe[m]
             n == NumMPEs
  <2>1. /\ p.pc # "off" /\ n' = n /\ n \in Nat /\ p \in Pipelines
        /\ mpe \in [AllMPEs -> Pipelines]
        /\ \A o \in AllMPEs : o # m => mpe'[o] = mpe[o]
    BY <1>4, Working
  <2>2. /\ p.numtris \in Int /\ p.numtris + n > 0
        /\ p.pc = "load" => p.numtris > 0
        /\ p.pc = "draw" => p.numtris > 0
    BY <2>1 DEF CountInv, Pipelines
  <2>3. SUFFICES mpe'[m].pc # "off" =>
                   /\ mpe'[m].numtris + n > 0
                   /\ mpe'[m].pc = "load" => mpe'[m].numtris > 0
                   /\ mpe'[m].pc = "draw" => mpe'[m].numtris > 0
    BY <2>1 DEF CountInv
  <2>4. CASE DMADone(m)
    <3>1. mpe'[m].pc = p.pc /\ mpe'[m].numtris = p.numtris
      BY <2>1, <2>4 DEF DMADone, Step, Pipelines
    <3> QED BY <2>2, <3>1
  <2>5. CASE PixelsDone(m)
    <3>1. mpe'[m] = p
      BY <2>1, <2>5 DEF PixelsDone, Step
    <3> QED BY <2>2, <3>1
  <2>6. CASE Load(m)
    <3>1. /\ p.pc = "load" /\ mpe'[m].numtris = p.numtris - n
          /\ mpe'[m].pc = IF p.numtris - n <= 0 THEN "end" ELSE "draw"
      BY <2>1, <2>6 DEF Load, Step, Pipelines
    <3> HIDE DEF n, p
    <3> QED BY <2>1, <2>2, <3>1
  <2>7. CASE Draw(m)
    <3>1. p.pc = "draw" /\ mpe'[m].numtris = p.numtris
      BY <2>1, <2>7 DEF Draw, Step, Pipelines
    <3> QED BY <2>2, <3>1
  <2>8. CASE End(m)
    BY <2>1, <2>8 DEF End, Step, Idle
  <2> QED BY <1>4, <2>4, <2>5, <2>6, <2>7, <2>8 DEF Machine
<1>5. CASE UNCHANGED vars
  BY <1>5 DEF vars, runVars, CountInv, NumMPEs
<1> QED BY <1>1, <1>2, <1>3, <1>4, <1>5 DEF Next

(* While an MPE runs there is work left. *)
LEMMA WorkPositive ==
  ASSUME TypeOK, CountInv, NEW m \in AllMPEs, mpe[m].pc # "off"
  PROVE  Work(m) \in Nat /\ Work(m) > 0
<1>1. mpe[m].numtris \in Int /\ NumMPEs \in Nat /\ mpe[m].numtris + NumMPEs > 0
  BY ListFacts DEF TypeOK, Pipelines, CountInv
<1> QED BY <1>1 DEF Work

(* Every step of a running MPE leaves it less. *)
LEMMA LessWork ==
  ASSUME TypeOK, RunInv, CountInv, NEW m \in AllMPEs, Machine(m)
  PROVE  Work(m)' < Work(m)
<1> DEFINE p == mpe[m]
           n == NumMPEs
           c == p.numtris
<1>1. /\ p.pc # "off" /\ n' = n /\ n \in Nat /\ n > 0
      /\ p \in Pipelines /\ mpe \in [AllMPEs -> Pipelines]
  <2>1. /\ p.pc # "off" /\ n' = n /\ n \in Nat /\ p \in Pipelines
        /\ mpe \in [AllMPEs -> Pipelines]
    BY Working
  <2>2. \E i \in 1 .. started : i \in 1 .. n
    BY Working
  <2> QED BY <2>1, <2>2
<1>2. Work(m) \in Nat /\ Work(m) > 0 /\ c \in Int
  BY <1>1, WorkPositive DEF Pipelines
<1>3. CASE DMADone(m)
  <2>1. /\ p.dma # None /\ mpe'[m].pc = p.pc /\ mpe'[m].numtris = c
        /\ mpe'[m].dma = None /\ writing' = writing
    BY <1>1, <1>3 DEF DMADone, Step, Pipelines
  <2> QED BY <1>1, <1>2, <2>1 DEF Work
<1>4. CASE PixelsDone(m)
  <2>1. mpe'[m] = p /\ m \in writing /\ m \notin writing'
    BY <1>1, <1>4 DEF PixelsDone, Step
  <2> QED BY <1>1, <1>2, <2>1 DEF Work
<1>5. CASE Load(m)
  <2>1. /\ p.pc = "load" /\ p.dma = None /\ mpe'[m].pc \in {"draw", "end"}
        /\ mpe'[m].numtris = c - n /\ writing' = writing
    BY <1>1, <1>5 DEF Load, Step, Pipelines
  <2>2. 5 * ((c - n) + n) + 2 + 1 < 5 * (c + n)
    BY <1>1, <1>2
  <2> QED BY <1>1, <1>2, <2>1, <2>2 DEF Work
<1>6. CASE Draw(m)
  <2>1. /\ p.pc = "draw" /\ mpe'[m].pc = "load" /\ mpe'[m].numtris = c
        /\ mpe'[m].dma = p.dma /\ m \in writing'
    BY <1>1, <1>6 DEF Draw, Step, Pipelines
  <2> QED BY <1>1, <1>2, <2>1 DEF Work
<1>7. CASE End(m)
  <2>1. mpe'[m].pc = "off"
    BY <1>1, <1>7 DEF End, Step, Idle
  <2> QED BY <1>2, <2>1 DEF Work
<1> QED BY <1>3, <1>4, <1>5, <1>6, <1>7 DEF Machine

(* What one step does to the work of any MPE. *)
LEMMA WorkStep ==
  ASSUME TypeOK, RunInv, CountInv, [Next]_vars, NEW m \in AllMPEs,
         mpe[m] # mpe'[m] \/ (m \in writing) # (m \in writing')
  PROVE  \/ Work(m)' < Work(m)
         \/ /\ calling = "start" /\ Work(m) = 0
            /\ started' = started + 1 /\ mpe_list[started'] = m
<1>1. ~Program
  BY ProgramSteps
<1>2. ~Return /\ ~UNCHANGED vars
  BY DEF Return, vars, runVars
<1>3. CASE StartMPE
  <2>1. m = mpe_list[started + 1]
    <3>1. writing' = writing
      BY <1>3 DEF StartMPE
    <3> QED BY <1>3, <3>1, Starting
  <2>2. mpe[m].pc = "off"
    BY <1>3, <2>1, StartsFromOff
  <2> QED BY <1>3, <2>1, <2>2, Starting DEF Work
<1>4. ASSUME NEW o \in AllMPEs, Machine(o)
      PROVE  Work(m)' < Work(m)
  <2>1. \A q \in AllMPEs : q # o => mpe'[q] = mpe[q]
    BY <1>4, Working
  <2>2. \A q \in AllMPEs : q # o => (q \in writing' <=> q \in writing)
    BY <1>4 DEF Machine, DMADone, PixelsDone, Load, Draw, End
  <2>3. m = o
    BY <2>1, <2>2
  <2> QED BY <1>4, <2>3, LessWork
<1> QED BY <1>1, <1>2, <1>3, <1>4 DEF Next

-----------------------------------------------------------------------------
(* The theorems. *)

LEMMA Invariance == Spec => []IInv
<1>1. Init => IInv
  BY InitType, InitBuffer, InitPipe, InitRun DEF IInv
<1>2. IInv /\ [Next]_vars => IInv'
  BY NextType, NextBuffer, NextPipe, NextRun, NextFetch, NextDrawn DEF IInv
<1> QED BY <1>1, <1>2, PTL DEF Spec

(* Types, for every size of buffers and number of MPEs: in particular no MPE  *)
(* uses any other than its two input buffers (loadpoly.s).                    *)
THEOREM TypeCorrect == Spec => []TypeOK
<1>1. IInv => TypeOK
  BY DEF IInv
<1> QED BY <1>1, Invariance, PTL

(* Whatever the growth and wherever blocks lie, no entry is written outside   *)
(* the block; the raw and the aligned pointer get apart only by a buffer that *)
(* outgrows its m3dSizeBuf size, and by gaps that differ or are not nought    *)
(* (m3dbuf.c, m3dadd.s).                                                      *)
THEOREM BufferSoundCorrect == Spec => []BufferSound
<1>1. IInv => BufferSound
  BY DEF IInv, HeapInv
<1> QED BY <1>1, Invariance, PTL

(* No MPE draws pixels by a function that the hints do not ask for, however   *)
(* long ago the pipe was built (m3dHint, m3dExecuteBuffer).                   *)
THEOREM DrawsAsHintedCorrect == Spec => []DrawsAsHinted
<1>1. IInv => DrawsAsHinted
  BY DEF IInv, PipeInv, RunInv, DrawsAsHinted
<1> QED BY <1>1, Invariance, PTL

(* A call has left nothing behind when it returns: the MPEs are off, their    *)
(* last fetches and their last pixels have arrived (pipeline.s, load3d.c).    *)
THEOREM NothingLeftBehindCorrect == Spec => []NothingLeftBehind
<1>1. IInv => NothingLeftBehind
  BY DEF IInv, RunInv, TypeOK, NothingLeftBehind
<1> QED BY <1>1, Invariance, PTL

(* An MPE draws from the input buffer that is not being fetched into, and     *)
(* finds the triangle there whose turn it is (loadpoly).                      *)
THEOREM DrawsOwnTriangleCorrect == Spec => []DrawsOwnTriangle
<1>1. ASSUME IInv PROVE DrawsOwnTriangle
  <2>1. ASSUME NEW m \in AllMPEs, mpe[m].pc = "draw"
        PROVE  /\ mpe[m].inpbuf[mpe[m].triptr] = mpe[m].extern - 2 * NumMPEs
               /\ mpe[m].triptr # mpe[m].localptr
    <3>1. calling = "start" /\ \E i \in 1 .. started : mpe_list[i] = m
      BY <1>1, <2>1 DEF IInv, RunInv
    <3>2. PICK i \in 1 .. started : mpe_list[i] = m
      BY <3>1
    <3>3. Fetching(mpe[m], i - 1)
      BY <1>1, <2>1, <3>1, <3>2 DEF IInv, FetchInv
    <3> QED BY <2>1, <3>3 DEF Fetching
  <2> QED BY <2>1 DEF DrawsOwnTriangle
<1> QED BY <1>1, Invariance, PTL

(* For any number of triangles and of MPEs, a call that returns has had each  *)
(* triangle drawn once, and nothing else (Run3DPipe, loadpoly).               *)
THEOREM DrawsEachOnceCorrect == Spec => DrawsEachOnce
<1>1. ASSUME IInv, [Next]_vars, calling # "no", calling' = "no", NumMPEs > 0,
             NEW t \in Triangles
      PROVE  drawn[t] = IF t < num_polys THEN 1 ELSE 0
  <2>1. calling = "start" /\ ~UNCHANGED vars
    BY <1>1 DEF IInv, TypeOK, vars, runVars
  <2>2. ~Program
    BY <1>1, ProgramSteps DEF IInv
  <2>3. ~StartMPE /\ ~(\E m \in AllMPEs : Machine(m))
    BY <1>1, Starting, Working DEF IInv
  <2>4. Return
    BY <1>1, <2>1, <2>2, <2>3 DEF Next
  <2>5. NumMPEs \in Nat /\ t \in Int
    BY <1>1, ListFacts DEF IInv, Triangles
  <2>6. t % NumMPEs \in 0 .. NumMPEs - 1
    BY <1>1, <2>5, Division
  <2>7. started = NumMPEs /\ mpe[mpe_list[(t % NumMPEs) + 1]].pc = "off"
    BY <2>4, <2>5, <2>6 DEF Return
  <2>8. Passed(t)
    BY <2>5, <2>6, <2>7 DEF Passed
  <2> QED BY <1>1, <2>1, <2>8 DEF IInv, DrawnInv
<1>2. IInv /\ [Next]_vars =>
        (calling # "no" /\ calling' = "no" /\ NumMPEs > 0 =>
           \A t \in Triangles : drawn[t] = IF t < num_polys THEN 1 ELSE 0)
  BY <1>1
<1> QED BY <1>2, Invariance, PTL DEF Spec, DrawsEachOnce

(* A call comes to its end in whatever order transfers arrive: the host       *)
(* starts each MPE once, from rest, and each step of an MPE, fetches and      *)
(* pixels included, leaves it less to do, until it halts (loadpoly, load3d).  *)
THEOREM WorkGoesDownCorrect == Spec => WorkGoesDown
<1>1. Init => CountInv
  BY DEF Init, Idle, CountInv
<1>2. IInv /\ CountInv /\ [Next]_vars => CountInv'
  BY NextCount DEF IInv
<1>3. ASSUME IInv, CountInv, [Next]_vars, NEW m \in AllMPEs
      PROVE  /\ mpe[m].pc # "off" => Work(m) > 0
             /\ mpe[m] # mpe'[m] \/ (m \in writing) # (m \in writing') =>
                  \/ Work(m)' < Work(m)
                  \/ /\ calling = "start" /\ Work(m) = 0
                     /\ started' = started + 1 /\ mpe_list[started'] = m
  <2>1. mpe[m].pc # "off" => Work(m) > 0
    BY <1>3, WorkPositive DEF IInv
  <2> QED BY <1>3, <2>1, WorkStep DEF IInv
<1>4. IInv /\ CountInv /\ [Next]_vars =>
        \A m \in AllMPEs :
          /\ mpe[m].pc # "off" => Work(m) > 0
          /\ mpe[m] # mpe'[m] \/ (m \in writing) # (m \in writing') =>
               \/ Work(m)' < Work(m)
               \/ /\ calling = "start" /\ Work(m) = 0
                  /\ started' = started + 1 /\ mpe_list[started'] = m
  BY <1>3
<1> QED BY <1>1, <1>2, <1>4, Invariance, PTL DEF Spec, WorkGoesDown

=============================================================================
