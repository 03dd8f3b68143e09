--------------------------- MODULE MprRingProofs ---------------------------
(***************************************************************************)
(* Proofs about MprRing for a ring of any size and commands of any length  *)
(* that fits it: no packet is lost, a command is executed from its own     *)
(* packets, and the ring implements a queue of commands.                   *)
(*                                                                         *)
(* The argument follows the packets by number.  Those in the ring are the  *)
(* consecutive numbers from the oldest command's header to the last packet *)
(* stored, in consecutive slots; there are never more than the ring holds  *)
(* because a full ring, and one that is about to be filled by the packet   *)
(* in hand, is masked.                                                     *)
(***************************************************************************)
EXTENDS MprRing, TLAPS

(* The oldest command that still has its slots. *)
Oldest == IF main \in {"execute", "free"} THEN read - 1 ELSE read

(* Packets that have been stored. *)
Stored == IF commrecv = NoPacket THEN nextPacket ELSE nextPacket - 1

(* Slots in use. *)
Used == Stored - header[Oldest]

(* The packets that have been stored are the written commands and what has    *)
(* come of the next one.                                                      *)
CountInv ==
  /\ read <= written
  /\ main \in {"execute", "free"} => read >= 1
  /\ nextPacket <= header[MaxCommands]
  /\ commrecv # NoPacket => commrecv = nextPacket - 1
  /\ pending = 0 => Stored = header[written]
  /\ pending # 0 => /\ written < MaxCommands
                    /\ pending < Length(written)
                    /\ Stored = header[written + 1] - pending

(* Where the packets are. *)
PlaceInv ==
  /\ Used \in 0 .. PBufLen
  /\ writePtr = Wrap(readPtr + Used)
  /\ \A k \in 0 .. Used - 1 : ring[Wrap(readPtr + k)] = header[Oldest] + k

(* When the handler may run. *)
MaskInv ==
  /\ Used = PBufLen => masked /\ handler = "off"
  /\ handler # "off" /\ Used = PBufLen - 1 => masked
  /\ main \in {"free", "unmask"} => masked /\ handler = "off"
  /\ main = "unmask" => Used < PBufLen
  /\ handler = "read" => ~interrupt

IInv == TypeOK /\ InterruptMeansPacket /\ CountInv /\ PlaceInv /\ MaskInv

-----------------------------------------------------------------------------
(* The numbers of the headers grow. *)
LEMMA Monotone ==
  ASSUME header \in Layouts, NEW c \in 0 .. MaxCommands, NEW d \in 0 .. MaxCommands,
         c <= d
  PROVE  /\ header[c] \in Nat /\ header[d] \in Nat
         /\ header[c] <= header[d]
         /\ c < d => header[c] < header[d]
<1>1. /\ header \in [0 .. MaxCommands -> Packets]
      /\ \A a, b \in 0 .. MaxCommands : a < b => header[a] < header[b]
  BY DEF Layouts
<1>2. header[c] \in Packets /\ header[d] \in Packets
  BY <1>1
<1>3. header[c] \in Nat /\ header[d] \in Nat
  BY <1>2, RingAssumption DEF Packets
<1>4. CASE c = d
  BY <1>3, <1>4
<1>5. CASE c < d
  BY <1>1, <1>3, <1>5
<1> QED BY <1>3, <1>4, <1>5, RingAssumption

(* A command has between one packet and the most there may be. *)
LEMMA LengthType ==
  ASSUME header \in Layouts, NEW c \in Commands
  PROVE  /\ c \in 0 .. MaxCommands /\ c + 1 \in 0 .. MaxCommands
         /\ Length(c) \in 1 .. MaxPackets
         /\ header[c] \in Nat /\ header[c + 1] \in Nat
<1>1. c \in 0 .. MaxCommands /\ c + 1 \in 0 .. MaxCommands /\ c <= c + 1
  BY RingAssumption DEF Commands
<1>2. header[c] \in Nat /\ header[c + 1] \in Nat
  BY <1>1, Monotone
<1>3. Length(c) \in 1 .. MaxPackets
  BY DEF Layouts, Length
<1> QED BY <1>1, <1>2, <1>3

(* A header tells the length of its own command. *)
LEMMA HeaderLength ==
  ASSUME header \in Layouts, NEW c \in Commands
  PROVE  LengthIn(header[c]) = Length(c)
<1>1. \A d \in Commands : header[d] = header[c] => d = c
  <2> SUFFICES ASSUME NEW d \in Commands, header[d] = header[c]
               PROVE  d = c
    OBVIOUS
  <2>1. c \in 0 .. MaxCommands /\ d \in 0 .. MaxCommands
    BY RingAssumption DEF Commands
  <2>2. CASE c < d
    BY <2>1, <2>2, Monotone
  <2>3. CASE d < c
    BY <2>1, <2>3, Monotone
  <2> QED BY <2>1, <2>2, <2>3
<1>2. (CHOOSE d \in Commands : header[d] = header[c]) = c
  BY <1>1
<1> QED BY <1>2 DEF LengthIn

(* What the types say about the counters. *)
LEMMA Counters ==
  ASSUME TypeOK, CountInv
  PROVE  /\ Oldest \in 0 .. MaxCommands /\ Oldest <= written
         /\ header[Oldest] \in Nat /\ header[written] \in Nat
         /\ header[Oldest] <= header[written]
         /\ header[written] <= Stored
         /\ nextPacket \in Nat /\ Stored \in Int
         /\ commrecv # NoPacket => Stored = commrecv
         /\ commrecv # NoPacket => commrecv \in Nat
<1>1. Oldest \in 0 .. MaxCommands /\ Oldest <= written /\ written \in 0 .. MaxCommands
  BY RingAssumption DEF TypeOK, CountInv, Oldest
<1>2. /\ header[Oldest] \in Nat /\ header[written] \in Nat
      /\ header[Oldest] <= header[written]
  BY <1>1, Monotone DEF TypeOK
<1>3. nextPacket \in Nat /\ (commrecv # NoPacket => commrecv \in Nat)
  BY RingAssumption DEF TypeOK, Packets
<1>4. Stored \in Int /\ (commrecv # NoPacket => Stored = commrecv)
  BY <1>3 DEF Stored, CountInv
<1>5. header[written] <= Stored
  <2>1. CASE pending = 0
    BY <2>1, <1>2 DEF CountInv
  <2>2. CASE pending # 0
    <3>1. written \in Commands
      BY <2>2, <1>1, RingAssumption DEF CountInv, Commands
    <3>2. header[written + 1] \in Nat
      BY <3>1, LengthType DEF TypeOK
    <3> QED BY <2>2, <3>2, <1>2, RingAssumption DEF CountInv, TypeOK, Length
  <2> QED BY <2>1, <2>2
<1> QED BY <1>1, <1>2, <1>3, <1>4, <1>5

-----------------------------------------------------------------------------
(* The initial state satisfies the invariant. *)
LEMMA InitIInv == Init => IInv
<1> SUFFICES ASSUME Init
             PROVE  IInv
  OBVIOUS
<1> USE RingAssumption DEF Init
<1>1. header[0] = 0 /\ header[MaxCommands] \in Nat /\ 0 <= header[MaxCommands]
  <2>1. 0 \in 0 .. MaxCommands /\ MaxCommands \in 0 .. MaxCommands
    OBVIOUS
  <2>2. header[0] = 0
    BY DEF Layouts
  <2> QED BY <2>1, <2>2, Monotone
<1>2. TypeOK
  <2>1. 0 \in Packets
    BY <1>1 DEF Packets, Layouts
  <2>2. header \in Layouts /\ nextPacket \in Packets
    BY <2>1
  <2>3. ring \in [Slots -> Packets \cup {NoPacket}]
    OBVIOUS
  <2>4. readPtr \in Slots /\ writePtr \in Slots /\ pending \in 0 .. MaxPackets - 1
    BY DEF Slots
  <2> QED BY <2>2, <2>3, <2>4 DEF TypeOK
<1>3. InterruptMeansPacket /\ CountInv
  BY <1>1 DEF InterruptMeansPacket, CountInv, Stored
<1>4. PlaceInv /\ MaskInv
  <2>1. Used = 0
    BY <1>1 DEF Used, Oldest, Stored
  <2>2. Wrap(0) = 0 /\ readPtr + 0 = 0
    BY DEF Wrap
  <2> QED BY <2>1, <2>2 DEF PlaceInv, MaskInv
<1> QED BY <1>2, <1>3, <1>4 DEF IInv

-----------------------------------------------------------------------------
(* Steps that neither store nor free leave the packets where they are. *)
LEMMA SamePlaces ==
  ASSUME PlaceInv, UNCHANGED <<header, readPtr, writePtr, ring>>,
         Stored' = Stored, Oldest' = Oldest
  PROVE  PlaceInv' /\ Used' = Used
BY DEF PlaceInv, Used, Wrap

(* A packet arrives. *)
LEMMA DeliverInv == IInv /\ Deliver => IInv'
<1> SUFFICES ASSUME IInv, Deliver
             PROVE  IInv'
  OBVIOUS
<1> USE RingAssumption DEF IInv
<1>0. nextPacket \in Nat /\ header[MaxCommands] \in Nat
  BY Monotone, Counters DEF TypeOK
<1>1. TypeOK'
  <2>1. header[MaxCommands] \in Packets /\ nextPacket + 1 \in Packets
    BY <1>0 DEF TypeOK, Deliver, Layouts, Packets
  <2> QED BY <2>1 DEF TypeOK, Deliver, handlerVars, mainVars
<1>2. Stored' = Stored /\ Oldest' = Oldest
  <2>1. nextPacket # NoPacket
    BY <1>0
  <2> QED BY <1>0, <2>1 DEF Deliver, Stored, Oldest, mainVars
<1>3. PlaceInv' /\ Used' = Used
  BY <1>2, SamePlaces DEF Deliver, mainVars, handlerVars
<1>4. CountInv'
  BY <1>0, <1>2 DEF CountInv, Deliver, Length, mainVars, handlerVars
<1>5. InterruptMeansPacket' /\ MaskInv'
  <2>1. nextPacket # NoPacket
    BY <1>0
  <2>2. handler = "off"
    BY DEF InterruptMeansPacket, Deliver
  <2> QED BY <2>1, <2>2, <1>3 DEF InterruptMeansPacket, MaskInv, Deliver,
        mainVars, handlerVars
<1> QED BY <1>1, <1>3, <1>4, <1>5

(* When there is room, the handler sees that the packet in hand fills the     *)
(* ring by its write pointer.                                                 *)
LEMMA FullSeen ==
  ASSUME TypeOK, PlaceInv, Used < PBufLen
  PROVE  Wrap(writePtr + 1) = readPtr <=> Used = PBufLen - 1
BY RingAssumption DEF TypeOK, PlaceInv, Slots, Wrap

(* The interrupt is taken. *)
LEMMA ReceiveInv == IInv /\ Receive => IInv'
<1> SUFFICES ASSUME IInv, Receive
             PROVE  IInv'
  OBVIOUS
<1> USE RingAssumption DEF IInv
<1>1. TypeOK' /\ InterruptMeansPacket'
  BY DEF TypeOK, InterruptMeansPacket, Receive, senderVars, mainVars
<1>2. Stored' = Stored /\ Oldest' = Oldest
  BY DEF Receive, Stored, Oldest, senderVars, mainVars
<1>3. PlaceInv' /\ Used' = Used
  BY <1>2, SamePlaces DEF Receive, senderVars, mainVars
<1>4. CountInv'
  BY <1>2 DEF CountInv, Receive, Length, senderVars, mainVars
<1>5. MaskInv'
  <2>1. Used \in 0 .. PBufLen /\ Used # PBufLen
    BY DEF PlaceInv, MaskInv, Receive
  <2>2. masked' = (Used = PBufLen - 1)
    BY <2>1, FullSeen DEF Receive
  <2> QED BY <2>1, <2>2, <1>3 DEF MaskInv, Receive, mainVars
<1> QED BY <1>1, <1>3, <1>4, <1>5

(* The source is cleared. *)
LEMMA ClearSourceInv == IInv /\ ClearSource => IInv'
<1> SUFFICES ASSUME IInv, ClearSource
             PROVE  IInv'
  OBVIOUS
<1> USE RingAssumption DEF IInv
<1>1. TypeOK' /\ InterruptMeansPacket'
  BY DEF TypeOK, InterruptMeansPacket, ClearSource, senderVars, mainVars
<1>2. Stored' = Stored /\ Oldest' = Oldest
  BY DEF ClearSource, Stored, Oldest, senderVars, mainVars
<1>3. PlaceInv' /\ Used' = Used
  BY <1>2, SamePlaces DEF ClearSource, senderVars, mainVars
<1>4. CountInv'
  BY <1>2 DEF CountInv, ClearSource, Length, senderVars, mainVars
<1>5. MaskInv'
  BY <1>3 DEF MaskInv, ClearSource, mainVars
<1> QED BY <1>1, <1>3, <1>4, <1>5

(* The handler finds how long the command is that its packet belongs to, and  *)
(* leaves it one packet shorter.                                              *)
LEMMA StorePending ==
  ASSUME IInv, Store
  PROVE  /\ commrecv = Stored /\ nextPacket = Stored + 1
         /\ written < MaxCommands
         /\ pending' \in 0 .. MaxPackets - 1
         /\ pending' < Length(written)
         /\ Stored + 1 = header[written + 1] - pending'
<1> USE RingAssumption DEF IInv
<1>1. commrecv # NoPacket /\ commrecv = Stored /\ nextPacket = Stored + 1
  BY Counters DEF InterruptMeansPacket, Store, CountInv
<1>2. /\ header[written] \in Nat /\ Stored \in Int /\ written \in 0 .. MaxCommands
      /\ header[MaxCommands] \in Nat
  BY Counters, Monotone DEF TypeOK
<1>3. written < MaxCommands
  <2>1. CASE pending # 0
    BY <2>1 DEF CountInv
  <2>2. CASE pending = 0
    <3>1. Stored = header[written] /\ Stored < header[MaxCommands]
      BY <2>2, <1>1, <1>2 DEF CountInv
    <3> QED BY <3>1, <1>2
  <2> QED BY <2>1, <2>2
<1>4. written \in Commands
  BY <1>2, <1>3 DEF Commands
<1>5. Length(written) \in 1 .. MaxPackets /\ header[written + 1] \in Nat
  BY <1>4, LengthType DEF TypeOK
<1>6. CASE pending = 0
  <2>1. LengthIn(commrecv) = Length(written)
    BY <1>1, <1>4, <1>6, HeaderLength DEF CountInv, TypeOK
  <2>2. pending' = Length(written) - 1 /\ Stored = header[written]
    BY <2>1, <1>6 DEF Store, CountInv
  <2> QED BY <2>2, <1>1, <1>2, <1>3, <1>5 DEF Length
<1>7. CASE pending # 0
  <2>1. pending' = pending - 1 /\ pending \in 1 .. MaxPackets - 1
    BY <1>7 DEF Store, TypeOK
  <2>2. Stored = header[written + 1] - pending /\ pending < Length(written)
    BY <1>7 DEF CountInv
  <2> QED BY <2>1, <2>2, <1>1, <1>2, <1>3, <1>5
<1> QED BY <1>6, <1>7

(* The packet goes into the slot behind those in use. *)
LEMMA StoreInv == IInv /\ Store => IInv'
<1> SUFFICES ASSUME IInv, Store
             PROVE  IInv'
  OBVIOUS
<1> USE RingAssumption DEF IInv
<1>1. /\ commrecv = Stored /\ nextPacket = Stored + 1
      /\ written < MaxCommands /\ written \in 0 .. MaxCommands
      /\ pending' \in 0 .. MaxPackets - 1
      /\ pending' < Length(written)
      /\ Stored + 1 = header[written + 1] - pending'
  BY StorePending DEF TypeOK
<1>2. written' = IF pending' = 0 THEN written + 1 ELSE written
  BY DEF Store
<1>3. Stored \in Int /\ nextPacket \in Nat /\ Oldest \in 0 .. MaxCommands
  BY Counters
<1>4. Stored' = Stored + 1 /\ Oldest' = Oldest /\ header' = header
  BY <1>1, <1>3 DEF Store, Stored, Oldest, senderVars, mainVars
<1>5. header[Oldest] \in Nat
  BY <1>3, Monotone DEF TypeOK
<1>6. Used \in 0 .. PBufLen - 1 /\ Used' = Used + 1
  BY <1>3, <1>4, <1>5 DEF Used, PlaceInv, MaskInv, Store
<1>7. writePtr \in Slots /\ Wrap(writePtr + 1) \in Slots /\ readPtr \in Slots
  BY DEF TypeOK, Slots, Wrap
<1>8. TypeOK'
  <2>1. ring' \in [Slots -> Packets \cup {NoPacket}]
    BY <1>7 DEF TypeOK, Store
  <2>2. written' \in 0 .. MaxCommands
    BY <1>1, <1>2
  <2> QED BY <1>1, <1>7, <2>1, <2>2 DEF TypeOK, Store, senderVars, mainVars
<1>9. PlaceInv'
  <2>1. Used' \in 0 .. PBufLen
    BY <1>6
  <2>2. writePtr' = Wrap(readPtr' + Used')
    BY <1>6, <1>7 DEF PlaceInv, Store, Wrap, Slots, mainVars
  <2>3. ASSUME NEW k \in 0 .. Used' - 1
        PROVE  ring'[Wrap(readPtr' + k)] = header'[Oldest'] + k
    <3>1. Wrap(readPtr + k) \in Slots /\ readPtr' = readPtr
      BY <1>6, <1>7 DEF Wrap, Slots, Store, mainVars
    <3>2. CASE k = Used
      <4>1. Wrap(readPtr + k) = writePtr
        BY <3>2 DEF PlaceInv
      <4>2. ring'[writePtr] = Stored
        BY <1>1, <1>7 DEF Store, TypeOK
      <4> QED BY <3>1, <3>2, <4>1, <4>2, <1>3, <1>4, <1>5 DEF Used
    <3>3. CASE k # Used
      <4>1. k \in 0 .. Used - 1
        BY <3>3, <1>6
      <4>2. Wrap(readPtr + k) # writePtr
        BY <4>1, <1>6, <1>7 DEF Wrap, Slots, PlaceInv
      <4>3. ring'[Wrap(readPtr + k)] = ring[Wrap(readPtr + k)]
        BY <4>2, <3>1, <1>7 DEF Store, TypeOK
      <4> QED BY <3>1, <4>1, <4>3, <1>4 DEF PlaceInv
    <3> QED BY <3>2, <3>3
  <2> QED BY <2>1, <2>2, <2>3 DEF PlaceInv
<1>10. CountInv'
  <2>1. read' <= written' /\ (main' \in {"execute", "free"} => read' >= 1)
    BY <1>1, <1>2 DEF CountInv, Store, TypeOK, mainVars
  <2>2. /\ nextPacket' <= header'[MaxCommands]
        /\ commrecv' # NoPacket => commrecv' = nextPacket' - 1
    BY DEF CountInv, Store, senderVars
  <2>3. pending' = 0 => Stored' = header'[written']
    BY <1>1, <1>2, <1>4, <1>3, LengthType DEF TypeOK, Commands
  <2>4. pending' # 0 => /\ written' < MaxCommands
                        /\ pending' < Length(written)'
                        /\ Stored' = header'[written' + 1] - pending'
    BY <1>1, <1>2, <1>4 DEF Length
  <2> QED BY <2>1, <2>2, <2>3, <2>4 DEF CountInv
<1>11. InterruptMeansPacket' /\ MaskInv'
  BY <1>6 DEF InterruptMeansPacket, MaskInv, Store, mainVars
<1> QED BY <1>8, <1>9, <1>10, <1>11

(* A command is taken: it is now the one before the count that is oldest.      *)
LEMMA TakeInv == IInv /\ Take => IInv'
<1> SUFFICES ASSUME IInv, Take
             PROVE  IInv'
  OBVIOUS
<1> USE RingAssumption DEF IInv
<1>1. TypeOK' /\ InterruptMeansPacket'
  BY DEF TypeOK, CountInv, InterruptMeansPacket, Take, senderVars, handlerVars
<1>2. Stored' = Stored /\ Oldest' = Oldest
  BY DEF Take, Stored, Oldest, senderVars, TypeOK
<1>3. PlaceInv' /\ Used' = Used
  BY <1>2, SamePlaces DEF Take, senderVars, handlerVars
<1>4. CountInv'
  BY <1>2 DEF CountInv, Take, Length, TypeOK, senderVars, handlerVars
<1>5. MaskInv'
  BY <1>3 DEF MaskInv, Take, handlerVars
<1> QED BY <1>1, <1>3, <1>4, <1>5

(* Its code is done: it still has its slots.                                    *)
LEMMA FinishInv == IInv /\ Finish => IInv'
<1> SUFFICES ASSUME IInv, Finish
             PROVE  IInv'
  OBVIOUS
<1> USE RingAssumption DEF IInv
<1>1. TypeOK' /\ InterruptMeansPacket'
  BY DEF TypeOK, CountInv, InterruptMeansPacket, Finish, senderVars, handlerVars
<1>2. Stored' = Stored /\ Oldest' = Oldest
  BY DEF Finish, Stored, Oldest, senderVars, TypeOK
<1>3. PlaceInv' /\ Used' = Used
  BY <1>2, SamePlaces DEF Finish, senderVars, handlerVars
<1>4. CountInv'
  BY <1>2 DEF CountInv, Finish, Length, TypeOK, senderVars, handlerVars
<1>5. MaskInv'
  BY <1>3 DEF MaskInv, Finish, handlerVars
<1> QED BY <1>1, <1>3, <1>4, <1>5

(* The command's slots are freed: as many as it has packets. *)
LEMMA FreeInv == IInv /\ Free => IInv'
<1> SUFFICES ASSUME IInv, Free
             PROVE  IInv'
  OBVIOUS
<1> USE RingAssumption DEF IInv
<1> DEFINE c == read - 1
           l == Length(c)
<1>1. c \in Commands /\ c + 1 = read /\ read \in 0 .. MaxCommands
  BY DEF TypeOK, CountInv, Free, Commands
<1>2. /\ l \in 1 .. MaxPackets /\ header[c] \in Nat /\ header[read] \in Nat
      /\ l = header[read] - header[c]
  BY <1>1, LengthType DEF TypeOK, Length
<1>3. Oldest = c /\ Oldest' = read /\ Stored' = Stored /\ header' = header
  BY DEF Free, Oldest, Stored, senderVars
<1>4. Stored \in Int /\ header[read] <= Stored
  <2>1. written \in 0 .. MaxCommands /\ read <= written
    BY DEF TypeOK, CountInv
  <2>2. header[read] <= header[written] /\ header[written] \in Nat
    BY <2>1, <1>1, Monotone DEF TypeOK
  <2> QED BY <2>2, <1>2, Counters
<1>5. Used' = Used - l /\ l <= Used /\ Used \in 0 .. PBufLen
  BY <1>2, <1>3, <1>4 DEF Used, PlaceInv
<1>6. readPtr \in Slots /\ readPtr' = Wrap(readPtr + l) /\ readPtr' \in Slots
  <2>1. readPtr \in Slots /\ Wrap(readPtr + 0) = readPtr
    BY DEF TypeOK, Slots, Wrap
  <2>2. ring[readPtr] = header[c]
    BY <2>1, <1>2, <1>3, <1>5 DEF PlaceInv
  <2>3. readPtr' = Wrap(readPtr + l)
    BY <2>2, <1>1, HeaderLength DEF Free, TypeOK
  <2> QED BY <2>1, <2>3, <1>2 DEF Slots, Wrap
<1>7. TypeOK' /\ InterruptMeansPacket'
  BY <1>6 DEF TypeOK, InterruptMeansPacket, Free, senderVars, handlerVars
<1>8. PlaceInv'
  <2>1. Used' \in 0 .. PBufLen
    BY <1>2, <1>5
  <2>2. writePtr' = Wrap(readPtr' + Used')
    BY <1>2, <1>5, <1>6 DEF PlaceInv, Free, handlerVars, Wrap, Slots
  <2>3. ASSUME NEW k \in 0 .. Used' - 1
        PROVE  ring'[Wrap(readPtr' + k)] = header'[Oldest'] + k
    <3>1. l + k \in 0 .. Used - 1
      BY <1>2, <1>5
    <3>2. Wrap(readPtr' + k) = Wrap(readPtr + (l + k))
      BY <3>1, <1>2, <1>5, <1>6 DEF Wrap, Slots
    <3>3. ring[Wrap(readPtr + (l + k))] = header[c] + (l + k)
      BY <3>1, <1>3 DEF PlaceInv
    <3>4. ring' = ring
      BY DEF Free, handlerVars
    <3> QED BY <3>2, <3>3, <3>4, <1>2, <1>3
  <2> QED BY <2>1, <2>2, <2>3 DEF PlaceInv
<1>9. CountInv'
  BY <1>3 DEF CountInv, Free, Length, senderVars, handlerVars
<1>10. MaskInv'
  BY <1>2, <1>5 DEF MaskInv, Free, handlerVars
<1> QED BY <1>7, <1>8, <1>9, <1>10

(* The handler may run again: a slot is free.                                  *)
LEMMA UnmaskInv == IInv /\ Unmask => IInv'
<1> SUFFICES ASSUME IInv, Unmask
             PROVE  IInv'
  OBVIOUS
<1> USE RingAssumption DEF IInv
<1>1. TypeOK' /\ InterruptMeansPacket'
  BY DEF TypeOK, CountInv, InterruptMeansPacket, Unmask, senderVars, handlerVars
<1>2. Stored' = Stored /\ Oldest' = Oldest
  BY DEF Unmask, Stored, Oldest, senderVars, TypeOK
<1>3. PlaceInv' /\ Used' = Used
  BY <1>2, SamePlaces DEF Unmask, senderVars, handlerVars
<1>4. CountInv'
  BY <1>2 DEF CountInv, Unmask, Length, TypeOK, senderVars, handlerVars
<1>5. MaskInv'
  BY <1>3 DEF MaskInv, Unmask, handlerVars
<1> QED BY <1>1, <1>3, <1>4, <1>5

-----------------------------------------------------------------------------
(* Every step preserves the invariant. *)
LEMMA NextIInv == IInv /\ [Next]_vars => IInv'
<1> SUFFICES ASSUME IInv, [Next]_vars
             PROVE  IInv'
  OBVIOUS
<1>1. CASE Deliver
  BY <1>1, DeliverInv
<1>2. CASE Handler
  BY <1>2, ReceiveInv, ClearSourceInv, StoreInv DEF Handler
<1>3. CASE Main
  BY <1>3, TakeInv, FinishInv, FreeInv, UnmaskInv DEF Main
<1>4. CASE UNCHANGED vars
  <2>1. TypeOK' /\ InterruptMeansPacket'
    BY <1>4 DEF IInv, TypeOK, InterruptMeansPacket, vars, senderVars, mainVars,
       handlerVars
  <2>2. CountInv' /\ MaskInv'
    BY <1>4 DEF IInv, CountInv, MaskInv, Used, Stored, Oldest, Length, vars,
       senderVars, mainVars, handlerVars
  <2>3. PlaceInv'
    BY <1>4 DEF IInv, PlaceInv, Used, Stored, Oldest, Wrap, vars, senderVars,
       mainVars, handlerVars
  <2> QED BY <2>1, <2>2, <2>3 DEF IInv
<1> QED BY <1>1, <1>2, <1>3, <1>4 DEF Next

(* The invariant holds in every reachable state. *)
LEMMA Invariance == Spec => []IInv
BY InitIInv, NextIInv, PTL DEF Spec

(* Every variable of the ring keeps its type, for every ring and every        *)
(* sequence of commands (mpr.s:561-612).                                      *)
THEOREM TypeCorrect == Spec => []TypeOK
<1>1. IInv => TypeOK
  BY DEF IInv
<1> QED BY <1>1, Invariance, PTL

(* A packet is in the register exactly while the interrupt is raised or the   *)
(* handler of mpr.s at work.                                                  *)
THEOREM InterruptMeansPacketCorrect == Spec => []InterruptMeansPacket
<1>1. IInv => InterruptMeansPacket
  BY DEF IInv
<1> QED BY <1>1, Invariance, PTL

(* The slots in use hold the packets from the oldest command on.              *)
LEMMA SlotOf ==
  ASSUME IInv, NEW p \in header[Oldest] .. Stored - 1
  PROVE  \E i \in Slots : ring[i] = p
<1> USE RingAssumption DEF IInv
<1> DEFINE k == p - header[Oldest]
<1>1. header[Oldest] \in Nat /\ Stored \in Int
  BY Counters
<1>2. k \in 0 .. Used - 1 /\ Used \in 0 .. PBufLen
  BY <1>1 DEF Used, PlaceInv
<1>3. ring[Wrap(readPtr + k)] = header[Oldest] + k
  BY <1>2 DEF PlaceInv
<1>4. Wrap(readPtr + k) \in Slots
  BY <1>2 DEF TypeOK, Slots, Wrap
<1> QED BY <1>1, <1>3, <1>4

(* Masking its own interrupt when the ring fills up, and while a command is   *)
(* being freed, keeps the handler from ever storing over a packet that is     *)
(* still to be executed (mpr.s:80-91 and 568-577).                            *)
THEOREM NoPacketLostCorrect == Spec => []NoPacketLost
<1>1. IInv => NoPacketLost
  <2> SUFFICES ASSUME IInv, NEW p \in header[Oldest] .. nextPacket - 1
               PROVE  p = commrecv \/ \E i \in Slots : ring[i] = p
    BY DEF NoPacketLost, Oldest
  <2>1. header[Oldest] \in Nat /\ nextPacket \in Nat
    BY Counters DEF IInv
  <2>2. CASE commrecv = NoPacket
    BY <2>2, <2>1, SlotOf DEF Stored
  <2>3. CASE commrecv # NoPacket
    <3>1. commrecv = nextPacket - 1 /\ Stored = nextPacket - 1
      BY <2>3 DEF IInv, CountInv, Stored
    <3>2. p = nextPacket - 1 \/ p \in header[Oldest] .. Stored - 1
      BY <3>1, <2>1
    <3> QED BY <3>1, <3>2, SlotOf
  <2> QED BY <2>2, <2>3
<1> QED BY <1>1, Invariance, PTL

(* The command being executed finds its packets where mpr.s:94-137 looks for  *)
(* them.                                                                      *)
THEOREM ExecutesOwnPacketsCorrect == Spec => []ExecutesOwnPackets
<1>1. IInv => ExecutesOwnPackets
  <2> SUFFICES ASSUME IInv, main \in {"execute", "free"},
                      NEW k \in 0 .. Length(read - 1) - 1
               PROVE  ring[Wrap(readPtr + k)] = header[read - 1] + k
    BY DEF ExecutesOwnPackets
  <2> USE RingAssumption DEF IInv
  <2>1. read - 1 \in Commands /\ read \in 0 .. MaxCommands /\ Oldest = read - 1
    BY DEF TypeOK, CountInv, Commands, Oldest
  <2>2. /\ Length(read - 1) = header[read] - header[read - 1]
        /\ header[read] \in Nat /\ header[read - 1] \in Nat
    BY <2>1, LengthType DEF Length, TypeOK
  <2>3. header[read] <= Stored /\ Stored \in Int
    <3>1. written \in 0 .. MaxCommands /\ read <= written
      BY DEF TypeOK, CountInv
    <3>2. header[read] <= header[written] /\ header[written] \in Nat
      BY <3>1, <2>1, Monotone DEF TypeOK
    <3> QED BY <3>2, <2>2, Counters
  <2>4. k \in 0 .. Used - 1
    BY <2>1, <2>2, <2>3 DEF Used
  <2> QED BY <2>1, <2>4 DEF PlaceInv
<1> QED BY <1>1, Invariance, PTL

-----------------------------------------------------------------------------
(* The ring begins as an empty queue. *)
LEMMA QueueInit == Init => Queue!Init
BY DEF Init, Queue!Init

(* Every step of the ring is one of the queue, or the queue does not see it.  *)
LEMMA QueueStep == IInv /\ [Next]_vars => [Queue!Next]_Queue!vars
<1> SUFFICES ASSUME IInv, [Next]_vars
             PROVE  [Queue!Next]_Queue!vars
  OBVIOUS
<1> USE DEF Queue!vars, Queue!Next
<1>1. CASE Deliver \/ Receive \/ ClearSource \/ Unmask \/ Finish \/ UNCHANGED vars
  BY <1>1 DEF Deliver, Receive, ClearSource, Unmask, Finish, vars, mainVars,
     handlerVars
<1>2. CASE Store
  BY <1>2 DEF Store, mainVars, Queue!Send
<1>3. CASE Take
  BY <1>3 DEF IInv, TypeOK, CountInv, Take, handlerVars, Queue!Take
<1>4. CASE Free
  BY <1>4 DEF Free, handlerVars, Queue!Finish
<1> QED BY <1>1, <1>2, <1>3, <1>4 DEF Next, Handler, Main

(* A renderer takes its commands whole, in order and one at a time, whatever  *)
(* the interleaving of the bus, the interrupt and the main code.              *)
THEOREM RingImplementsQueue == Spec => ImplementsQueue
<1>1. Spec => Queue!Spec
  BY QueueInit, QueueStep, Invariance, PTL DEF Spec, Queue!Spec
<1> QED BY <1>1 DEF ImplementsQueue

-----------------------------------------------------------------------------
(* A packet in the register has its interrupt raised until the handler comes  *)
(* to it, and the handler masks only for a full ring.                         *)
WakeInv ==
  /\ commrecv # NoPacket /\ handler # "read" => interrupt
  /\ masked /\ main \in {"await", "execute"} =>
       Used = IF handler = "off" THEN PBufLen ELSE PBufLen - 1

LEMMA NextWake ==
  ASSUME IInv, WakeInv, [Next]_vars
  PROVE  WakeInv'
<1> USE RingAssumption DEF IInv
<1>1. CASE UNCHANGED vars
  BY <1>1 DEF vars, senderVars, mainVars, handlerVars, WakeInv, Used, Stored, Oldest
<1>2. CASE Deliver
  <2>1. nextPacket \in Nat /\ nextPacket # NoPacket
    BY Counters
  <2>2. Used' = Used
    BY <1>2, <2>1 DEF Deliver, Used, Stored, Oldest, mainVars
  <2> QED BY <1>2, <2>2 DEF Deliver, WakeInv, mainVars, handlerVars
<1>3. CASE Receive
  <2>1. Used' = Used /\ main' = main
    BY <1>3 DEF Receive, Used, Stored, Oldest, senderVars, mainVars
  <2>2. Used \in 0 .. PBufLen /\ Used # PBufLen
    BY <1>3 DEF PlaceInv, MaskInv, Receive
  <2>3. masked' => Used = PBufLen - 1
    <3>1. masked' = (Wrap(writePtr + 1) = readPtr)
      BY <1>3 DEF Receive
    <3>2. Wrap(writePtr + 1) = readPtr => Used = PBufLen - 1
      BY <2>2, FullSeen
    <3> QED BY <3>1, <3>2
  <2> QED BY <1>3, <2>1, <2>3 DEF Receive, WakeInv
<1>4. CASE ClearSource
  <2>1. Used' = Used
    BY <1>4 DEF ClearSource, Used, Stored, Oldest, senderVars, mainVars
  <2> QED BY <1>4, <2>1 DEF ClearSource, WakeInv, mainVars
<1>5. CASE Store
  <2>1. commrecv = Stored /\ nextPacket = Stored + 1
    BY <1>5, StorePending
  <2>2. Stored \in Int /\ header[Oldest] \in Nat
    BY Counters
  <2>3. Stored' = Stored + 1 /\ Oldest' = Oldest /\ header' = header
    BY <1>5, <2>1, <2>2 DEF Store, Stored, Oldest, senderVars, mainVars
  <2>4. Used' = Used + 1 /\ Used \in Int
    BY <2>2, <2>3 DEF Used
  <2> QED BY <1>5, <2>4 DEF Store, WakeInv, mainVars
<1>6. CASE Take
  <2>1. Used' = Used
    BY <1>6 DEF Take, Used, Stored, Oldest, senderVars, TypeOK
  <2> QED BY <1>6, <2>1 DEF Take, WakeInv, handlerVars
<1>7. CASE Finish \/ Free \/ Unmask
  BY <1>7 DEF Finish, Free, Unmask, WakeInv, handlerVars
<1> QED
  BY <1>1, <1>2, <1>3, <1>4, <1>5, <1>6, <1>7 DEF Next, Handler, Main

(* The sender, the handler or the main code can go on until all commands have *)
(* been executed: a ring that holds the longest command never locks up.       *)
THEOREM NeverLockedUpCorrect == Spec => []NeverLockedUp
<1>1. Init => WakeInv
  BY DEF Init, WakeInv
<1>2. IInv /\ WakeInv /\ [Next]_vars => WakeInv'
  BY NextWake
<1>3. IInv /\ WakeInv => NeverLockedUp
  <2> SUFFICES ASSUME IInv, WakeInv, ~NeverLockedUp
               PROVE  FALSE
    OBVIOUS
  <2> USE RingAssumption DEF IInv
  <2>1. /\ main = "await" /\ read = written /\ handler = "off"
        /\ ~(interrupt /\ ~masked)
        /\ ~(nextPacket < header[MaxCommands] /\ commrecv = NoPacket)
        /\ read # MaxCommands
    BY DEF NeverLockedUp
  <2>2. /\ Oldest = written /\ written \in Commands
        /\ written \in 0 .. MaxCommands /\ written + 1 \in 0 .. MaxCommands
    BY <2>1 DEF Oldest, TypeOK, Commands
  <2>3. /\ header[written] \in Nat /\ header[written + 1] \in Nat
        /\ Length(written) \in 1 .. MaxPackets /\ Stored \in Int
        /\ pending \in Nat /\ nextPacket \in Nat
    BY <2>2, LengthType, Counters DEF TypeOK
  <2>4. Stored < header[written + 1]
    BY <2>2, <2>3 DEF CountInv, Length
  <2>5. CASE commrecv # NoPacket
    <3>1. Used = PBufLen
      BY <2>1, <2>5 DEF WakeInv, TypeOK
    <3> QED BY <2>2, <2>3, <2>4, <3>1 DEF Used, Length
  <2>6. CASE commrecv = NoPacket
    <3>1. header[written + 1] <= header[MaxCommands] /\ header[MaxCommands] \in Nat
      BY <2>2, Monotone DEF TypeOK
    <3> QED BY <2>1, <2>3, <2>4, <2>6, <3>1 DEF Stored
  <2> QED BY <2>5, <2>6
<1> QED BY <1>1, <1>2, <1>3, Invariance, PTL DEF Spec

-----------------------------------------------------------------------------
(* What is left is never less than nothing. *)
LEMMA StepsLeftType ==
  ASSUME IInv
  PROVE  /\ StepsLeft \in Nat /\ InHand \in 0 .. 3 /\ Handled \in 0 .. 2
         /\ header[MaxCommands] \in Nat /\ nextPacket \in Nat
         /\ nextPacket # NoPacket /\ NotStored \in Nat /\ read \in Nat
<1> USE RingAssumption DEF IInv
<1>1. /\ header[MaxCommands] \in Nat /\ nextPacket \in Nat
      /\ nextPacket <= header[MaxCommands]
  BY Counters, Monotone DEF TypeOK, CountInv
<1>2. InHand \in 0 .. 3 /\ Handled \in 0 .. 2
  BY DEF InHand, Handled
<1>3. NotStored \in Nat /\ (Handled # 0 => NotStored >= 1)
  BY <1>1 DEF NotStored, Handled, InterruptMeansPacket
<1>4. MaxCommands - read \in Nat /\ read \in Nat
  BY DEF TypeOK
<1> QED BY <1>1, <1>2, <1>3, <1>4 DEF StepsLeft

(* Every step of a renderer that receives commands is one of a number that is *)
(* fixed when the commands are; with NeverLockedUp, all commands are executed *)
(* after just so many steps, in whatever order they come.                     *)
THEOREM EveryStepCountsCorrect == Spec => EveryStepCounts
<1> DEFINE A == StepsLeft > 0 /\ StepsLeft' = StepsLeft - 1
<1>1. ASSUME IInv, Next
      PROVE  StepsLeft' = StepsLeft - 1
  <2>1. /\ InHand \in 0 .. 3 /\ Handled \in 0 .. 2
        /\ header[MaxCommands] \in Nat /\ nextPacket \in Nat
        /\ nextPacket # NoPacket /\ NotStored \in Nat /\ read \in Nat
        /\ MaxCommands \in Nat
    BY <1>1, StepsLeftType, RingAssumption
  <2>2. CASE Deliver
    <3>1. /\ nextPacket' = nextPacket + 1 /\ NotStored' = NotStored
          /\ UNCHANGED <<header, read, InHand, Handled>>
      BY <2>1, <2>2 DEF Deliver, NotStored, InHand, Handled, mainVars, handlerVars
    <3> QED BY <2>1, <3>1 DEF StepsLeft
  <2>3. CASE Receive \/ ClearSource
    <3>1. /\ Handled' = Handled + 1
          /\ UNCHANGED <<header, nextPacket, read, InHand, NotStored>>
      BY <2>1, <2>3 DEF Receive, ClearSource, NotStored, InHand, Handled, mainVars,
         senderVars
    <3> QED BY <2>1, <3>1 DEF StepsLeft
  <2>4. CASE Store
    <3>1. commrecv # NoPacket
      BY <1>1, <2>4 DEF Store, IInv, InterruptMeansPacket
    <3>2. /\ Handled = 2 /\ Handled' = 0 /\ NotStored' = NotStored - 1
          /\ UNCHANGED <<header, nextPacket, read, InHand>>
      BY <2>1, <2>4, <3>1 DEF Store, NotStored, InHand, Handled, mainVars, senderVars
    <3> QED BY <2>1, <3>2 DEF StepsLeft
  <2>5. CASE Take
    <3>1. /\ InHand = 0 /\ InHand' = 3 /\ read' = read + 1
          /\ UNCHANGED <<header, nextPacket, NotStored, Handled>>
      BY <2>5 DEF Take, NotStored, InHand, Handled, handlerVars, senderVars
    <3> QED BY <2>1, <3>1 DEF StepsLeft
  <2>6. CASE Finish \/ Free \/ Unmask
    <3>1. /\ InHand' = InHand - 1
          /\ UNCHANGED <<header, nextPacket, read, NotStored, Handled>>
      BY <2>6 DEF Finish, Free, Unmask, NotStored, InHand, Handled, handlerVars,
         senderVars
    <3> QED BY <2>1, <3>1 DEF StepsLeft
  <2> QED BY <1>1, <2>2, <2>3, <2>4, <2>5, <2>6 DEF Next, Handler, Main
<1>2. IInv => StepsLeft \in Nat
  BY StepsLeftType
<1>3. IInv /\ [Next]_vars => [A]_vars
  <2> SUFFICES ASSUME IInv, Next
               PROVE  A
    OBVIOUS
  <2>1. IInv'
    BY NextIInv
  <2>2. StepsLeft \in Nat
    BY <1>2
  <2>3. (StepsLeft \in Nat)'
    BY <1>2, <2>1, PTL
  <2>4. StepsLeft' = StepsLeft - 1
    BY <1>1
  <2> HIDE DEF A
  <2> QED BY <2>2, <2>3, <2>4 DEF A
<1> QED BY <1>3, Invariance, PTL DEF Spec, EveryStepCounts
=============================================================================
