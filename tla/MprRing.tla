------------------------------ MODULE MprRing ------------------------------
(***************************************************************************)
(* How an M3DL renderer receives its commands.  A command is one or more   *)
(* packets on the communication bus; the header, its first packet, says    *)
(* how many.  The receive interrupt copies packets into a ring that the    *)
(* main code executes commands from.  When the ring has filled up, the     *)
(* handler masks its own interrupt: the next packet stays in the receive   *)
(* register and the sender waits until the main code has freed a command   *)
(* and unmasks it.                                                         *)
(*                                                                         *)
(* Sources: mpr.s (MPR_CommReceive, MPR_NextCommand, MPR_AwaitCommand,     *)
(* MPR_Start), mprsncdr.s for the sender.  Packets are numbered in the     *)
(* order they are sent, and commands likewise.  Interrupts preempt the     *)
(* main code; the bus works beside both.  Bad* are slips that break a      *)
(* property.                                                               *)
(***************************************************************************)
EXTENDS Integers

CONSTANTS
  PBufLen,     (* pbuflen: packets the ring holds                            *)
  MaxPackets,  (* packets of the longest command                             *)
  MaxCommands, (* bound: commands that are sent                              *)
  NoPacket     (* no packet: an empty receive register, a ring slot not used *)

ASSUME RingAssumption ==
  /\ PBufLen \in Nat \ {0}
  /\ MaxPackets \in 1 .. PBufLen
  /\ MaxCommands \in Nat
  /\ NoPacket \notin Int

VARIABLES
  header,     \* packet number of each command's header, and of the end
  nextPacket, \* packets sent
  commrecv,   \* the receive register
  interrupt,  \* the receive interrupt is raised
  masked,     \* software mask of that interrupt (SW2)
  handler,    \* where the handler is: "off", "clear", "read"
  readPtr,    \* MPR_PacketReadPtr, as a slot
  writePtr,   \* packet write pointer of MPR_CmdInfo
  pending,    \* packets still to come of the command that is being received
  written,    \* MPR_CmdWritten
  read,       \* MPR_CmdRead
  ring,       \* MPR_CmdBuffer
  main        \* where the main code is: "await", "execute", "free", "unmask"

senderVars == <<header, nextPacket>>
mainVars == <<readPtr, read, main>>
handlerVars == <<handler, writePtr, pending, written, ring>>
vars == <<senderVars, commrecv, interrupt, masked, mainVars, handlerVars>>

Commands == 0 .. MaxCommands - 1
Packets == 0 .. MaxCommands * MaxPackets
Slots == 0 .. PBufLen - 1

(* Ways to lay commands of 1 to MaxPackets packets behind one another.  The   *)
(* last conjunct follows from the one before it, by induction, which the      *)
(* proofs cannot do.                                                          *)
Layouts ==
  {h \in [0 .. MaxCommands -> Packets] :
     /\ h[0] = 0
     /\ \A c \in Commands : h[c + 1] - h[c] \in 1 .. MaxPackets
     /\ \A c, d \in 0 .. MaxCommands : c < d => h[c] < h[d]}

Length(c) == header[c + 1] - header[c]

(* What bits 16 to 18 of the first word say, in the header of command c. *)
LengthIn(p) == Length(CHOOSE c \in Commands : header[c] = p)

(* and #pbufwrap *)
Wrap(i) == IF i >= PBufLen THEN i - PBufLen ELSE i

(* MPR_Start leaves the interrupt enabled and waits for a command. *)
Init ==
  /\ header \in Layouts
  /\ nextPacket = 0
  /\ commrecv = NoPacket /\ interrupt = FALSE
  /\ masked = FALSE
  /\ handler = "off"
  /\ readPtr = 0 /\ writePtr = 0 /\ pending = 0
  /\ written = 0 /\ read = 0
  /\ ring = [i \in Slots |-> NoPacket]
  /\ main = "await"

-----------------------------------------------------------------------------
(* The bus delivers a packet to an empty receive register; until then the     *)
(* sender tries again.                                                        *)
Deliver ==
  /\ nextPacket < header[MaxCommands]
  /\ commrecv = NoPacket
  /\ commrecv' = nextPacket
  /\ nextPacket' = nextPacket + 1
  /\ interrupt' = TRUE
  /\ UNCHANGED <<header, masked, mainVars, handlerVars>>

-----------------------------------------------------------------------------
(* The receive interrupt. *)

(* The ring is taken to be full one packet late. *)
BadReceive ==
  /\ handler = "off" /\ interrupt /\ ~masked
  /\ masked' = (writePtr = readPtr /\ written # read)
  /\ handler' = "clear"
  /\ UNCHANGED <<senderVars, commrecv, interrupt, mainVars, writePtr, pending,
                 written, ring>>

(* MPR_CommReceive: will this packet fill the ring? *)
Receive ==
  /\ handler = "off" /\ interrupt /\ ~masked
  /\ masked' = (Wrap(writePtr + 1) = readPtr)
  /\ handler' = "clear"
  /\ UNCHANGED <<senderVars, commrecv, interrupt, mainVars, writePtr, pending,
                 written, ring>>

(* The source is cleared before the register is read: from then on the next   *)
(* packet may come and raise it.                                              *)
ClearSource ==
  /\ handler = "clear"
  /\ interrupt' = FALSE
  /\ handler' = "read"
  /\ UNCHANGED <<senderVars, commrecv, masked, mainVars, writePtr, pending,
                 written, ring>>

(* The packet goes into the ring.  It is a header when no packets of a        *)
(* command are pending, and the command is complete with its last one.        *)
Store ==
  /\ handler = "read"
  /\ commrecv' = NoPacket
  /\ ring' = [ring EXCEPT ![writePtr] = commrecv]
  /\ writePtr' = Wrap(writePtr + 1)
  /\ pending' = (IF pending = 0 THEN LengthIn(commrecv) ELSE pending) - 1
  /\ written' = IF pending' = 0 THEN written + 1 ELSE written
  /\ handler' = "off"
  /\ UNCHANGED <<senderVars, interrupt, masked, mainVars>>

-----------------------------------------------------------------------------
(* The main code, which runs while the handler does not. *)

(* Whatever has come in is taken to be one command. *)
BadTake ==
  /\ handler = "off"
  /\ main = "await"
  /\ read # written
  /\ read' = written
  /\ main' = "execute"
  /\ UNCHANGED <<senderVars, commrecv, interrupt, masked, readPtr, handlerVars>>

(* MPR_AwaitCommand. *)
Take ==
  /\ handler = "off"
  /\ main = "await"
  /\ read # written
  /\ read' = read + 1
  /\ main' = "execute"
  /\ UNCHANGED <<senderVars, commrecv, interrupt, masked, readPtr, handlerVars>>

(* The command's own code comes to MPR_NextCommand, which masks the           *)
(* interrupt...                                                               *)
Finish ==
  /\ handler = "off"
  /\ main = "execute"
  /\ masked' = TRUE
  /\ main' = "free"
  /\ UNCHANGED <<senderVars, commrecv, interrupt, readPtr, read, handlerVars>>

(* Only the header is freed. *)
BadFree ==
  /\ handler = "off"
  /\ main = "free"
  /\ readPtr' = Wrap(readPtr + 1)
  /\ main' = "unmask"
  /\ UNCHANGED <<senderVars, commrecv, interrupt, masked, read, handlerVars>>

(* ... frees as many packets as the header says...                            *)
Free ==
  /\ handler = "off"
  /\ main = "free"
  /\ readPtr' = Wrap(readPtr + LengthIn(ring[readPtr]))
  /\ main' = "unmask"
  /\ UNCHANGED <<senderVars, commrecv, interrupt, masked, read, handlerVars>>

(* The mask is left to whoever set it. *)
BadUnmask ==
  /\ handler = "off"
  /\ main = "unmask"
  /\ main' = "await"
  /\ UNCHANGED <<senderVars, commrecv, interrupt, masked, readPtr, read,
                 handlerVars>>

(* ... and unmasks it, also when it was the handler that masked it.           *)
Unmask ==
  /\ handler = "off"
  /\ main = "unmask"
  /\ masked' = FALSE
  /\ main' = "await"
  /\ UNCHANGED <<senderVars, commrecv, interrupt, readPtr, read, handlerVars>>

-----------------------------------------------------------------------------
Handler == Receive \/ ClearSource \/ Store
Main == Take \/ Finish \/ Free \/ Unmask

Next == Deliver \/ Handler \/ Main

Spec == Init /\ [][Next]_vars

(* The sender does send what it has begun: its own code spins until the       *)
(* packet is out.  The handler and the main code are a processor that runs.   *)
FairSpec == Spec /\ WF_vars(Deliver) /\ WF_vars(Handler) /\ WF_vars(Main)

-----------------------------------------------------------------------------
TypeOK ==
  /\ header \in Layouts
  /\ nextPacket \in Packets
  /\ commrecv \in Packets \cup {NoPacket}
  /\ interrupt \in BOOLEAN
  /\ masked \in BOOLEAN
  /\ handler \in {"off", "clear", "read"}
  /\ readPtr \in Slots /\ writePtr \in Slots
  /\ pending \in 0 .. MaxPackets - 1
  /\ written \in 0 .. MaxCommands /\ read \in 0 .. MaxCommands
  /\ ring \in [Slots -> Packets \cup {NoPacket}]
  /\ main \in {"await", "execute", "free", "unmask"}

(* A command is executed from its own packets, in order, from the moment it   *)
(* is taken until it has been freed: none is overwritten by what comes in     *)
(* meanwhile, and none is missing, also when the ring is full and wraps       *)
(* around.  The code reads them through pointers computed in mpr.s:107-137.   *)
ExecutesOwnPackets ==
  main \in {"execute", "free"} =>
    \A k \in 0 .. Length(read - 1) - 1 :
      ring[Wrap(readPtr + k)] = header[read - 1] + k

(* Of the command that is executed, those that wait and the one that comes   *)
(* in, no packet is lost: it is in its slot or still in the receive register. *)
(* Masking one packet late, or not while a command is being freed             *)
(* (mpr.s:80-91), would let the handler store over one.                       *)
NoPacketLost ==
  LET oldest == IF main \in {"execute", "free"} THEN read - 1 ELSE read
  IN  \A p \in header[oldest] .. nextPacket - 1 :
        p = commrecv \/ \E i \in Slots : ring[i] = p

(* A packet is in the register exactly while its interrupt is raised or the   *)
(* handler at work: none comes unnoticed, though the source is cleared before *)
(* the register is read, and the handler never reads an empty register.       *)
InterruptMeansPacket == handler # "off" \/ interrupt <=> commrecv # NoPacket

(* The ring implements a queue of whole commands that the renderer takes in   *)
(* order, one at a time.                                                      *)
Queue == INSTANCE CommandQueue WITH
  sent <- written, taken <- read, working <- main \in {"execute", "free"}

ImplementsQueue == Queue!Spec

(* Until every command has been executed somebody can go on: the sender, that *)
(* finds the receive register empty, the handler, that is not masked, or the  *)
(* main code, that has a command.  A packet that came while the interrupt was *)
(* masked has its interrupt still raised, and the handler does not mask it    *)
(* for want of room when no command is complete that could be freed           *)
(* (mpr.s:80-137, 561-612).                                                   *)
NeverLockedUp ==
  \/ read = MaxCommands /\ main = "await"
  \/ nextPacket < header[MaxCommands] /\ commrecv = NoPacket
  \/ handler # "off"
  \/ interrupt /\ ~masked
  \/ main # "await" \/ read # written

(* What is left to do, in steps: packets that are not yet in the register and *)
(* those not yet stored, less what the handler has done for the one in hand,  *)
(* commands not yet taken and what is left of the one in hand.                *)
NotStored == header[MaxCommands] - nextPacket + (IF commrecv = NoPacket THEN 0 ELSE 1)
Handled == IF handler = "off" THEN 0 ELSE IF handler = "clear" THEN 1 ELSE 2
InHand ==
  IF main = "execute" THEN 3 ELSE IF main = "free" THEN 2
  ELSE IF main = "unmask" THEN 1 ELSE 0

StepsLeft ==
  (header[MaxCommands] - nextPacket) + 3 * NotStored - Handled
  + 4 * (MaxCommands - read) + InHand

(* No step of the sender, the handler or the main code is in vain: however    *)
(* they interleave, each brings the end nearer, and by the same amount; the   *)
(* handler never comes back to a packet, nor the main code to a command.      *)
EveryStepCounts == [][StepsLeft > 0 /\ StepsLeft' = StepsLeft - 1]_vars

(* Every command sent is executed to its end: nobody waits for a register, a  *)
(* slot or a mask for ever.                                                   *)
AllExecuted == <>(read = MaxCommands /\ main = "await")
=============================================================================
