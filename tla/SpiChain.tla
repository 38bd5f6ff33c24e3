------------------------------- MODULE SpiChain -------------------------------
(***************************************************************************)
(* SPI_TMC.c: reading and writing the registers of a daisy chain of         *)
(* TMC4361A chips.  Each chip is a shift register of one datagram: while    *)
(* the chip select is asserted a transfer pushes a datagram into the first  *)
(* chip and every other one a chip further, and out of the last.  When it   *)
(* is deasserted each chip acts on the datagram it holds and puts the reply *)
(* in its place, to be pushed out by the transfers of the next frame.       *)
(*                                                                         *)
(* One action is one spiXfer() or one edge of the chip select.  A transfer  *)
(* that fails is logged and the call goes on.  The int32 and uint32         *)
(* functions, and the same-value and different-values ones, differ in types *)
(* only.  The read of an individual chip, which nothing calls, is left out. *)
(***************************************************************************)
EXTENDS Integers

CONSTANTS
    NumChips,      \* SM_NUM_DRIVES
    Registers,     \* register addresses
    Values,        \* register contents
    GENERAL_CONF,  \* register 0
    LiveRegister   \* a register the chip itself changes, such as XACTUAL

ASSUME ChainAssumption ==
    /\ NumChips \in Nat \ {0}
    /\ {GENERAL_CONF, LiveRegister} \subseteq Registers
    /\ 0 \in Values

VARIABLES
    call,      \* the call in progress and its arguments
    fetching,  \* is a read in its second frame?
    sent,      \* transfers made in this frame
    failed,    \* history: has a transfer of this call failed?
    shift,     \* the datagram in each chip's shift register
    register,  \* the registers of each chip
    values     \* the array read_all fills

chainVars == <<call, fetching, sent, failed, shift, register, values>>

\* The transfers of the fetching frame have received the replies of the last
\* chips; the others are still on their way through the chain.
Result == [i \in 0 .. NumChips - 1 |->
              IF fetching /\ i < NumChips - sent THEN shift[i + 1 + sent].value
                                                 ELSE values[i]]

Bank == INSTANCE RegisterBank WITH taken <- fetching, result <- Result

Chip == Bank!Chip
Index == Bank!Index

\* A datagram is an address byte, whose top bit says write, and a value; a reply
\* has the chip's status in place of the address.
Datagrams == [kind : {"write", "read", "status"}, register : Registers,
              value : Values]
Write(r, v) == [kind |-> "write", register |-> r, value |-> v]
Read(r) == [kind |-> "read", register |-> r, value |-> 0]
Reply(v) == [kind |-> "status", register |-> GENERAL_CONF, value |-> v]

TypeOK ==
    /\ call \in Bank!Calls \cup {Bank!NoCall}
    /\ fetching \in BOOLEAN /\ failed \in BOOLEAN
    /\ sent \in 0 .. NumChips
    /\ shift \in [Chip -> Datagrams]
    /\ register \in [Chip -> [Registers -> Values]]
    /\ values \in [Index -> Values]

Init ==
    /\ call = Bank!NoCall
    /\ fetching = FALSE /\ failed = FALSE
    /\ sent = 0
    /\ shift = [c \in Chip |-> Reply(0)]
    /\ register = [c \in Chip |-> [r \in Registers |-> 0]]
    /\ values = [i \in Index |-> 0]
-----------------------------------------------------------------------------
\* The arguments a call has no use for are zero.
Requests ==
    LET zeros == [i \in Index |-> 0]
    IN [op : {"write_all"}, register : Registers, values : [Index -> Values],
        pos : {0}]
       \cup [op : {"read_all"}, register : Registers, values : {zeros}, pos : {0}]
       \cup [op : {"write_individual"}, register : Registers,
             values : {[zeros EXCEPT ![0] = v] : v \in Values}, pos : Index]

\* SPI_ASSERT.  Calls come one at a time from the real-time thread.
Assert ==
    /\ call = Bank!NoCall
    /\ call' \in Requests
    /\ failed' = FALSE
    /\ UNCHANGED <<fetching, sent, shift, register, values>>

\* Mutant of Transfers: a read makes one too many.
TransfersTooMany ==
    CASE call.op = "write_all" -> NumChips
      [] call.op = "read_all" -> NumChips + 1
      [] OTHER -> IF call.pos = 0 THEN 1 ELSE call.pos

\* The number of transfers in a frame.
Transfers ==
    CASE call.op \in {"write_all", "read_all"} -> NumChips
      [] OTHER -> IF call.pos = 0 THEN 1 ELSE call.pos

\* What the transfer after `sent' others puts out.
Datagram ==
    CASE call.op = "write_all" -> Write(call.register, call.values[sent])
      [] call.op = "read_all" -> Read(call.register)
      [] OTHER -> IF sent = 0 THEN Write(call.register, call.values[0])
                              ELSE Write(GENERAL_CONF, 0)

\* A read fills its array from the back.  Mutant: from the front.
ReceiveForward(v) == IF fetching THEN [values EXCEPT ![sent] = v] ELSE values
Receive(v) ==
    IF fetching THEN [values EXCEPT ![NumChips - 1 - sent] = v] ELSE values

Transfer ==
    /\ call # Bank!NoCall
    /\ sent < Transfers
    /\ shift' = [c \in Chip |-> IF c = 1 THEN Datagram ELSE shift[c - 1]]
    /\ values' = Receive(shift[NumChips].value)
    /\ sent' = sent + 1
    /\ UNCHANGED <<call, fetching, failed, register>>

\* Nothing is shifted and the receive buffer is not set.
TransferFails ==
    /\ call # Bank!NoCall
    /\ sent < Transfers
    /\ \E v \in Values : values' = Receive(v)
    /\ sent' = sent + 1
    /\ failed' = TRUE
    /\ UNCHANGED <<call, fetching, shift, register>>

\* What the chip may have in its registers after acting on what it holds.  A
\* reply that was not pushed out is taken for a datagram, its status for the
\* address.
Obeyed(c) ==
    LET held == shift[c]
    IN CASE held.kind = "read" -> {register[c]}
         [] held.kind = "write" ->
               {[register[c] EXCEPT ![held.register] = held.value]}
         [] OTHER -> {[register[c] EXCEPT ![r] = held.value] : r \in Registers}
                     \cup {register[c]}

\* The reply: the value of the register addressed.
Answer(c) ==
    IF shift[c].kind = "status" THEN Reply(shift[c].value)
    ELSE Reply(register'[c][shift[c].register])

Latch ==
    /\ \E after \in [Chip -> [Registers -> Values]] :
          /\ \A c \in Chip : after[c] \in Obeyed(c)
          /\ register' = after
    /\ shift' = [c \in Chip |-> Answer(c)]

\* SPI_DEASSERT: the end of a call, or of the first of a read's two frames.
Deassert ==
    /\ call # Bank!NoCall
    /\ sent = Transfers
    /\ Latch
    /\ sent' = 0
    /\ IF call.op = "read_all" /\ ~fetching
       THEN fetching' = TRUE /\ UNCHANGED call
       ELSE fetching' = FALSE /\ call' = Bank!NoCall
    /\ UNCHANGED <<failed, values>>

\* The chip counts its steps.
ChipActs ==
    /\ \E c \in Chip, v \in Values :
          /\ v # register[c][LiveRegister]
          /\ register' = [register EXCEPT ![c][LiveRegister] = v]
    /\ UNCHANGED <<call, fetching, sent, failed, shift, values>>

Next == Assert \/ Transfer \/ TransferFails \/ Deassert \/ ChipActs

Spec == Init /\ [][Next]_chainVars
-----------------------------------------------------------------------------
\* The chain is a register bank to its callers: a read takes one instant's
\* values of all chips, in the chips' order, although it lasts for two frames in
\* which they go on changing; a write reaches all chips at once; and a failed
\* transfer, after which the datagrams sit in the wrong chips, does no harm to
\* the calls that follow.
IsRegisterBank == Bank!BankSpec

\* The comments on step_ctrl_copy_setpos and step_ctrl_copy_actpos speak of a
\* joint's one drive, whose set position is written and whose actual position is
\* read: a value lands in the chip that reads return under the value's index.
WrittenWhereRead ==
    [][(Deassert /\ call.op = "write_all" /\ ~failed) =>
          \A i \in Index : register'[i + 1][call.register] = call.values[i]]_chainVars
=============================================================================
