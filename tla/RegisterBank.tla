----------------------------- MODULE RegisterBank -----------------------------
(***************************************************************************)
(* What the callers of SPI_TMC.c see: a bank of chips with registers, and   *)
(* calls that read one register of every chip or write to chips.  A call    *)
(* takes effect in all chips at one instant between its beginning and its   *)
(* end; one whose transfers all succeeded has exactly the effect below.     *)
(***************************************************************************)
EXTENDS Integers

CONSTANTS
    NumChips,      \* SM_NUM_DRIVES
    Registers,     \* register addresses
    Values,        \* register contents
    GENERAL_CONF,  \* register 0
    LiveRegister   \* a register the chip itself changes, such as XACTUAL

\* The position in the chain: 1 is the chip the program's output goes into.
Chip == 1 .. NumChips
Index == 0 .. NumChips - 1

Calls == [op : {"write_all", "read_all", "write_individual"},
          register : Registers, values : [Index -> Values], pos : Index]
NoCall == [op |-> "none"]

VARIABLES
    call,      \* the call in progress
    taken,     \* has a read in progress taken its values?
    failed,    \* has a transfer of this call failed?
    register,  \* the registers of each chip
    result     \* the array read_all fills

bankVars == <<call, taken, failed, register, result>>

BankInit ==
    /\ call = NoCall /\ taken = FALSE /\ failed = FALSE
    /\ register \in [Chip -> [Registers -> Values]]
    /\ result \in [Index -> Values]

Begin ==
    /\ call = NoCall
    /\ call' \in Calls
    /\ taken' = FALSE /\ failed' = FALSE
    /\ UNCHANGED <<register, result>>

\* One register of every chip, all at the same instant, in the chips' order.
ReadTakes ==
    /\ call.op = "read_all" /\ ~taken /\ ~failed
    /\ result' = [i \in Index |-> register[i + 1][call.register]]
    /\ taken' = TRUE
    /\ UNCHANGED <<call, failed, register>>

ReadEnds ==
    /\ call.op = "read_all" /\ taken /\ ~failed
    /\ call' = NoCall
    /\ taken' = FALSE
    /\ UNCHANGED <<failed, register, result>>

\* The first of the values goes to the last of the chips.
WriteAllEnds ==
    /\ call.op = "write_all" /\ ~failed
    /\ register' = [c \in Chip |->
          [register[c] EXCEPT ![call.register] = call.values[NumChips - c]]]
    /\ call' = NoCall
    /\ UNCHANGED <<taken, failed, result>>

\* Registers of a chip after it has acted on something: at most one differs.
OneChanged(c, after) == \E r \in Registers, v \in Values :
                            after = [register[c] EXCEPT ![r] = v]

\* The chip at `pos' (0 counts as 1) is written to, those before it lose their
\* general configuration, and those behind it may take anything.
WriteIndividualEnds ==
    /\ call.op = "write_individual" /\ ~failed
    /\ LET pos == IF call.pos = 0 THEN 1 ELSE call.pos
       IN \A c \in Chip :
            /\ c < pos => register'[c] = [register[c] EXCEPT ![GENERAL_CONF] = 0]
            /\ c = pos => register'[c] =
                             [register[c] EXCEPT ![call.register] = call.values[0]]
            /\ c > pos => OneChanged(c, register'[c])
    /\ DOMAIN register' = Chip
    /\ call' = NoCall
    /\ UNCHANGED <<taken, failed, result>>

Fails ==
    /\ call # NoCall
    /\ failed' = TRUE
    /\ result' \in [Index -> Values]
    /\ UNCHANGED <<call, taken, register>>

\* A call with a failed transfer may leave anything in its result and change a
\* register of each chip when its frame ends, even if it is a read ...
FailedFrame ==
    /\ call # NoCall /\ failed
    /\ result' \in [Index -> Values]
    /\ DOMAIN register' = Chip
    /\ \A c \in Chip : OneChanged(c, register'[c])
    /\ \/ call' = NoCall /\ taken' = FALSE
       \/ call' = call /\ taken' = TRUE /\ call.op = "read_all" /\ ~taken
    /\ UNCHANGED failed

\* ... but no other call is affected.
FailedTransferGoesOn ==
    /\ call # NoCall /\ failed
    /\ result' \in [Index -> Values]
    /\ UNCHANGED <<call, taken, failed, register>>

ChipMoves ==
    /\ \E c \in Chip, v \in Values :
          register' = [register EXCEPT ![c][LiveRegister] = v]
    /\ UNCHANGED <<call, taken, failed, result>>

BankNext ==
    \/ Begin \/ ReadTakes \/ ReadEnds \/ WriteAllEnds \/ WriteIndividualEnds
    \/ Fails \/ FailedFrame \/ FailedTransferGoesOn \/ ChipMoves

BankSpec == BankInit /\ [][BankNext]_bankVars
=============================================================================
