--------------------------- MODULE SpiChain_proofs ---------------------------
(***************************************************************************)
(* Proofs about the SPI chain, for any number of chips and any registers:   *)
(* it stays well-typed, and it implements the register bank.                *)
(***************************************************************************)
EXTENDS SpiChain, TLAPS

\* What a call's transfer after n others puts out, Datagram at any n.
DatagramAt(n) ==
    CASE call.op = "write_all" -> Write(call.register, call.values[n])
      [] call.op = "read_all" -> Read(call.register)
      [] OTHER -> IF n = 0 THEN Write(call.register, call.values[0])
                           ELSE Write(GENERAL_CONF, 0)

\* A frame belongs to a call, and only a read has a second one.
FrameOfCall ==
    /\ call = Bank!NoCall => sent = 0 /\ fetching = FALSE
    /\ call # Bank!NoCall => sent <= Transfers
    /\ fetching => call.op = "read_all"

\* No more chips than there were transfers hold a datagram of this frame; the
\* others hold replies still.
RestAreReplies == \A c \in Chip : c > sent => shift[c].kind = "status"

\* While no transfer has failed, the chips hold the datagrams in reverse order.
InOrder == call # Bank!NoCall /\ ~failed =>
               \A c \in Chip : c <= sent => shift[c] = DatagramAt(sent - c)

ChainInv == TypeOK /\ FrameOfCall /\ RestAreReplies /\ InOrder
-----------------------------------------------------------------------------
LEMMA DatagramHere == DatagramAt(sent) = Datagram
BY DEF DatagramAt, Datagram

\* A request is a call of the bank.
LEMMA RequestsAreCalls == Requests \subseteq Bank!Calls
<1>1. 0 \in Index
  BY ChainAssumption DEF Index, Bank!Index
<1>2. [i \in Index |-> 0] \in [Index -> Values]
  BY ChainAssumption
<1>3. \A v \in Values :
         [[i \in Index |-> 0] EXCEPT ![0] = v] \in [Index -> Values]
  BY <1>1, <1>2
<1> QED BY <1>1, <1>2, <1>3 DEF Requests, Bank!Calls, Index

LEMMA CallsAreNotNoCall == Bank!NoCall \notin Bank!Calls
BY DEF Bank!NoCall, Bank!Calls

\* The arguments of a call in progress.
LEMMA CallFields ==
    ASSUME TypeOK, call # Bank!NoCall
    PROVE  /\ call \in Bank!Calls
           /\ call.op \in {"write_all", "read_all", "write_individual"}
           /\ call.register \in Registers
           /\ call.values \in [Index -> Values]
           /\ call.pos \in Index
BY DEF TypeOK, Bank!Calls, Index

\* A frame is of one transfer at least, and of no more than there are chips.
LEMMA TransfersBound ==
    ASSUME TypeOK, call # Bank!NoCall
    PROVE  Transfers \in 1 .. NumChips
<1>1. call.pos \in 0 .. NumChips - 1
  BY CallFields DEF Index, Bank!Index
<1> QED BY <1>1, ChainAssumption DEF Transfers

LEMMA DatagramType ==
    ASSUME TypeOK, call # Bank!NoCall, sent < Transfers
    PROVE  Datagram \in Datagrams
<1>1. sent \in Index /\ 0 \in Index
  BY TransfersBound, ChainAssumption DEF TypeOK, Index, Bank!Index
<1>2. call.values[sent] \in Values /\ call.values[0] \in Values
  BY <1>1, CallFields
<1> QED BY <1>2, CallFields, ChainAssumption
        DEF Datagram, Datagrams, Write, Read

LEMMA ReceiveType ==
    ASSUME TypeOK, call # Bank!NoCall, sent < Transfers, NEW v \in Values
    PROVE  Receive(v) \in [Index -> Values]
<1>1. NumChips - 1 - sent \in Index
  BY TransfersBound, ChainAssumption DEF TypeOK, Index, Bank!Index
<1> QED BY <1>1 DEF TypeOK, Receive

\* The registers of each chip after a Latch, and the reply it shifts out next.
LEMMA LatchType ==
    ASSUME TypeOK, Latch
    PROVE  /\ register' \in [Chip -> [Registers -> Values]]
           /\ shift' \in [Chip -> Datagrams]
           /\ \A c \in Chip : /\ register'[c] \in Obeyed(c)
                              /\ shift'[c] = Answer(c)
                              /\ shift'[c].kind = "status"
<1>1. /\ register' \in [Chip -> [Registers -> Values]]
      /\ \A c \in Chip : register'[c] \in Obeyed(c)
  BY DEF Latch
<1>2. shift' = [c \in Chip |-> Answer(c)]
  BY DEF Latch
<1>3. \A c \in Chip : Answer(c) \in Datagrams /\ Answer(c).kind = "status"
  <2> SUFFICES ASSUME NEW c \in Chip
               PROVE  Answer(c) \in Datagrams /\ Answer(c).kind = "status"
    OBVIOUS
  <2>1. /\ shift[c].value \in Values
        /\ register'[c][shift[c].register] \in Values
    BY <1>1 DEF TypeOK, Datagrams
  <2> QED BY <2>1, ChainAssumption DEF Answer, Reply, Datagrams
<1> QED BY <1>1, <1>2, <1>3

\* A chip acts on what it holds by changing one register, or none.
LEMMA ObeyedChangesOne ==
    ASSUME TypeOK, NEW c \in Chip, NEW after \in Obeyed(c)
    PROVE  Bank!OneChanged(c, after)
<1>1. /\ shift[c].register \in Registers /\ shift[c].value \in Values
      /\ register[c] \in [Registers -> Values]
      /\ GENERAL_CONF \in Registers
  BY ChainAssumption DEF TypeOK, Datagrams
<1>2. /\ register[c] = [register[c] EXCEPT ![GENERAL_CONF] =
                          register[c][GENERAL_CONF]]
      /\ register[c][GENERAL_CONF] \in Values
  BY <1>1
<1>3. CASE after = register[c]
  BY <1>1, <1>2, <1>3 DEF Bank!OneChanged
<1>4. CASE \E r \in Registers : after = [register[c] EXCEPT ![r] = shift[c].value]
  BY <1>1, <1>4 DEF Bank!OneChanged
<1> QED BY <1>1, <1>3, <1>4 DEF Obeyed
-----------------------------------------------------------------------------
LEMMA ChainInvInit == Init => ChainInv
<1> SUFFICES ASSUME Init PROVE ChainInv
  OBVIOUS
<1>1. TypeOK
  <2>1. [c \in Chip |-> Reply(0)] \in [Chip -> Datagrams]
    BY ChainAssumption DEF Reply, Datagrams
  <2>2. register \in [Chip -> [Registers -> Values]]
    BY ChainAssumption DEF Init
  <2>3. values \in [Index -> Values] /\ sent \in 0 .. NumChips
    BY ChainAssumption DEF Init
  <2> QED BY <2>1, <2>2, <2>3 DEF Init, TypeOK
<1>2. FrameOfCall /\ InOrder
  BY DEF Init, FrameOfCall, InOrder
<1>3. RestAreReplies
  BY DEF Init, RestAreReplies, Reply
<1> QED BY <1>1, <1>2, <1>3 DEF ChainInv

LEMMA AssertKeepsInv == ChainInv /\ Assert => ChainInv'
<1> SUFFICES ASSUME ChainInv, Assert PROVE ChainInv'
  OBVIOUS
<1>1. call' \in Bank!Calls /\ call' # Bank!NoCall
  BY RequestsAreCalls, CallsAreNotNoCall DEF Assert
<1>2. sent' = 0 /\ fetching' = FALSE /\ ~failed'
  BY DEF Assert, ChainInv, FrameOfCall
<1>3. TypeOK'
  BY <1>1, <1>2, ChainAssumption DEF Assert, ChainInv, TypeOK
<1>4. Transfers' \in 1 .. NumChips
  <2>1. call'.pos \in 0 .. NumChips - 1
    BY <1>1 DEF Bank!Calls, Bank!Index
  <2> QED BY <2>1, ChainAssumption DEF Transfers
<1>5. FrameOfCall'
  BY <1>1, <1>2, <1>4 DEF FrameOfCall
<1>6. RestAreReplies'
  BY DEF Assert, ChainInv, RestAreReplies
<1>7. InOrder'
  BY <1>2 DEF InOrder, Chip, Bank!Chip
<1> QED BY <1>3, <1>5, <1>6, <1>7 DEF ChainInv

\* A transfer pushes every datagram one chip further.
LEMMA TransferKeepsInv == ChainInv /\ Transfer => ChainInv'
<1> SUFFICES ASSUME ChainInv, Transfer PROVE ChainInv'
  OBVIOUS
<1> USE DEF Chip, Bank!Chip
<1>1. /\ TypeOK /\ call # Bank!NoCall /\ sent < Transfers
      /\ UNCHANGED <<call, fetching, failed, register>>
      /\ sent' = sent + 1
      /\ sent \in Nat /\ NumChips \in Nat \ {0}
      /\ Transfers \in 1 .. NumChips
  BY TransfersBound, ChainAssumption DEF ChainInv, Transfer, TypeOK
<1>2. /\ shift' = [c \in Chip |-> IF c = 1 THEN Datagram ELSE shift[c - 1]]
      /\ \A c \in Chip : c # 1 => c - 1 \in Chip
  BY <1>1 DEF Transfer
<1>3. Transfers' = Transfers
  BY <1>1 DEF Transfers
<1>4. TypeOK'
  <2>1. shift' \in [Chip -> Datagrams]
    BY <1>1, <1>2, DatagramType DEF TypeOK
  <2>2. values' \in [Index -> Values]
    <3>1. shift[NumChips].value \in Values
      BY <1>1 DEF TypeOK, Datagrams
    <3> QED BY <1>1, <3>1, ReceiveType DEF Transfer
  <2> QED BY <1>1, <2>1, <2>2 DEF TypeOK
<1>5. FrameOfCall'
  BY <1>1, <1>3 DEF ChainInv, FrameOfCall
<1>6. RestAreReplies'
  <2> SUFFICES ASSUME NEW c \in Chip, c > sent + 1
               PROVE  shift'[c].kind = "status"
    BY <1>1 DEF RestAreReplies
  <2>1. c # 1 /\ c - 1 \in Chip /\ c - 1 > sent
    BY <1>1
  <2>2. shift[c - 1].kind = "status"
    BY <2>1 DEF ChainInv, RestAreReplies
  <2> QED BY <1>2, <2>1, <2>2
<1>7. InOrder'
  <2> SUFFICES ASSUME ~failed, NEW c \in Chip, c <= sent + 1
               PROVE  shift'[c] = DatagramAt(sent - c)'
    BY <1>1 DEF InOrder
  <2>1. DatagramAt(sent - c)' = DatagramAt(sent + 1 - c)
    BY <1>1 DEF DatagramAt
  <2>2. CASE c = 1
    <3>1. sent + 1 - c = sent
      BY <1>1, <2>2
    <3> QED BY <1>2, <2>1, <2>2, <3>1, DatagramHere
  <2>3. CASE c # 1
    <3>1. c - 1 \in Chip /\ c - 1 <= sent /\ sent - (c - 1) = sent + 1 - c
      BY <1>1, <2>3
    <3>2. shift[c - 1] = DatagramAt(sent - (c - 1))
      BY <1>1, <3>1 DEF ChainInv, InOrder
    <3> QED BY <1>2, <2>1, <2>3, <3>1, <3>2
  <2> QED BY <2>2, <2>3
<1> QED BY <1>4, <1>5, <1>6, <1>7 DEF ChainInv

LEMMA TransferFailsKeepsInv == ChainInv /\ TransferFails => ChainInv'
<1> SUFFICES ASSUME ChainInv, TransferFails PROVE ChainInv'
  OBVIOUS
<1>1. /\ TypeOK /\ call # Bank!NoCall /\ sent < Transfers
      /\ UNCHANGED <<call, fetching, shift, register>>
      /\ sent' = sent + 1 /\ failed' = TRUE
      /\ sent \in Nat /\ NumChips \in Nat \ {0}
      /\ Transfers \in 1 .. NumChips
  BY TransfersBound, ChainAssumption DEF ChainInv, TransferFails, TypeOK
<1>2. TypeOK'
  <2>1. values' \in [Index -> Values]
    BY <1>1, ReceiveType DEF TransferFails
  <2> QED BY <1>1, <2>1 DEF TypeOK
<1>3. FrameOfCall'
  <2>1. Transfers' = Transfers
    BY <1>1 DEF Transfers
  <2> QED BY <1>1, <2>1 DEF ChainInv, FrameOfCall
<1>4. RestAreReplies'
  BY <1>1 DEF ChainInv, RestAreReplies, Chip, Bank!Chip
<1>5. InOrder'
  BY <1>1 DEF InOrder
<1> QED BY <1>2, <1>3, <1>4, <1>5 DEF ChainInv

LEMMA DeassertKeepsInv == ChainInv /\ Deassert => ChainInv'
<1> SUFFICES ASSUME ChainInv, Deassert PROVE ChainInv'
  OBVIOUS
<1>1. /\ TypeOK /\ Latch /\ call # Bank!NoCall /\ sent' = 0
      /\ UNCHANGED <<failed, values>>
      /\ \/ call.op = "read_all" /\ fetching' = TRUE /\ call' = call
         \/ fetching' = FALSE /\ call' = Bank!NoCall
  BY DEF ChainInv, Deassert
<1>2. TypeOK'
  <2>1. call' \in Bank!Calls \cup {Bank!NoCall} /\ fetching' \in BOOLEAN
    BY <1>1 DEF TypeOK
  <2>2. sent' \in 0 .. NumChips /\ failed' \in BOOLEAN
    BY <1>1, ChainAssumption DEF TypeOK
  <2>3. /\ shift' \in [Chip -> Datagrams]
        /\ register' \in [Chip -> [Registers -> Values]]
    BY <1>1, LatchType
  <2>4. values' \in [Index -> Values]
    BY <1>1 DEF TypeOK
  <2> QED BY <2>1, <2>2, <2>3, <2>4 DEF TypeOK
<1>3. FrameOfCall'
  <2>1. CASE call.op = "read_all" /\ fetching' = TRUE /\ call' = call
    <3>1. Transfers' = NumChips
      BY <2>1 DEF Transfers
    <3> QED BY <1>1, <2>1, <3>1, ChainAssumption DEF FrameOfCall
  <2>2. CASE fetching' = FALSE /\ call' = Bank!NoCall
    BY <1>1, <2>2 DEF FrameOfCall
  <2> QED BY <1>1, <2>1, <2>2
<1>4. RestAreReplies'
  BY <1>1, LatchType DEF RestAreReplies
<1>5. InOrder'
  BY <1>1 DEF InOrder, Chip, Bank!Chip
<1> QED BY <1>2, <1>3, <1>4, <1>5 DEF ChainInv

LEMMA ChipActsKeepsInv == ChainInv /\ ChipActs => ChainInv'
<1> SUFFICES ASSUME ChainInv, ChipActs PROVE ChainInv'
  OBVIOUS
<1>1. UNCHANGED <<call, fetching, sent, failed, shift, values>>
  BY DEF ChipActs
<1>2. register' \in [Chip -> [Registers -> Values]]
  BY ChainAssumption DEF ChainInv, TypeOK, ChipActs
<1>3. TypeOK'
  BY <1>1, <1>2 DEF ChainInv, TypeOK
<1>4. FrameOfCall' /\ RestAreReplies' /\ InOrder'
  BY <1>1 DEF ChainInv, FrameOfCall, RestAreReplies, InOrder, Transfers,
              DatagramAt
<1> QED BY <1>3, <1>4 DEF ChainInv

LEMMA ChainInvKept == ChainInv /\ [Next]_chainVars => ChainInv'
<1> SUFFICES ASSUME ChainInv, [Next]_chainVars PROVE ChainInv'
  OBVIOUS
<1>1. CASE UNCHANGED chainVars
  BY <1>1 DEF chainVars, ChainInv, TypeOK, FrameOfCall, RestAreReplies,
              InOrder, Transfers, DatagramAt
<1> QED BY <1>1, AssertKeepsInv, TransferKeepsInv, TransferFailsKeepsInv,
           DeassertKeepsInv, ChipActsKeepsInv DEF Next

LEMMA ChainInvHolds == Spec => []ChainInv
<1> QED BY ChainInvInit, ChainInvKept, PTL DEF Spec

\* The chain stays well-typed for any number of chips: a frame makes no more
\* transfers than there are chips, so the values that are sent and returned stay
\* within the caller's arrays, and what is shifted is always a datagram or a
\* reply.  (The array of statuses, written one past its end, is not modelled.)
THEOREM TypeCorrect == Spec => []TypeOK
<1>1. ChainInv => TypeOK
  BY DEF ChainInv
<1> QED BY <1>1, ChainInvHolds, PTL
-----------------------------------------------------------------------------
\* The refinement, action by action.

LEMMA ResultType == TypeOK /\ FrameOfCall => Result \in [Index -> Values]
<1> SUFFICES ASSUME TypeOK, FrameOfCall PROVE Result \in [Index -> Values]
  OBVIOUS
<1>1. SUFFICES ASSUME NEW i \in Index, fetching, i < NumChips - sent
               PROVE  shift[i + 1 + sent].value \in Values
  BY DEF Result, TypeOK, Index, Bank!Index
<1>2. i + 1 + sent \in Chip
  BY <1>1, ChainAssumption DEF TypeOK, Index, Bank!Index, Chip, Bank!Chip
<1> QED BY <1>2 DEF TypeOK, Datagrams

\* Outside the second frame the result is the caller's array ...
LEMMA ResultIdle == ~fetching => Result = [i \in Index |-> values[i]]
BY DEF Result, Index, Bank!Index

\* ... and at its end too.
LEMMA ResultDone ==
    ASSUME TypeOK, sent = NumChips
    PROVE  Result = [i \in Index |-> values[i]]
<1>1. \A i \in Index : ~(i < NumChips - sent)
  BY ChainAssumption DEF Index, Bank!Index
<1> QED BY <1>1 DEF Result, Index, Bank!Index

LEMMA StartsAsBank == Init => Bank!BankInit
<1> SUFFICES ASSUME Init PROVE Bank!BankInit
  OBVIOUS
<1>1. Result \in [Index -> Values]
  BY ChainInvInit, ResultType DEF ChainInv
<1>2. register \in [Chip -> [Registers -> Values]]
  BY ChainInvInit DEF ChainInv, TypeOK
<1> QED BY <1>1, <1>2 DEF Init, Bank!BankInit, Index, Chip

LEMMA AssertBegins == ChainInv /\ Assert => Bank!Begin
<1> SUFFICES ASSUME ChainInv, Assert PROVE Bank!Begin
  OBVIOUS
<1>1. fetching = FALSE /\ call' \in Bank!Calls
  BY RequestsAreCalls DEF Assert, ChainInv, FrameOfCall
<1>2. Result' = Result
  BY DEF Assert, Result
<1> QED BY <1>1, <1>2 DEF Assert, Bank!Begin

\* A transfer moves values from the chain to the array, which the result, that
\* counts the ones on their way in, does not tell.
LEMMA TransferStutters ==
    ChainInv /\ Transfer => UNCHANGED <<call, fetching, failed, register, Result>>
<1> SUFFICES ASSUME ChainInv, Transfer PROVE Result' = Result
  BY DEF Transfer
<1>1. /\ TypeOK /\ call # Bank!NoCall /\ sent < Transfers
      /\ fetching' = fetching /\ sent' = sent + 1
      /\ fetching \in BOOLEAN
      /\ shift' = [c \in Chip |-> IF c = 1 THEN Datagram ELSE shift[c - 1]]
      /\ values' = Receive(shift[NumChips].value)
  BY DEF ChainInv, Transfer, TypeOK
<1>2. /\ sent \in Nat /\ NumChips \in Nat \ {0}
      /\ Transfers \in 1 .. NumChips
  BY <1>1, TransfersBound, ChainAssumption DEF TypeOK
<1>3. CASE ~fetching
  BY <1>1, <1>3 DEF Result, Receive
<1>4. CASE fetching
  <2> DEFINE Fetched(i) == IF i < NumChips - sent THEN shift[i + 1 + sent].value
                                                  ELSE values[i]
  <2>1. SUFFICES ASSUME NEW i \in Index
                 PROVE  (IF i < NumChips - (sent + 1)
                           THEN shift'[i + 1 + (sent + 1)].value
                           ELSE values'[i]) = Fetched(i)
    <3> HIDE DEF Fetched
    <3>1. Result = [i \in 0 .. NumChips - 1 |-> Fetched(i)]
      BY <1>4 DEF Result, Fetched
    <3>2. Result' = [i \in 0 .. NumChips - 1 |->
                        IF i < NumChips - (sent + 1)
                          THEN shift'[i + 1 + (sent + 1)].value
                          ELSE values'[i]]
      BY <1>1, <1>4 DEF Result
    <3> QED BY <2>1, <3>1, <3>2 DEF Index, Bank!Index
  <2>2. i \in Nat /\ i <= NumChips - 1
    BY <1>2 DEF Index, Bank!Index
  <2>3. /\ values \in [Index -> Values]
        /\ values' = [values EXCEPT ![NumChips - 1 - sent] = shift[NumChips].value]
    BY <1>1, <1>4 DEF TypeOK, Receive
  <2>4. CASE i < NumChips - (sent + 1)
    <3> DEFINE c == i + 1 + (sent + 1)
    <3>1. c \in Chip /\ c # 1 /\ c - 1 = i + 1 + sent /\ i < NumChips - sent
      BY <1>2, <2>2, <2>4 DEF Chip, Bank!Chip
    <3>2. \A d \in Chip : d # 1 => shift'[d] = shift[d - 1]
      BY <1>1
    <3>3. shift'[c] = shift[i + 1 + sent]
      <4> HIDE DEF c
      <4> QED BY <3>1, <3>2
    <3> QED BY <2>4, <3>1, <3>3
  <2>5. CASE i = NumChips - 1 - sent
    <3>1. /\ i < NumChips - sent /\ ~(i < NumChips - (sent + 1))
          /\ i + 1 + sent = NumChips
      BY <1>2, <2>2, <2>5
    <3>2. values'[i] = shift[NumChips].value
      BY <2>1, <2>3, <2>5
    <3> QED BY <3>1, <3>2
  <2>6. CASE i > NumChips - 1 - sent
    <3>1. ~(i < NumChips - sent) /\ ~(i < NumChips - (sent + 1))
      BY <1>2, <2>2, <2>6
    <3>2. values'[i] = values[i]
      <4>1. i # NumChips - 1 - sent
        BY <1>2, <2>2, <2>6
      <4> QED BY <2>1, <2>3, <4>1
    <3> QED BY <3>1, <3>2
  <2> QED BY <1>2, <2>2, <2>4, <2>5, <2>6
<1> QED BY <1>1, <1>3, <1>4

LEMMA TransferFailsFails == ChainInv /\ TransferFails => Bank!Fails
<1> SUFFICES ASSUME ChainInv, TransferFails PROVE Bank!Fails
  OBVIOUS
<1>1. Result' \in [Index -> Values]
  <2>1. TypeOK' /\ FrameOfCall'
    BY TransferFailsKeepsInv DEF ChainInv
  <2>2. (TypeOK /\ FrameOfCall => Result \in [Index -> Values])'
    BY ResultType, PTL
  <2> QED BY <2>1, <2>2 DEF Index, Bank!Index
<1> QED BY <1>1 DEF TransferFails, Bank!Fails, Index

LEMMA ChipActsMoves == ChainInv /\ ChipActs => Bank!ChipMoves
<1> SUFFICES ASSUME ChainInv, ChipActs PROVE Bank!ChipMoves
  OBVIOUS
<1>1. Result' = Result
  BY DEF ChipActs, Result
<1> QED BY <1>1 DEF ChipActs, Bank!ChipMoves, Chip
-----------------------------------------------------------------------------
\* The end of a frame, by what the call is.

LEMMA ObeyedRead ==
    ASSUME NEW c, NEW r, shift[c] = Read(r)
    PROVE  Obeyed(c) = {register[c]}
BY DEF Obeyed, Read

LEMMA ObeyedWrite ==
    ASSUME NEW c, NEW r, NEW v, shift[c] = Write(r, v)
    PROVE  Obeyed(c) = {[register[c] EXCEPT ![r] = v]}
BY DEF Obeyed, Write

\* A frame of reads changes no register.
LEMMA ReadsChangeNothing ==
    ASSUME TypeOK, Latch, \A c \in Chip : shift[c] = Read(call.register)
    PROVE  register' = register
<1>1. \A c \in Chip : register'[c] = register[c]
  <2> SUFFICES ASSUME NEW c \in Chip PROVE register'[c] = register[c]
    OBVIOUS
  <2>1. Obeyed(c) = {register[c]}
    BY ObeyedRead
  <2> QED BY <2>1, LatchType
<1>2. /\ register \in [Chip -> [Registers -> Values]]
      /\ register' \in [Chip -> [Registers -> Values]]
  BY LatchType DEF TypeOK
<1> QED BY <1>1, <1>2

LEMMA ReadFrameTakes ==
    ChainInv /\ Deassert /\ ~failed /\ call.op = "read_all" /\ ~fetching
        => Bank!ReadTakes
<1> SUFFICES ASSUME ChainInv, Deassert, ~failed, call.op = "read_all", ~fetching
             PROVE  Bank!ReadTakes
  OBVIOUS
<1>1. /\ TypeOK /\ call # Bank!NoCall /\ sent = NumChips /\ Latch
      /\ sent' = 0 /\ fetching' = TRUE /\ UNCHANGED <<call, failed>>
  BY DEF ChainInv, Deassert, Transfers
<1>2. \A c \in Chip : shift[c] = Read(call.register)
  BY <1>1, ChainAssumption DEF ChainInv, InOrder, DatagramAt, Chip, Bank!Chip
<1>3. register' = register
  BY <1>1, <1>2, ReadsChangeNothing
<1>4. \A c \in Chip : shift'[c].value = register[c][call.register]
  BY <1>1, <1>2, <1>3, LatchType DEF Answer, Reply, Read
<1>5. Result' = [i \in Index |-> register[i + 1][call.register]]
  <2>1. \A i \in 0 .. NumChips - 1 :
           /\ i < NumChips - 0 /\ i + 1 + 0 = i + 1 /\ i + 1 \in Chip
    BY ChainAssumption DEF Chip, Bank!Chip
  <2>2. Result' = [i \in 0 .. NumChips - 1 |-> shift'[i + 1].value]
    BY <1>1, <2>1 DEF Result
  <2> QED BY <1>4, <2>1, <2>2 DEF Index, Bank!Index
<1> QED BY <1>1, <1>3, <1>5 DEF Bank!ReadTakes, Index

LEMMA FetchFrameEnds ==
    ChainInv /\ Deassert /\ ~failed /\ call.op = "read_all" /\ fetching
        => Bank!ReadEnds
<1> SUFFICES ASSUME ChainInv, Deassert, ~failed, call.op = "read_all", fetching
             PROVE  Bank!ReadEnds
  OBVIOUS
<1>1. /\ TypeOK /\ call # Bank!NoCall /\ sent = NumChips /\ Latch
      /\ fetching' = FALSE /\ call' = Bank!NoCall /\ UNCHANGED <<failed, values>>
  BY DEF ChainInv, Deassert, Transfers
<1>2. \A c \in Chip : shift[c] = Read(call.register)
  BY <1>1, ChainAssumption DEF ChainInv, InOrder, DatagramAt, Chip, Bank!Chip
<1>3. register' = register
  BY <1>1, <1>2, ReadsChangeNothing
<1>4. Result' = Result
  <2>1. (~fetching => Result = [i \in Index |-> values[i]])'
    BY ResultIdle, PTL
  <2> QED BY <1>1, <2>1, ResultDone DEF Index, Bank!Index
<1> QED BY <1>1, <1>3, <1>4 DEF Bank!ReadEnds

\* Nothing of a write ends up in the result.
LEMMA WriteKeepsResult ==
    ChainInv /\ Deassert /\ call.op # "read_all" => Result' = Result
<1> SUFFICES ASSUME ChainInv, Deassert, call.op # "read_all"
             PROVE  Result' = Result
  OBVIOUS
<1>1. ~fetching /\ ~fetching' /\ values' = values
  BY DEF ChainInv, FrameOfCall, Deassert
<1> QED BY <1>1 DEF Result

LEMMA WriteAllFrameEnds ==
    ChainInv /\ Deassert /\ ~failed /\ call.op = "write_all"
        => Bank!WriteAllEnds
<1> SUFFICES ASSUME ChainInv, Deassert, ~failed, call.op = "write_all"
             PROVE  Bank!WriteAllEnds
  OBVIOUS
<1>1. /\ TypeOK /\ call # Bank!NoCall /\ sent = NumChips /\ Latch
      /\ fetching' = FALSE /\ call' = Bank!NoCall /\ failed' = failed
  BY DEF ChainInv, Deassert, Transfers
<1>2. fetching' = fetching
  BY <1>1 DEF ChainInv, FrameOfCall, TypeOK
<1>3. \A c \in Chip : shift[c] = Write(call.register, call.values[NumChips - c])
  BY <1>1, ChainAssumption DEF ChainInv, InOrder, DatagramAt, Chip, Bank!Chip
<1>4. \A c \in Chip : register'[c] =
         [register[c] EXCEPT ![call.register] = call.values[NumChips - c]]
  <2> SUFFICES ASSUME NEW c \in Chip
               PROVE  register'[c] =
         [register[c] EXCEPT ![call.register] = call.values[NumChips - c]]
    OBVIOUS
  <2>1. Obeyed(c) =
         {[register[c] EXCEPT ![call.register] = call.values[NumChips - c]]}
    BY <1>3, ObeyedWrite
  <2> QED BY <1>1, <2>1, LatchType
<1>5. register' = [c \in Chip |->
         [register[c] EXCEPT ![call.register] = call.values[NumChips - c]]]
  BY <1>1, <1>4, LatchType
<1> QED BY <1>1, <1>2, <1>5, WriteKeepsResult DEF Bank!WriteAllEnds, Chip

LEMMA WriteIndividualFrameEnds ==
    ChainInv /\ Deassert /\ ~failed /\ call.op = "write_individual"
        => Bank!WriteIndividualEnds
<1> SUFFICES ASSUME ChainInv, Deassert, ~failed, call.op = "write_individual"
             PROVE  Bank!WriteIndividualEnds
  OBVIOUS
<1> DEFINE pos == IF call.pos = 0 THEN 1 ELSE call.pos
<1>1. /\ TypeOK /\ call # Bank!NoCall /\ sent = pos /\ Latch
      /\ fetching' = FALSE /\ call' = Bank!NoCall /\ failed' = failed
  BY DEF ChainInv, Deassert, Transfers
<1>2. fetching' = fetching
  BY <1>1 DEF ChainInv, FrameOfCall, TypeOK
<1>3. pos \in Nat
  BY <1>1 DEF TypeOK
<1> HIDE DEF pos
<1>4. ASSUME NEW c \in Chip
      PROVE  /\ c < pos => register'[c] = [register[c] EXCEPT ![GENERAL_CONF] = 0]
             /\ c = pos => register'[c] =
                              [register[c] EXCEPT ![call.register] = call.values[0]]
             /\ c > pos => Bank!OneChanged(c, register'[c])
  <2>1. register'[c] \in Obeyed(c)
    BY <1>1, LatchType
  <2>2. c \in Nat
    BY DEF Chip, Bank!Chip
  <2>3. c <= pos => shift[c] = DatagramAt(pos - c)
    BY <1>1 DEF ChainInv, InOrder
  <2>4. ASSUME c < pos
        PROVE  register'[c] = [register[c] EXCEPT ![GENERAL_CONF] = 0]
    <3>1. pos - c # 0 /\ c <= pos
      BY <1>3, <2>2, <2>4
    <3>2. shift[c] = Write(GENERAL_CONF, 0)
      BY <2>3, <3>1 DEF DatagramAt
    <3> QED BY <2>1, <3>2, ObeyedWrite
  <2>5. ASSUME c = pos
        PROVE  register'[c] = [register[c] EXCEPT ![call.register] = call.values[0]]
    <3>1. pos - c = 0 /\ c <= pos
      BY <1>3, <2>2, <2>5
    <3>2. shift[c] = Write(call.register, call.values[0])
      BY <2>3, <3>1 DEF DatagramAt
    <3> QED BY <2>1, <3>2, ObeyedWrite
  <2> QED BY <1>1, <2>1, <2>4, <2>5, ObeyedChangesOne
<1>5. DOMAIN register' = Chip
  BY <1>1, LatchType
<1> QED BY <1>1, <1>2, <1>4, <1>5, WriteKeepsResult
        DEF Bank!WriteIndividualEnds, Chip, pos

LEMMA FailedFrameEnds == ChainInv /\ Deassert /\ failed => Bank!FailedFrame
<1> SUFFICES ASSUME ChainInv, Deassert, failed PROVE Bank!FailedFrame
  OBVIOUS
<1>1. TypeOK /\ Latch /\ call # Bank!NoCall /\ failed' = failed
  BY DEF ChainInv, Deassert
<1>2. Result' \in [Index -> Values]
  <2>1. TypeOK' /\ FrameOfCall'
    BY DeassertKeepsInv DEF ChainInv
  <2>2. (TypeOK /\ FrameOfCall => Result \in [Index -> Values])'
    BY ResultType, PTL
  <2> QED BY <2>1, <2>2 DEF Index, Bank!Index
<1>3. DOMAIN register' = Chip /\ \A c \in Chip : Bank!OneChanged(c, register'[c])
  BY <1>1, LatchType, ObeyedChangesOne
<1>4. \/ call' = Bank!NoCall /\ fetching' = FALSE
      \/ call' = call /\ fetching' = TRUE /\ call.op = "read_all" /\ ~fetching
  BY DEF Deassert
<1> QED BY <1>1, <1>2, <1>3, <1>4 DEF Bank!FailedFrame, Index, Chip

LEMMA StepIsBankStep ==
    ChainInv /\ [Next]_chainVars
        => [Bank!BankNext]_<<call, fetching, failed, register, Result>>
<1> SUFFICES ASSUME ChainInv, [Next]_chainVars
             PROVE  \/ Bank!BankNext
                    \/ UNCHANGED <<call, fetching, failed, register, Result>>
  OBVIOUS
<1>1. CASE UNCHANGED chainVars
  BY <1>1 DEF chainVars, Result
<1>2. CASE Assert
  BY <1>2, AssertBegins DEF Bank!BankNext
<1>3. CASE Transfer
  BY <1>3, TransferStutters
<1>4. CASE TransferFails
  BY <1>4, TransferFailsFails DEF Bank!BankNext
<1>5. CASE Deassert
  <2>1. call.op \in {"write_all", "read_all", "write_individual"}
    BY <1>5, CallFields DEF ChainInv, Deassert
  <2> QED BY <1>5, <2>1, FailedFrameEnds, ReadFrameTakes, FetchFrameEnds,
             WriteAllFrameEnds, WriteIndividualFrameEnds DEF Bank!BankNext
<1>6. CASE ChipActs
  BY <1>6, ChipActsMoves DEF Bank!BankNext
<1> QED BY <1>1, <1>2, <1>3, <1>4, <1>5, <1>6 DEF Next

\* The chain implements the bank its callers take it for: a read takes one
\* instant's values of all chips although it lasts for two frames, a write
\* reaches all chips at once, and a failed transfer harms no other call; for any
\* number of chips, any registers and transfers that fail at any time.
THEOREM ImplementsRegisterBank == Spec => IsRegisterBank
<1>1. Init => Bank!BankInit
  BY StartsAsBank
<1>2. ChainInv /\ [Next]_chainVars
         => [Bank!BankNext]_<<call, fetching, failed, register, Result>>
  BY StepIsBankStep
<1>3. Bank!bankVars = <<call, fetching, failed, register, Result>>
  BY DEF Bank!bankVars
<1>4. ChainInv /\ [Next]_chainVars => [Bank!BankNext]_(Bank!bankVars)
  BY <1>2 DEF Bank!bankVars
<1> QED BY <1>1, <1>4, ChainInvHolds, PTL DEF Spec, IsRegisterBank, Bank!BankSpec
=============================================================================
