---------------------------- MODULE GbcLink_proofs ----------------------------
(***************************************************************************)
(* Proofs about GbcLink: the real-time thread, whatever becomes of the GBC  *)
(* process, makes only cycles of StepControl, so that what is proved of the *)
(* state machine holds of the program around it; and the echo of a prompt   *)
(* GBC is heard.                                                            *)
(***************************************************************************)
EXTENDS GbcLink, StepControl_proofs

LEMMA ZeroBufferType == ZeroBuffer \in Buffers
  BY LinkAssumption, HeartbeatAssumption DEF ZeroBuffer, Buffers

LEMMA AgedType ==
    ASSUME NEW buffer \in Buffers
    PROVE  Aged(buffer) \in Buffers
  BY DEF Aged, Buffers

\* The two parts a bus cycle is put together from keep their types.
LEMMA CopyType ==
    ASSUME LinkTypeOK, Copy, CountCycle
    PROVE  /\ outA' \in Buffers
           /\ check_tick' \in 0 .. CheckCycles - 1
  BY CheckCyclesAssumption DEF LinkTypeOK, Copy, CountCycle

LEMMA LinkTypeStep ==
    ASSUME LinkTypeOK, TypeOK, LinkNext
    PROVE  LinkTypeOK'
<1> USE DEF LinkTypeOK
<1>1. CASE GbcCommand
  <2>1. sm_buf_out' \in Buffers
    BY <1>1 DEF GbcCommand, Buffers
  <2> QED
    BY <1>1, <2>1 DEF GbcCommand, GbcWrites
<1>2. CASE GbcEcho
  <2>1. sm_buf_out' \in Buffers
    BY <1>2 DEF GbcEcho, Buffers
  <2> QED
    BY <1>2, <2>1 DEF GbcEcho, GbcWrites
<1>3. CASE GbcGoes
  BY <1>3, AgedType DEF GbcGoes
<1>4. CASE GbcStarts
  BY <1>4 DEF GbcStarts
<1>5. CASE CycleServed
  BY <1>5, CopyType DEF CycleServed, TypeOK
<1>6. CASE CycleConnects
  <2>1. 0 \in 0 .. HbModulus - 1
    BY HeartbeatAssumption
  <2> QED
    BY <1>6, <2>1, CopyType, ZeroBufferType DEF CycleConnects
<1>7. CASE CycleIdles
  BY <1>7, CopyType DEF CycleIdles, TypeOK
<1> QED
  BY <1>1, <1>2, <1>3, <1>4, <1>5, <1>6, <1>7 DEF LinkNext, BusCycle

LEMMA LinkTypeInit == LinkInit => LinkTypeOK
<1>1. 0 \in 0 .. CheckCycles - 1 /\ 0 \in 0 .. HbModulus - 1
  BY CheckCyclesAssumption, HeartbeatAssumption
<1> QED
  BY <1>1, ZeroBufferType DEF LinkInit, LinkTypeOK

\* A step of the program is a cycle of StepControl on an output GBC may give,
\* or changes nothing of StepControl's.
LEMMA LinkStep ==
    ASSUME LinkTypeOK, [LinkNext]_allVars
    PROVE  [Next]_vars
<1>1. CASE RunMachine /\ Copy
  <2>1. outA'.word \in Outputs
    BY <1>1 DEF Copy, LinkTypeOK, Buffers
  <2> QED
    BY <1>1, <2>1 DEF RunMachine, Next
<1>2. CASE UNCHANGED vars
  BY <1>2
<1> QED
  BY <1>1, <1>2
     DEF LinkNext, BusCycle, CycleServed, CycleConnects, CycleIdles, GbcCommand,
         GbcEcho, GbcGoes, GbcStarts, allVars

LEMMA LinkInductive ==
    LinkTypeOK /\ TypeOK /\ [LinkNext]_allVars => LinkTypeOK' /\ TypeOK'
<1> SUFFICES ASSUME LinkTypeOK, TypeOK, [LinkNext]_allVars
             PROVE  LinkTypeOK' /\ TypeOK'
  OBVIOUS
<1>1. TypeOK'
  BY LinkStep, TypeStep
<1>2. CASE UNCHANGED allVars
  BY <1>1, <1>2 DEF allVars, linkVars, LinkTypeOK
<1> QED
  BY <1>1, <1>2, LinkTypeStep

\* The link's variables stay in their types, the buffers in the outputs GBC may
\* give, however often the process goes and comes.
THEOREM LinkTypeCorrect == LinkSafeSpec => []LinkTypeOK
<1>1. LinkInit => LinkTypeOK /\ TypeOK
  BY LinkTypeInit, TypeInit DEF LinkInit
<1> QED
  BY <1>1, LinkInductive, PTL DEF LinkSafeSpec

\* The program with its link implements StepControl: no loss of the connection,
\* torn copy or stale buffer makes a step the state machine would not make.
THEOREM LinkDrivesTheMachine == LinkSafeSpec => DrivesTheMachine
<1>1. LinkInit => Init
  BY DEF LinkInit
<1> QED
  BY <1>1, LinkStep, LinkTypeCorrect, PTL
     DEF LinkSafeSpec, DrivesTheMachine, SafeSpec

\* So the motion permit is kept by the program as a whole.
THEOREM LinkKeepsMotionPermit == LinkSafeSpec => KeepsMotionPermit
  BY LinkDrivesTheMachine, ImplementsMotionPermit, PTL DEF DrivesTheMachine
-----------------------------------------------------------------------------
\* Why the echo of a prompt GBC is two cycles old when it is read: only a process
\* that is known is connected to, writes or is owed a signal; from its first
\* signal on the shared memory holds the heartbeat of one cycle ago, and that is
\* also what it has echoed unless it is still to echo.
Known ==
    /\ gbc = "known" => gbc_connected
    /\ gbc_todo # {} => gbc = "known"
    /\ sm_buf_out.by = "known" => gbc = "known"
    /\ outA.by = "known" => gbc = "known"
OneBehind ==
    (sm_buf_out.by = "known" \/ gbc_todo # {}) => lag(gbsm_heartbeat, sm_buf_in) = 1
Echoed ==
    /\ sm_buf_out.by = "known" \/ gbc_todo # {}
    /\ "heartbeat" \notin gbc_todo
    => sm_buf_out.heartbeat = sm_buf_in
PromptInv == Known /\ OneBehind /\ Echoed /\ PromptGbcIsHeard

LEMMA LagGrows ==
    ASSUME NEW h \in 0 .. HbModulus - 1, NEW g \in 0 .. HbModulus - 1,
           NEW next \in 0 .. HbModulus - 1,
           next = IF h + 1 = HbModulus THEN 0 ELSE h + 1
    PROVE  /\ lag(next, h) = 1
           /\ lag(h, g) = 1 => lag(next, g) <= RoundTrip
  BY HeartbeatAssumption DEF lag, RoundTrip

LEMMA PromptServed ==
    ASSUME LinkTypeOK, TypeOK, PromptInv, CycleServed
    PROVE  PromptInv'
<1> USE DEF PromptInv
<1>1. Known'
  BY DEF CycleServed, Copy, Known
<1>2. gbsm_heartbeat' = IF gbsm_heartbeat + 1 = HbModulus THEN 0
                        ELSE gbsm_heartbeat + 1
  BY DEF CycleServed, RunMachine, step_ctrl_main, ReadInputs, Heartbeat
<1>3. /\ lag(gbsm_heartbeat', gbsm_heartbeat) = 1
      /\ lag(gbsm_heartbeat, sm_buf_in) = 1
            => lag(gbsm_heartbeat', sm_buf_in) <= RoundTrip
  BY <1>2, LagGrows, HeartbeatAssumption DEF TypeOK, LinkTypeOK
<1>4. OneBehind'
  BY <1>3 DEF CycleServed, OneBehind, lag
<1>5. Echoed'
  BY DEF CycleServed, Echoed, GbcWrites
<1>6. PromptGbcIsHeard'
  <2> SUFFICES ASSUME outA'.by = "known", ~late'
               PROVE  lag(gbsm_heartbeat', outA'.heartbeat) <= RoundTrip
    BY DEF PromptGbcIsHeard, lag
  <2>1. outA' = sm_buf_out /\ gbc_todo = {}
    BY DEF CycleServed, Copy
  <2>2. sm_buf_out.heartbeat = sm_buf_in /\ lag(gbsm_heartbeat, sm_buf_in) = 1
    BY <2>1 DEF Echoed, OneBehind
  <2> QED
    BY <1>3, <2>1, <2>2
<1> QED
  BY <1>1, <1>4, <1>5, <1>6

\* The other steps leave the heartbeat alone or find no buffer of this process.
LEMMA PromptStep ==
    ASSUME LinkTypeOK, TypeOK, PromptInv, LinkNext
    PROVE  PromptInv'
<1> USE DEF PromptInv, Known, OneBehind, Echoed, PromptGbcIsHeard
<1>1. CASE GbcCommand
  <2>1. /\ gbc_todo # {}
        /\ "heartbeat" \in gbc_todo <=> "heartbeat" \in gbc_todo'
        /\ sm_buf_out'.heartbeat = sm_buf_out.heartbeat
    BY <1>1 DEF GbcCommand, GbcWrites, LinkTypeOK, Buffers
  <2> QED
    BY <1>1, <2>1 DEF GbcCommand, vars, smVars, lag
<1>2. CASE GbcEcho
  <2>1. /\ sm_buf_out'.heartbeat = sm_buf_in /\ sm_buf_out'.by = sm_buf_out.by
        /\ gbc_todo # {}
    BY <1>2 DEF GbcEcho, LinkTypeOK, Buffers
  <2> QED
    BY <1>2, <2>1 DEF GbcEcho, vars, smVars, lag
<1>3. CASE GbcGoes
  <2>1. outA'.by # "known" /\ sm_buf_out'.by # "known"
    BY <1>3 DEF GbcGoes, Aged, LinkTypeOK, Buffers
  <2> QED
    BY <1>3, <2>1 DEF GbcGoes
<1>4. CASE GbcStarts
  BY <1>4 DEF GbcStarts
<1>5. CASE CycleServed
  BY <1>5, PromptServed
<1>6. CASE CycleConnects
  <2>1. gbc = "new" /\ outA'.by # "known" /\ sm_buf_out'.by # "known"
    BY <1>6 DEF CycleConnects, Copy, ZeroBuffer
  <2> QED
    BY <1>6, <2>1 DEF CycleConnects
<1>7. CASE CycleIdles
  <2>1. gbc # "known" /\ outA'.by # "known" /\ sm_buf_out'.by # "known"
    BY <1>7 DEF CycleIdles, Copy
  <2> QED
    BY <1>7, <2>1 DEF CycleIdles
<1> QED
  BY <1>1, <1>2, <1>3, <1>4, <1>5, <1>6, <1>7 DEF LinkNext, BusCycle

LEMMA PromptInvHolds == LinkSafeSpec => [](LinkTypeOK /\ TypeOK /\ PromptInv)
<1>1. LinkInit => LinkTypeOK /\ TypeOK /\ PromptInv
  <2> SUFFICES ASSUME LinkInit
               PROVE  PromptInv
    BY LinkTypeInit, TypeInit DEF LinkInit
  <2>1. gbc = "known" => gbc_connected
    BY DEF LinkInit
  <2>2. /\ gbc_todo = {}
        /\ sm_buf_out.by # "known" /\ outA.by # "known"
    BY DEF LinkInit, ZeroBuffer
  <2> QED
    BY <2>1, <2>2 DEF PromptInv, Known, OneBehind, Echoed, PromptGbcIsHeard
<1>2. LinkTypeOK /\ TypeOK /\ PromptInv /\ [LinkNext]_allVars => PromptInv'
  <2>1. ASSUME PromptInv, UNCHANGED allVars
        PROVE  PromptInv'
    BY <2>1
       DEF allVars, linkVars, vars, smVars, PromptInv, Known, OneBehind, Echoed,
           PromptGbcIsHeard, lag
  <2> QED
    BY <2>1, PromptStep
<1> QED
  BY <1>1, <1>2, LinkInductive, PTL DEF LinkSafeSpec

\* For every modulus and tolerance, the echo of a GBC that finishes its cycles
\* before the next signal is never more than two heartbeats old.
THEOREM PromptIsHeard == LinkSafeSpec => []PromptGbcIsHeard
<1>1. PromptInv => PromptGbcIsHeard
  BY DEF PromptInv
<1> QED
  BY <1>1, PromptInvHolds, PTL
-----------------------------------------------------------------------------
\* Why a new GBC process takes over drives at rest: its command can be in the
\* shared memory only after a signal, sent in a cycle that ran on the cleared
\* buffer.  Such a cycle leaves the drives stopping.
NewcomerWaits ==
    /\ gbc = "known" /\ sm_buf_out.by # "known" =>
          sm_buf_out.word.command = ZeroWord
    /\ gbc_todo # {} /\ outA.by # "known" => Stopping
    /\ sm_buf_out.by = "known" /\ outA.by # "known" => Stopping

LEMMA NewcomerServed ==
    ASSUME LinkTypeOK, TypeOK, TypeOK', MotionAuthority', QuickStopHolds',
           NewcomerWaits, CycleServed
    PROVE  NewcomerWaits'
<1>1. /\ gbc = "known" /\ gbc' = gbc
      /\ outA' = sm_buf_out /\ sm_buf_out' = sm_buf_out
      /\ HandleEvent(outA'.word)
  BY DEF CycleServed, Copy, RunMachine, step_ctrl_main
<1>2. CASE sm_buf_out.by = "known"
  BY <1>1, <1>2 DEF NewcomerWaits
<1>3. CASE sm_buf_out.by # "known"
  <2>1. outA'.word.command = ZeroWord
    BY <1>1, <1>3 DEF NewcomerWaits
  <2>2. Stopping'
    BY <1>1, <2>1, DisableStops
  <2> QED
    BY <1>1, <1>3, <2>1, <2>2 DEF NewcomerWaits
<1> QED
  BY <1>2, <1>3

LEMMA StoppingUnchanged == Stopping /\ UNCHANGED vars => Stopping'
  BY DEF Stopping, vars, drvVars

LEMMA NewcomerStep ==
    ASSUME LinkTypeOK, TypeOK, TypeOK', MotionAuthority', QuickStopHolds', Known,
           NewcomerWaits, LinkNext
    PROVE  NewcomerWaits'
<1>1. CASE GbcCommand
  <2>1. gbc_todo # {} /\ outA' = outA /\ UNCHANGED vars
    BY <1>1 DEF GbcCommand
  <2>2. sm_buf_out'.by = "known"
    BY <1>1 DEF GbcCommand, LinkTypeOK, Buffers
  <2> QED
    BY <2>1, <2>2, StoppingUnchanged DEF NewcomerWaits
<1>2. CASE GbcEcho
  <2>1. gbc_todo # {} /\ gbc' = gbc /\ outA' = outA /\ UNCHANGED vars
    BY <1>2 DEF GbcEcho
  <2>2. sm_buf_out'.by = sm_buf_out.by /\ sm_buf_out'.word = sm_buf_out.word
    BY <1>2 DEF GbcEcho, LinkTypeOK, Buffers
  <2> QED
    BY <2>1, <2>2, StoppingUnchanged DEF NewcomerWaits
<1>3. CASE GbcGoes
  <2>1. sm_buf_out'.by # "known"
    BY <1>3 DEF GbcGoes, Aged, LinkTypeOK, Buffers
  <2> QED
    BY <1>3, <2>1 DEF GbcGoes, NewcomerWaits
<1>4. CASE GbcStarts
  BY <1>4 DEF GbcStarts, Known, NewcomerWaits
<1>5. CASE CycleServed
  BY <1>5, NewcomerServed
<1>6. CASE CycleConnects
  <2>1. gbc_todo' = {} /\ sm_buf_out' = ZeroBuffer
    BY <1>6 DEF CycleConnects, Known
  <2>2. sm_buf_out'.by = "zero" /\ sm_buf_out'.word.command = ZeroWord
    BY <2>1 DEF ZeroBuffer
  <2> QED
    BY <2>1, <2>2 DEF NewcomerWaits
<1>7. CASE CycleIdles
  BY <1>7 DEF CycleIdles, Known, NewcomerWaits
<1> QED
  BY <1>1, <1>2, <1>3, <1>4, <1>5, <1>6, <1>7 DEF LinkNext, BusCycle

\* The first command of a process is copied in a cycle that is served.
LEMMA FirstCommand ==
    ASSUME LinkTypeOK, Known, LinkNext, outA'.by = "known", outA.by # "known"
    PROVE  CycleServed /\ sm_buf_out.by = "known"
<1>1. ~GbcGoes
  BY DEF GbcGoes, Aged, LinkTypeOK, Buffers
<1>2. ~(GbcCommand \/ GbcEcho \/ GbcStarts)
  BY DEF GbcCommand, GbcEcho, GbcStarts
<1>3. BusCycle /\ sm_buf_out.by = "known"
  BY <1>1, <1>2
     DEF LinkNext, BusCycle, CycleServed, CycleConnects, CycleIdles, Copy
<1> QED
  BY <1>3 DEF BusCycle, CycleConnects, CycleIdles, Known

LEMMA TakeOverStepHolds ==
    ASSUME LinkTypeOK, TypeOK, Known, NewcomerWaits, [LinkNext]_allVars
    PROVE  TakeOverStep
<1> SUFFICES ASSUME outA'.by = "known", outA.by # "known"
             PROVE  Moving' = {}
  BY DEF TakeOverStep
<1>1. LinkNext
  BY DEF allVars, linkVars
<1>2. CycleServed /\ sm_buf_out.by = "known"
  BY <1>1, FirstCommand
<1>3. Stopping /\ ReadInputs
  BY <1>2 DEF NewcomerWaits, CycleServed, RunMachine, step_ctrl_main
<1> QED
  BY <1>3, StoppingStops

\* A GBC that starts while drives are moving takes over a machine at rest, for
\* any number of drives, whatever the process before it left in the buffers, and
\* whenever it dies, starts or finishes its cycle; unless the word trn16 sends
\* by mistake happens to be the one for enabling, which two cycles of a quick
\* stop on the cleared buffer would then act on.
THEOREM NewcomerFindsRest ==
    EnableOperationEnum # "ENABLE_OPERATION" =>
        (LinkSafeSpec => TakesOverAtRest)
<1> SUFFICES ASSUME EnableOperationEnum # "ENABLE_OPERATION"
             PROVE  LinkSafeSpec => TakesOverAtRest
  OBVIOUS
<1>1. LinkSafeSpec => []MotionAuthority /\ []QuickStopInv
  <2>1. TypeOK /\ QuickStopInv /\ [Next]_vars => QuickStopInv'
    BY QuickStopInvStep DEF EnumeratorIsNoEnable
  <2>2. SafeSpec => []QuickStopInv
    BY <2>1, QuickStopInvInit, TypeCorrect, PTL DEF SafeSpec
  <2> QED
    BY <2>2, LinkDrivesTheMachine, MotionNeedsPermit, PTL DEF DrivesTheMachine
<1>2. LinkInit => NewcomerWaits
  BY DEF LinkInit, ZeroBuffer, NewcomerWaits
<1>3. /\ LinkTypeOK /\ TypeOK /\ PromptInv /\ NewcomerWaits
      /\ TypeOK' /\ MotionAuthority' /\ QuickStopInv'
      /\ [LinkNext]_allVars
      => NewcomerWaits'
  <2>1. ASSUME NewcomerWaits, UNCHANGED allVars
        PROVE  NewcomerWaits'
    BY <2>1, StoppingUnchanged DEF allVars, linkVars, NewcomerWaits
  <2> QED
    BY <2>1, NewcomerStep DEF PromptInv, QuickStopInv
<1>4. LinkTypeOK /\ TypeOK /\ PromptInv /\ NewcomerWaits /\ [LinkNext]_allVars
         => [TakeOverStep]_allVars
  BY TakeOverStepHolds DEF PromptInv
<1> QED
  BY <1>1, <1>2, <1>3, <1>4, PromptInvHolds, PTL DEF LinkSafeSpec, TakesOverAtRest
=============================================================================
