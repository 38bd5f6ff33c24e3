------------------------------- MODULE GbcLink -------------------------------
(***************************************************************************)
(* main.c: the real-time thread step_cyclic, and the shared memory and      *)
(* signal through which it talks to the GBC process.                        *)
(*                                                                         *)
(* While it believes GBC is there, the thread begins a bus cycle by copying *)
(* one buffer out of the shared memory and one into it and signalling GBC.  *)
(* The signal is how it learns that GBC has gone: then the state machine is *)
(* no longer run at all, and the connection is looked for every so many     *)
(* cycles.  A new connection clears the shared memory, but not outA, the    *)
(* thread's own copy of the last output.                                    *)
(*                                                                         *)
(* StepControl's bus cycle is called with the command and heartbeat found   *)
(* in outA.  GBC is external: it does one cycle of its own per signal, and  *)
(* its two writes that matter here race with the thread's copy.             *)
(***************************************************************************)
EXTENDS StepControl

CONSTANT CheckCycles  \* bus cycles between two looks for a lost connection

ASSUME CheckCyclesAssumption == CheckCycles \in Nat \ {0}

VARIABLES
    gbc,            \* the GBC process: "gone", "known" by its pid, or "new"
    gbc_todo,       \* what GBC still has to write in the cycle it is in
    gbc_connected,  \* what the thread believes
    sm_buf_out,     \* shared memory, GBC to here
    sm_buf_in,      \* shared memory, here to GBC: the heartbeat in it
    outA,           \* the thread's copy of sm_buf_out; dpm_out points to it
    check_tick,     \* cycles since the last look for a connection
    late            \* history: has this GBC process ever missed a signal?

linkVars == <<gbc, gbc_todo, gbc_connected, sm_buf_out, sm_buf_in, outA,
              check_tick, late>>
allVars == <<vars, linkVars>>

\* An output buffer: the machine word, the echoed heartbeat and, as a history
\* variable, whose command it holds: the "known" process's, an "old" one's that
\* has gone since, or nobody's ("zero").
Buffers == [word : Outputs, heartbeat : 0 .. HbModulus - 1,
            by : {"known", "old", "zero"}]

ZeroBuffer == [word |-> [command |-> ZeroWord, request_fault |-> FALSE],
               heartbeat |-> 0, by |-> "zero"]

\* A cleared buffer is an output like any other, and any echo may be found.
ASSUME LinkAssumption ==
    /\ ZeroBuffer.word \in Outputs
    /\ EchoLags = 0 .. HbModulus - 1

GbcWrites == {"word", "heartbeat"}

LinkTypeOK ==
    /\ gbc \in {"gone", "known", "new"}
    /\ gbc_todo \subseteq GbcWrites
    /\ gbc_connected \in BOOLEAN
    /\ sm_buf_out \in Buffers
    /\ sm_buf_in \in 0 .. HbModulus - 1
    /\ outA \in Buffers
    /\ check_tick \in 0 .. CheckCycles - 1
    /\ late \in BOOLEAN

\* main() has tried once to connect before it starts the thread.
LinkInit ==
    /\ Init
    /\ gbc \in {"gone", "known", "new"}
    /\ gbc_connected = (gbc = "known")
    /\ gbc_todo = {}
    /\ sm_buf_out = ZeroBuffer
    /\ sm_buf_in = 0
    /\ outA = ZeroBuffer
    /\ check_tick = 0
    /\ late = FALSE
-----------------------------------------------------------------------------
\* GBC, driven by the signal: it copies its output into the shared memory, in
\* no particular order as far as the thread's copy is concerned.
GbcCommand ==
    /\ "word" \in gbc_todo
    /\ gbc_todo' = gbc_todo \ {"word"}
    /\ \E out \in Outputs :
          sm_buf_out' = [sm_buf_out EXCEPT !.word = out, !.by = "known"]
    /\ UNCHANGED <<vars, gbc, gbc_connected, sm_buf_in, outA, check_tick, late>>

GbcEcho ==
    /\ "heartbeat" \in gbc_todo
    /\ gbc_todo' = gbc_todo \ {"heartbeat"}
    /\ sm_buf_out' = [sm_buf_out EXCEPT !.heartbeat = sm_buf_in]
    /\ UNCHANGED <<vars, gbc, gbc_connected, sm_buf_in, outA, check_tick, late>>

\* What the process leaves behind when it goes is an old process's.
Aged(buffer) == [buffer EXCEPT !.by = IF @ = "known" THEN "old" ELSE @]

GbcGoes ==
    /\ gbc # "gone"
    /\ gbc' = "gone"
    /\ gbc_todo' = {}
    /\ sm_buf_out' = Aged(sm_buf_out)
    /\ outA' = Aged(outA)
    /\ late' = FALSE
    /\ UNCHANGED <<vars, gbc_connected, sm_buf_in, check_tick>>

GbcStarts ==
    /\ gbc = "gone"
    /\ gbc' = "new"
    /\ UNCHANGED <<vars, gbc_todo, gbc_connected, sm_buf_out, sm_buf_in, outA,
                   check_tick, late>>
-----------------------------------------------------------------------------
\* memcpy of both buffers; inA, to which dpm_in points, holds the heartbeat of
\* the last cycle that ran.
Copy ==
    IF gbc_connected THEN outA' = sm_buf_out ELSE UNCHANGED outA

\* ms_tick, seen through the modulus of the connection check.  Mutant: the
\* modulus is one too large.
CountCycleLong == check_tick' = (check_tick + 1) % (CheckCycles + 1)
CountCycle == check_tick' = (check_tick + 1) % CheckCycles

\* Mutant: the flag is tested against the interval and not its multiples.
time_to_check_gbcNever == check_tick' = CheckCycles
time_to_check_gbc == check_tick' = 0

\* The state machine is run on what outA holds now.
RunMachine ==
    /\ step_ctrl_main(outA'.word)
    /\ gbc_heartbeat' = outA'.heartbeat

\* Mutant of CycleServed: GBC is sent the heartbeat of one cycle before.
CycleServedStale ==
    /\ gbc_connected /\ gbc = "known"
    /\ CountCycle
    /\ Copy
    /\ sm_buf_in' = (gbsm_heartbeat + HbModulus - 1) % HbModulus
    /\ gbc_todo' = GbcWrites
    /\ late' = (late \/ gbc_todo # {})
    /\ RunMachine
    /\ UNCHANGED <<gbc, gbc_connected, sm_buf_out>>

\* Connected, and the signal reaches the process.
CycleServed ==
    /\ gbc_connected /\ gbc = "known"
    /\ CountCycle
    /\ Copy
    /\ sm_buf_in' = gbsm_heartbeat
    /\ gbc_todo' = GbcWrites
    /\ late' = (late \/ gbc_todo # {})
    /\ RunMachine
    /\ UNCHANGED <<gbc, gbc_connected, sm_buf_out>>

\* Mutant of CycleConnects: the output buffer is not cleared.
CycleConnectsUncleared ==
    /\ ~(gbc_connected /\ gbc = "known")
    /\ CountCycle
    /\ time_to_check_gbc
    /\ gbc = "new"
    /\ Copy
    /\ gbc' = "known"
    /\ gbc_connected' = TRUE
    /\ sm_buf_in' = 0
    /\ RunMachine
    /\ UNCHANGED <<gbc_todo, sm_buf_out, late>>

\* establish_shared_mem_and_signal_con finds a process: the shared memory is
\* cleared and the machine is run at once.
CycleConnects ==
    /\ ~(gbc_connected /\ gbc = "known")
    /\ CountCycle
    /\ time_to_check_gbc
    /\ gbc = "new"
    /\ Copy
    /\ gbc' = "known"
    /\ gbc_connected' = TRUE
    /\ sm_buf_out' = ZeroBuffer
    /\ sm_buf_in' = 0
    /\ RunMachine
    /\ UNCHANGED <<gbc_todo, late>>

\* Mutant of CycleIdles: the heartbeat goes on without a connection.
CycleIdlesBeating ==
    /\ ~(gbc_connected /\ gbc = "known")
    /\ CountCycle
    /\ ~(time_to_check_gbc /\ gbc = "new")
    /\ Copy
    /\ gbc_connected' = FALSE
    /\ sm_buf_in' = IF gbc_connected THEN gbsm_heartbeat ELSE sm_buf_in
    /\ gbsm_heartbeat' = (gbsm_heartbeat + 1) % HbModulus
    /\ UNCHANGED <<drvVars, current_state, cycle_count, reset_in_progress,
                   gbc_heartbeat, machine_word, active_fault_word,
                   fault_history_word, gbc, gbc_todo, sm_buf_out, late>>

\* Not connected, or not any more: nothing of the controller runs.
CycleIdles ==
    /\ ~(gbc_connected /\ gbc = "known")
    /\ CountCycle
    /\ ~(time_to_check_gbc /\ gbc = "new")
    /\ Copy
    /\ gbc_connected' = FALSE
    /\ sm_buf_in' = IF gbc_connected THEN gbsm_heartbeat ELSE sm_buf_in
    /\ UNCHANGED <<vars, gbc, gbc_todo, sm_buf_out, late>>

BusCycle == CycleServed \/ CycleConnects \/ CycleIdles

LinkNext == GbcCommand \/ GbcEcho \/ GbcGoes \/ GbcStarts \/ BusCycle

\* The thread is scheduled SCHED_FIFO and sleeps to absolute times: it never
\* stops making cycles.  GBC owes nothing.
LinkSafeSpec == LinkInit /\ [][LinkNext]_allVars
LinkSpec == LinkSafeSpec /\ WF_allVars(BusCycle)
-----------------------------------------------------------------------------
\* With the link in front of it the controller is still the StepControl that
\* everything else here is shown of.
DrivesTheMachine == SafeSpec

\* A GBC that starts while drives are moving takes over a machine at rest: when
\* its first command is acted on no drive is enabled, although the cycle of the
\* connection itself still acts on the last command of the process before it.
TakeOverStep == (outA'.by = "known" /\ outA.by # "known") => Moving' = {}
TakesOverAtRest == [][TakeOverStep]_allVars

\* The round trip of the heartbeat takes two cycles: once the first command of a
\* GBC is in that has finished its own cycle whenever the next signal came, its
\* echo is never older, and a tolerance of two would do.
RoundTrip == 2
PromptGbcIsHeard ==
    (outA.by = "known" /\ ~late) =>
        lag(gbsm_heartbeat, outA.heartbeat) <= RoundTrip

\* A GBC process that stays is connected to in the end, whatever came before.
ConnectsAgain == (<>[](gbc # "gone")) => <>[]gbc_connected
=============================================================================
