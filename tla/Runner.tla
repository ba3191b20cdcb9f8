------------------------------- MODULE Runner -------------------------------
(***************************************************************************)
(* The host CpuMachine of nandry-circuits over some CPU: it fetches words   *)
(* from the program of each call, ticks the CPU, collects what OUT shows    *)
(* and gives up at the tick limit.  One action is one call of step, or one  *)
(* pass of the loop of run_until_halt or run_until_outputs.  The CPU keeps  *)
(* its state from call to call, and a call may bring another program.       *)
(***************************************************************************)
EXTENDS Instructions, FiniteSets

CONSTANTS
  ResetState,     \* the CPU with every latch false
  Tick(_, _),     \* the CPU after a tick with a word on its inputs
  Pc(_), Halted(_), Out(_),   \* what the host reads from the state
  Sessions        \* for each session, the calls its callers choose from (calls)
                  \* and how many they make at most (length)

CallRecord ==
  [kind : {"step", "run_until_halt", "run_until_outputs"}, program : Seq(Nat),
   count : Nat, limit : Nat]

ASSUME SessionsAssumption ==
  \A s \in DOMAIN Sessions :
    Sessions[s].calls \subseteq CallRecord /\ Sessions[s].length \in Nat

VARIABLES
  session,        \* the session the callers are in
  cpu, ticks,     \* CpuMachine.state and CpuMachine.ticks
  fits,           \* whether the circuit takes the 16 bits of a word
  call,           \* the call in progress, or the last one
  passes,         \* passes of its loop so far
  outputs,        \* its local outputs
  result,         \* "running", or what it returned
  (* Auxiliary: calls so far, the states of the CPU since the call began,   *)
  (* what it has shown since reset, what callers got in Ok, and whether a   *)
  (* call has dropped what it had collected.                                *)
  calls, path, shown, given, dropped

machine == <<cpu, ticks, path, shown>>
callers == <<session, fits, calls, call>>
vars == <<machine, callers, passes, outputs, result, given, dropped>>

Idle == [kind |-> "none", program |-> <<>>, count |-> 0, limit |-> 0]

(* Calls of the three methods with these arguments.                         *)
StepCalls(programs) ==
  [kind : {"step"}, program : programs, count : {0}, limit : {0}]
HaltCalls(programs, limits) ==
  [kind : {"run_until_halt"}, program : programs, count : {0}, limit : limits]
OutputsCalls(programs, counts, limits) ==
  [kind : {"run_until_outputs"}, program : programs, count : counts, limit : limits]

Init ==
  /\ session \in DOMAIN Sessions
  /\ cpu = ResetState /\ ticks = 0
  /\ fits \in BOOLEAN
  /\ call = Idle /\ passes = 0 /\ outputs = <<>> /\ result = "Ok"
  /\ calls = 0 /\ path = <<ResetState>> /\ shown = <<>> /\ given = <<>> /\ dropped = FALSE

Calls == Sessions[session].calls
MaxCalls == Sessions[session].length

(* Slip: the outputs of the last call are still there.                      *)
CallAfterOthers(c) ==
  /\ result # "running" /\ calls < MaxCalls
  /\ calls' = calls + 1
  /\ call' = c /\ passes' = 0 /\ result' = "running"
  /\ path' = <<cpu>>
  /\ UNCHANGED <<session, cpu, ticks, fits, shown, given, dropped, outputs>>

Call(c) ==
  /\ result # "running" /\ calls < MaxCalls
  /\ calls' = calls + 1
  /\ call' = c /\ passes' = 0 /\ outputs' = <<>> /\ result' = "running"
  /\ path' = <<cpu>>
  /\ UNCHANGED <<session, cpu, ticks, fits, shown, given, dropped>>

-----------------------------------------------------------------------------
(* The word at the program counter; past the end of the program, HLT.       *)
Fetch(program, pc) == IF pc < Len(program) THEN program[pc + 1] ELSE HLT

Fetched == Fetch(call.program, Pc(cpu))

(* Slip: what was shown before the tick.                                    *)
ShownBefore(word, next) == IF opcode(word) = OUT THEN <<Out(cpu)>> ELSE <<>>

(* What step returns after its tick: the new content of the output latches  *)
(* if the word was an OUT.                                                  *)
Shown(word, next) == IF opcode(word) = OUT THEN <<Out(next)>> ELSE <<>>

(* step: a halted machine returns without a tick, and the machine of a      *)
(* circuit of another width fails before anything has changed.              *)
StepHalts == Halted(cpu)
StepFails == ~Halted(cpu) /\ ~fits
StepTicks == ~Halted(cpu) /\ fits

Advance ==
  LET next == Tick(cpu, Fetched)
  IN  /\ cpu' = next
      /\ ticks' = ticks + 1
      /\ path' = Append(path, next)
      /\ shown' = shown \o Shown(Fetched, next)

(* The call returns, and its caller gets the outputs only with Ok.          *)
Return(r, collected) ==
  /\ result' = r
  /\ outputs' = collected
  /\ given' = IF r = "Ok" THEN given \o collected ELSE given
  /\ dropped' = (dropped \/ (r # "Ok" /\ collected # <<>>))

Continue(collected) ==
  /\ outputs' = collected
  /\ UNCHANGED <<result, given, dropped>>

-----------------------------------------------------------------------------
Step ==
  /\ result = "running" /\ call.kind = "step"
  /\ UNCHANGED <<callers, passes>>
  /\ \/ StepHalts /\ UNCHANGED machine /\ Return("Ok", <<>>)
     \/ StepFails /\ UNCHANGED machine /\ Return("Vm", <<>>)
     \/ StepTicks /\ Advance /\ Return("Ok", Shown(Fetched, cpu'))

GiveUp(kind) ==
  /\ result = "running" /\ call.kind = kind
  /\ passes = call.limit
  /\ UNCHANGED <<machine, callers, passes>>
  /\ Return("TickLimit", outputs)

(* Slip: one pass too many; a pass that is not counted.                     *)
PassTooMany(kind) ==
  /\ result = "running" /\ call.kind = kind
  /\ passes <= call.limit
  /\ passes' = passes + 1
  /\ UNCHANGED callers

PassUncounted(kind) ==
  /\ result = "running" /\ call.kind = kind
  /\ passes < call.limit
  /\ UNCHANGED <<passes, callers>>

Pass(kind) ==
  /\ result = "running" /\ call.kind = kind
  /\ passes < call.limit
  /\ passes' = passes + 1
  /\ UNCHANGED callers

HaltPass ==
  /\ Pass("run_until_halt")
  /\ \/ StepHalts /\ UNCHANGED machine /\ Return("Ok", outputs)
     \/ StepFails /\ UNCHANGED machine /\ Return("Vm", outputs)
     \/ StepTicks /\ Advance /\ Continue(outputs \o Shown(Fetched, cpu'))

(* Slip: the count is not looked at.                                        *)
AnyOutput(collected) == TRUE

(* The outputs are counted only when one was pushed.                        *)
Enough(collected) == Len(collected) = call.count

OutputsPass ==
  /\ Pass("run_until_outputs")
  /\ \/ StepHalts /\ UNCHANGED machine /\ Continue(outputs)
     \/ StepFails /\ UNCHANGED machine /\ Return("Vm", outputs)
     \/ /\ StepTicks /\ Advance
        /\ LET more == Shown(Fetched, cpu')
           IN  IF more # <<>> /\ Enough(outputs \o more)
               THEN Return("Ok", outputs \o more)
               ELSE Continue(outputs \o more)

Run == Step \/ HaltPass \/ OutputsPass \/ GiveUp("run_until_halt") \/ GiveUp("run_until_outputs")

Next == Run \/ \E c \in Calls : Call(c)

Spec == Init /\ [][Next]_vars /\ WF_vars(Run)

-----------------------------------------------------------------------------
(* Properties.                                                              *)

Last == path[Len(path)]
TicksOfCall == Len(path) - 1
Running == result = "running"

(* What OUT showed along the states of a call.                              *)
ShownAlong ==
  LET upto[n \in 0 .. TicksOfCall] ==
        IF n = 0 THEN <<>>
        ELSE IF opcode(Fetch(call.program, Pc(path[n]))) = OUT
             THEN Append(upto[n - 1], Out(path[n + 1]))
             ELSE upto[n - 1]
  IN  upto[TicksOfCall]

(* A loop never makes more passes than its limit, nor more ticks than       *)
(* passes, and collects at most one value for a tick.                       *)
TypeOK ==
  /\ call \in Calls \cup {Idle}
  /\ result \in {"running", "Ok", "Vm", "TickLimit"}
  /\ calls \in 0 .. MaxCalls
  /\ ticks \in Nat
  /\ passes \in 0 .. call.limit
  /\ Len(outputs) <= TicksOfCall
  /\ TicksOfCall <= (IF call.kind = "step" THEN 1 ELSE passes)
  /\ dropped \in BOOLEAN
  /\ path # <<>> /\ Last = cpu

(* run_until_halt returns Ok exactly when the program halts in fewer ticks  *)
(* than the limit, with everything shown on the way; TickLimit means that   *)
(* every pass was a tick, the last of which may have been the HLT (line 96).*)
HaltRunIsExact ==
  call.kind = "run_until_halt" =>
    /\ outputs = ShownAlong
    /\ \A i \in 1 .. Len(path) - 1 : ~Halted(path[i])
    /\ result = "Ok" => Halted(Last) /\ TicksOfCall < call.limit
    /\ result = "TickLimit" => TicksOfCall = call.limit

(* run_until_outputs returns Ok right after the tick that showed the last   *)
(* value asked for and never earlier; it ends at its limit only if fewer    *)
(* were shown, because the ticks ran out or the machine halted, or if none  *)
(* were asked for (line 114).                                               *)
OutputsRunIsExact ==
  call.kind = "run_until_outputs" =>
    /\ outputs = ShownAlong
    /\ result = "Ok" =>
         /\ Len(outputs) = call.count
         /\ opcode(Fetch(call.program, Pc(path[TicksOfCall]))) = OUT
    /\ result = "TickLimit" =>
         /\ TicksOfCall = call.limit \/ Halted(Last)
         /\ Len(outputs) < call.count \/ call.count = 0

(* As long as no call has failed with outputs in its hands, the callers     *)
(* have been given everything the machine has shown since reset, once and   *)
(* in order, however the run was cut into calls.                            *)
NothingLost ==
  ~dropped => shown = IF Running THEN given \o outputs ELSE given

(* Every call returns.                                                      *)
CallReturns == Running ~> ~Running

=============================================================================
