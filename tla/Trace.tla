-------------------------------- MODULE Trace --------------------------------
(***************************************************************************)
(* Hosts that run machines and commit to the runs: each names its machine   *)
(* (MachineSpecV1), binds the input, opens a MachineTraceV1, pushes the     *)
(* state and output of each tick and finishes.  The hosts share nothing:    *)
(* there are several of them so that their digests can be compared.         *)
(***************************************************************************)
EXTENDS Identity

CONSTANTS
  Hosts,
  Specs,      \* what MachineSpecV1::new may be given
  Inputs,     \* [width, ticks, bytes]: what machine_input_digest may be given
  Observed    \* [state, output]: what a tick may show

ASSUME HostInputsAssumption ==
  /\ Specs \subseteq MachineSpec
  /\ Inputs \subseteq [width : u32, ticks : Byte, bytes : Seq(Byte)]
  /\ Observed \subseteq [state : Seq(Byte), output : Seq(Byte)]

VARIABLES
  pc,              \* host -> "start", "named", "open", "done", "failed"
  spec, input,     \* host -> what it named and bound
  id, input_digest,
  root, expected_steps, next_step,    \* host -> its MachineTraceV1
  output_digest,   \* host -> its commitment to the output of the last tick
  error,           \* host -> the last error
  (* Auxiliary: what was pushed, and every value root has had.              *)
  history, chain

identity == <<spec, id>>
bound == <<input, input_digest, expected_steps>>
trace == <<root, next_step, history, chain>>
vars == <<pc, identity, bound, trace, output_digest, error>>

None == sha256v("none", <<>>, <<>>)
NoSpec == [circuit_id |-> 0, input_count |-> 0, output_count |-> 0,
           gate_count |-> 0, latch_count |-> 0]
NoInput == [width |-> 0, ticks |-> 0, bytes |-> <<>>]

Init ==
  /\ pc = [h \in Hosts |-> "start"]
  /\ spec = [h \in Hosts |-> NoSpec]
  /\ input = [h \in Hosts |-> NoInput]
  /\ id = [h \in Hosts |-> None]
  /\ input_digest = [h \in Hosts |-> None]
  /\ root = [h \in Hosts |-> None]
  /\ expected_steps = [h \in Hosts |-> 0]
  /\ next_step = [h \in Hosts |-> 0]
  /\ output_digest = [h \in Hosts |-> None]
  /\ error = [h \in Hosts |-> "none"]
  /\ history = [h \in Hosts |-> <<>>]
  /\ chain = [h \in Hosts |-> <<>>]

Fail(h, e) ==
  /\ error' = [error EXCEPT ![h] = e]
  /\ UNCHANGED <<pc, identity, bound, trace, output_digest>>

-----------------------------------------------------------------------------
(* MachineSpecV1::new, and machine_id of what it returns.                   *)
Name(h, s) ==
  /\ pc[h] = "start"
  /\ IF SpecError(s) # "none" THEN Fail(h, SpecError(s))
     ELSE /\ spec' = [spec EXCEPT ![h] = s]
          /\ id' = [id EXCEPT ![h] = machine_id(s)]
          /\ pc' = [pc EXCEPT ![h] = "named"]
          /\ UNCHANGED <<bound, trace, output_digest, error>>

DigestOf(m, in) == machine_input_digest(m, in.width, in.ticks, in.bytes)

FirstRoot(m, digest, steps) == sha256v("NDRYTRC1", <<m, digest, steps>>, <<>>)

(* MachineTraceV1::new.  Nothing compares the steps with the ticks that the *)
(* input digest was made for.                                               *)
New(h, in, steps) ==
  /\ pc[h] = "named"
  /\ IF steps = 0 THEN Fail(h, "EmptyTrace")
     ELSE LET digest == DigestOf(id[h], in)
              first == FirstRoot(id[h], digest, steps)
          IN  /\ input' = [input EXCEPT ![h] = in]
              /\ input_digest' = [input_digest EXCEPT ![h] = digest]
              /\ expected_steps' = [expected_steps EXCEPT ![h] = steps]
              /\ root' = [root EXCEPT ![h] = first]
              /\ chain' = [chain EXCEPT ![h] = <<first>>]
              /\ pc' = [pc EXCEPT ![h] = "open"]
              /\ UNCHANGED <<identity, next_step, history, output_digest, error>>

(* Slip: state and output are hashed without their lengths.                 *)
UnframedRoot(r, step, o) == sha256v("NDRYSTP1", <<r, step>>, o.state \o o.output)

(* A length is written as a u32: what does not fit is cut off.              *)
le_bytes(n) == <<n % (MAX_U32 + 1)>>
Framed(v) == le_bytes(Len(v)) \o v

NextRoot(r, step, o) == sha256v("NDRYSTP1", <<r, step>>, Framed(o.state) \o Framed(o.output))

Full(h) == next_step[h] >= expected_steps[h]

Push(h, o) ==
  /\ pc[h] = "open"
  /\ IF Full(h) THEN Fail(h, "TooManySteps")
     ELSE LET next == NextRoot(root[h], next_step[h], o)
          IN  /\ root' = [root EXCEPT ![h] = next]
              /\ chain' = [chain EXCEPT ![h] = Append(@, next)]
              /\ next_step' = [next_step EXCEPT ![h] = @ + 1]
              /\ history' = [history EXCEPT ![h] = Append(@, o)]
              /\ UNCHANGED <<pc, identity, bound, output_digest, error>>

(* Slip: some step is enough.                                               *)
AnyStep(h) == next_step[h] # 0

Complete(h) == next_step[h] = expected_steps[h]

(* finish takes the trace: there is no second try.                          *)
finish(h) ==
  /\ pc[h] = "open"
  /\ IF Complete(h)
     THEN /\ pc' = [pc EXCEPT ![h] = "done"]
          /\ UNCHANGED <<identity, bound, trace, output_digest, error>>
     ELSE /\ pc' = [pc EXCEPT ![h] = "failed"]
          /\ error' = [error EXCEPT ![h] = "IncompleteTrace"]
          /\ UNCHANGED <<identity, bound, trace, output_digest>>

LastOutput(h) == history[h][Len(history[h])].output

(* A host commits to the output of the last tick with a call of its own of  *)
(* nandry-ir, once its trace is finished.                                   *)
CommitOutput(h) ==
  /\ pc[h] = "done" /\ output_digest[h] = None
  /\ output_digest' = [output_digest EXCEPT ![h] =
       machine_output_digest(id[h], input_digest[h], spec[h].output_count, LastOutput(h))]
  /\ UNCHANGED <<pc, identity, bound, trace, error>>

Next ==
  \E h \in Hosts :
    \/ \E s \in Specs : Name(h, s)
    \/ \E in \in Inputs, steps \in Byte : New(h, in, steps)
    \/ \E o \in Observed : Push(h, o)
    \/ finish(h)
    \/ CommitOutput(h)

Spec == Init /\ [][Next]_vars

-----------------------------------------------------------------------------
(* Properties.                                                              *)

IsSequence(s) == s \in Seq({s[i] : i \in DOMAIN s})

(* Every variable keeps its type, and the step counter, a u8 incremented    *)
(* without a check, stays at or below the steps that were declared (line    *)
(* 71 of nandry-trace).                                                     *)
TypeOK ==
  /\ pc \in [Hosts -> {"start", "named", "open", "done", "failed"}]
  /\ spec \in [Hosts -> MachineSpec]
  /\ input \in [Hosts -> Inputs \cup {NoInput}]
  /\ expected_steps \in [Hosts -> Byte]
  /\ next_step \in [Hosts -> Byte]
  /\ \A h \in Hosts : next_step[h] <= expected_steps[h]
  /\ history \in [Hosts -> Seq(Observed)]
  /\ \A h \in Hosts : Len(history[h]) = next_step[h]
  /\ Hosts = DOMAIN id /\ Hosts = DOMAIN input_digest /\ Hosts = DOMAIN output_digest
  /\ Hosts = DOMAIN root /\ Hosts = DOMAIN chain
  /\ \A h \in Hosts : IsSequence(chain[h])

(* The lengths of what a host pushed fit the u32 that frames them; a vector *)
(* of a TSOL circuit has at most 2^21 bytes.                                *)
FitsU32(o) == Len(o.state) <= MAX_U32 /\ Len(o.output) <= MAX_U32
Fits(h) == \A i \in 1 .. Len(history[h]) : FitsU32(history[h][i])

SameBeginning(g, h, n) == \A i \in 1 .. n : history[g][i] = history[h][i]

(* Two roots, of any two hosts at any two moments, are equal only if the    *)
(* machine, the bound input, the declared steps, the number of steps taken  *)
(* and every state and output so far are: a step changed, dropped, repeated *)
(* or moved, or a byte moved from a state to its output, gives another root *)
(* (README: "Reordering, deleting, or modifying a step").                   *)
RootsBind ==
  \A g, h \in Hosts : Fits(g) /\ Fits(h) =>
    \A i \in 1 .. Len(chain[g]), j \in 1 .. Len(chain[h]) :
      chain[g][i] = chain[h][j] =>
        /\ i = j
        /\ id[g] = id[h]
        /\ input_digest[g] = input_digest[h]
        /\ expected_steps[g] = expected_steps[h]
        /\ SameBeginning(g, h, i - 1)

(* A root is handed out only for a trace of exactly the declared steps, and *)
(* then it names the run: equal roots mean the same circuit and counts, the *)
(* same input and ticks, and the same states and outputs in the same order. *)
SameRun(g, h) ==
  /\ spec[g] = spec[h]
  /\ input[g] = input[h]
  /\ history[g] = history[h]

FinishedRootsNameRuns ==
  /\ \A h \in Hosts : pc[h] = "done" => Len(history[h]) = expected_steps[h]
  /\ \A g, h \in Hosts :
       /\ pc[g] = "done" /\ pc[h] = "done" /\ root[g] = root[h]
       /\ Fits(g) /\ Fits(h)
       => SameRun(g, h)

(* Equal commitments to an output mean the same machine, the same input and *)
(* ticks, and the same output of the last tick.                             *)
OutputsBind ==
  \A g, h \in Hosts :
    output_digest[g] # None /\ output_digest[g] = output_digest[h]
    => spec[g] = spec[h] /\ input[g] = input[h] /\ LastOutput(g) = LastOutput(h)

(* What makes the properties above inductive: digests are what the code     *)
(* computes from what the host gave, and each root hangs on the one before. *)
Named(h) == pc[h] # "start"
Opened(h) == pc[h] \in {"open", "done", "failed"}

Digests ==
  \A h \in Hosts :
    /\ Named(h) => id[h] = machine_id(spec[h])
    /\ Opened(h) => input_digest[h] = DigestOf(id[h], input[h])
    /\ pc[h] = "done" => next_step[h] = expected_steps[h]
    /\ output_digest[h] # None =>
         /\ pc[h] = "done"
         /\ output_digest[h] = machine_output_digest(id[h], input_digest[h],
                                                     spec[h].output_count, LastOutput(h))

Chained ==
  \A h \in Hosts :
    IF Opened(h)
    THEN /\ Len(chain[h]) = next_step[h] + 1
         /\ chain[h][1] = FirstRoot(id[h], input_digest[h], expected_steps[h])
         /\ \A i \in 1 .. next_step[h] :
              chain[h][i + 1] = NextRoot(chain[h][i], i - 1, history[h][i])
         /\ root[h] = chain[h][next_step[h] + 1]
         /\ expected_steps[h] # 0
    ELSE chain[h] = <<>> /\ next_step[h] = 0

Inv == TypeOK /\ Digests /\ Chained /\ RootsBind

=============================================================================
