# Nandry core in TLA+

TLA+ modules for `nandry-core`: a bytecode (TSOL v1) for sequential NAND
circuits, the virtual machine that runs it, the compilers that produce it, a CPU
built from it and the host that runs it, and the digests that name machines and
runs.  The modules are model-checked with TLC on small instances; the theorems
hold for every value of the constants and are checked by TLAPS.  Paths below are relative to the
repository.

## 1. The system

All of it is sequential Rust, in six crates.  Nothing runs concurrently, nothing
is persisted; what is hard is that several passes over the same bytes, each with
counters of its own, have to agree, that buffers are reused, and that the
promise ("all latches commit at once", "the same graph gives the same bytes") is
about the whole while the code works item by item.  Where parts meet, what hurts
is the order of calls: handles of one builder used on another, run loops cut into
several calls, a trace fed by a host, a page that carries the state itself.

| Component | State it keeps | Operations | Talks to |
|---|---|---|---|
| Decoder, `nandry-vm` `CircuitView::parse`, `GateIter` | a view: the slice, the header, two offsets; an iterator: cursor and items left | `parse` (layout, outputs, gates), `output_signal`, `gates().next` | every other part: the only way to a circuit |
| VM step, `nandry-vm` `CircuitView::step` | none of its own: five buffers of the caller | `step`, `read_bit`, `write_bit`, `bit_bytes` | reads records through `GateIter` |
| Netlist encoder, `nandry-compiler` `encode_netlist` | counters, the bytes written | `encode_netlist` | ends in `CircuitView::parse` |
| Graph compiler, `nandry-compiler` `encode_circuit_graph` | two maps, the ready set, the order, signal numbers | `encode_circuit_graph`, `topological_nand_order` | ends in `encode_netlist` |
| Identities, `nandry-ir` | none | `MachineSpecV1::new`, `canonical_bytes`, `machine_id`, input and output digests | called by verifiers, with counts they took from a view |
| Trace, `nandry-trace` `MachineTraceV1` | root, expected and next step | `new`, `push`, `finish` | hashes with `nandry-ir`; a host pushes after each tick |
| Builder, `nandry-circuits` `Builder` | input count and gates so far | `nand`, `latch`, `set_latch_d`, `finish` | ends in `encode_netlist` |
| Gate library, `logic.rs` | none | gates, adders, multiplexers on a `Builder` | the CPU |
| CPU, `cpu.rs` | 51 latches of a circuit | one instruction per tick | built with the library, run by the runner |
| Runner, `CpuMachine` | state, scratch, next state, output, ticks | `step`, `run_until_halt`, `run_until_outputs` | `CircuitView::step`, then copies `next_state` over `state` |
| Programs, `programs.rs` | none | three programs | the runner |
| Browser bindings, `nandry-wasm` | none | JSON in and out, one step on bytes | compiler and VM |

What makes each correct:

- **Decoder**: accepts a slice exactly when it is the encoding of a valid
  circuit; the second, unchecked, decoding of a record sees what the first one
  checked; it ends on every slice.
- **VM step**: a call that returns Ok is a tick of a synchronous machine, for any
  leftover contents of the buffers; a call that fails does so before it has
  written to a buffer.
- **Encoder**: what it returns decodes to what it was given; it never makes bytes
  that its own final parse refuses; it refuses only what has no encoding.
- **Graph compiler**: the bytes depend on the graph and not on its listing; the
  circuit computes what the graph says; it refuses exactly the graphs that are
  not wired, loop through NANDs, or do not fit.
- **Identities and trace**: the root binds machine, input, number of ticks and
  every state and output in order; no root for an incomplete trace.
- **Builder**: handles rewire only the latch they were made for; `finish` refuses
  exactly the circuits that have no encoding; what it encodes is what was asked
  for.
- **Library, CPU, runner, programs**: gates compute arithmetic on bytes; the
  circuit executes the instruction set; the runner reports every output of a run
  once and in order; the programs compute their functions.
- **Browser bindings**: compiling, describing and stepping on bytes, with output
  and state joined in one array, is the machine of the circuit on the page.

## 2. Modules

| Module | Models | How |
|---|---|---|
| `Tsol` | `Header`, `Gate`, what `parse` guarantees (`Valid`), what it means for signals to satisfy all gates (`Settled`) | data, no state |
| `Bits` | packed bit vectors: `bit_bytes`, `read_bit`, `write_bit` | a length in bytes and the set of positions that are one |
| `Machine` | **abstract**: the synchronous machine | one action `Tick(in)`: pick the settled valuation, replace all latches, show the outputs |
| `VmStep` | `CircuitView::step` called again and again by a host | one action per loop iteration; `Begin`, `Reject`, `Return` are entry and exits |
| `Limits` | the limits of a file and the sizes of its parts | constants |
| `Format` | TSOL files as bytes; `WellFormed` and `Reading` say the format without scanning | data, no state |
| `Decoder` | `parse` and then one run of `GateIter` | one action per loop iteration and per kind of record |
| `NetlistRules` | the rules of `encode_netlist` as a function of the netlist: `EncodeError`; and **abstract**: `Encodable` | data, no state |
| `NetlistBytes` | the bytes it writes for a netlist that passes: `Encoded` | data, no state |
| `Encoder` | `encode_netlist`, loop by loop | `CheckCounts`, `CheckGate`, `WriteHeader`, `PushOutput`, `PushGate`, `Parse` |
| `CircuitGraph` | the graph, and **abstract**: the circuit it stands for (`CanonicalCircuit`), from sets and not from lists | data, no state |
| `GraphCompiler` | `encode_circuit_graph`; the sort takes one step per NAND | `CollectNodes`, `CollectConnections`, `CheckDrivers`, `StartOrder`, `PopFirst`, `EndOrder`, `Number` |
| `Identity` | `MachineSpecV1` and the three digests of `nandry-ir` | a digest is the framed byte string it hashes |
| `Trace` | hosts that name a machine and commit to a run: `MachineTraceV1::new`, `push`, `finish`, `machine_output_digest` | one action per call, several hosts |
| `Builder` | `Builder::new`, `nand`, `latch`, `set_latch_d`, `finish`, on several builders and all handles | one action per call |
| `Words`, `Logic`, `Arithmetic` | the gate library, on words of `W` bits; what its adder promises | functions, every gate down to its NANDs |
| `Instructions` | the instruction words; **abstract**: `Execute`, what a word does to a machine, as arithmetic | functions |
| `CpuCircuit`, `Cpu` | the datapath of `build_cpu` as a function of its latches and inputs (`tick`); a host that puts any word on the inputs | one action, a tick |
| `Runner` | `CpuMachine::step`, `run_until_halt`, `run_until_outputs` over an abstract CPU | one action per call of `step` or pass of a loop |
| `Programs` | the three programs of `programs.rs`, run by `Runner` on `Execute` | data |
| `CpuMachine` | `Runner` on the circuit; refines `Runner` on the instruction set | composition |
| `Wasm` | the three calls of `nandry-wasm` under a page that keeps bytes and state | one action per call |
| `*Proofs` | theorems | section 5 |
| `MC*` | instances for TLC | section 3 |

How they compose.  `Decoder` shows that `parse` accepts exactly `WellFormed` and
that a view is `Valid`; `VmStep` assumes `Valid` of its circuits; `Encoder` ends
in the predicate `WellFormed` and shows its loops to return what `NetlistRules`
says of the netlist; `GraphCompiler`, `Builder` and `Wasm`, which call
`encode_netlist`, use that outcome.  `Wasm` closes the circle: netlist to bytes
to view to step is `Machine`.  On the other side `CpuCircuit` is compared with
`Execute`, tick by tick in `Cpu` and run by run in `CpuMachine`; `Programs` runs on
`Execute`; `Trace` stands beside a host.

### Correspondence with the code

`VmStep`.  Variables have the names of the parameters and locals of `step`; `pc`
says which of its loops runs and `cursor` is that loop's counter.  The host is
`CpuMachine::step`: the same buffers are passed every time and `Return` copies
`next_state` over `state`.  Buffers may start with any length and contents.
`Begin` is everything between the checks and the first loop.  A call can still
end after it (`Abort`): an index into scratch is checked by Rust and panics (lines
262, 269, 277 and 285), and `output_signal` may return `None` (line 284).  The
buffers then stay as they are, half-written.  `result` and `returned` are what the
caller sees.

`Decoder`.  A file is its header fields and the bytes after them.  Magic,
version, flags and reserved bytes are one field, `signature`, that names the
first of them that is wrong: the code compares them with constants and forgets
them.  All arithmetic that the code checks is written with its limit, `MAX_U32`
or `USIZE_MAX`.  A gate that fails two tests reports the first one's error; the
numbers inside an error value are left out.

`Encoder`.  `bytes` is a file in the same form, built field by field.  The final
`parse` is the predicate `WellFormed`: that this is what `parse` decides is the
theorem `ParseIsExact`.

`GraphCompiler`.  Identifiers are numbers in the order of the strings they stand
for, 0 being the empty one.  A loop that returns at its first error is the
sequence of errors its elements would give (`FirstError`).  Maps are functions.
The final `encode_netlist` is its outcome, `EncodeError`, with every error it has.

`Identity`, `Trace`.  SHA-256 is taken to be injective, so a digest *is* the byte
string under it: an eight-byte domain, the fields of fixed width as a tuple, and
the bytes of variable length.  What is not given away by that: the length frames
of `push` are written as bytes, modulo 2^32.  The circuit digest is a number, and
the counts of a specification are claims of its caller, as in the code.  `finish`
only compares the counts.  Committing to an output is a call of `nandry-ir` that
nothing in the repository but its tests makes; `CommitOutput` is a host that makes
it for the last output of a finished trace.
`history` and `chain` record what was pushed and every root there was.

`Builder`.  A handle is a gate index and a signal and does not know its builder;
`owner` is an auxiliary field.  The casts of a length to u32 truncate (`AsU32`);
the sum of `push_gate` does not wrap, because `Cargo.toml:24` checks overflow in
release builds too: `PushPanics` is the panic, which comes before the gate is
pushed, and after which a client that catches it may go on.  `finish` is its own checks followed by those of
`encode_netlist`, and `map_compile_error` maps what comes out.  `meant` and
`careful` are the client's own notes: the gate it asked for under each signal it
was handed, and whether it kept to the order of calls the API means.

`Logic`, `CpuCircuit`.  Each function of the library computes what the NANDs it
pushes compute; the numbering of pushed gates is `Builder`'s subject.  Latches are
the state bits in the order of the code, for words of `W` bits where the code has
8: the offsets in `CpuCircuit` give 51 latches for `W = 8`.  `tick` follows
`build_cpu` from the decoded opcode to the inputs of the latches.

`Runner`.  The CPU is four constants: the reset state, a tick, and what the host
reads from it (program counter, halt, output).  `fits` says whether the machine's
circuit has the 16 inputs of a word, the one thing that makes the virtual machine
refuse a tick.  A call fetches, ticks and collects in one pass; `outputs` is the
local vector, dropped by the code when a call ends in an error.  `path`, `shown`,
`given` and `dropped` are auxiliary: the states since the call began, all that OUT
has shown, all that callers got, and whether a call has dropped values.

`Wasm`.  Bytes, description and state live in the page; each call parses the bytes
again.  JSON is left out, and so is the text of errors.
`encode_circuit_graph_json` starts from the netlist a graph becomes: from graph to
netlist is `GraphCompiler`'s subject.

Definitions marked *slip* in a comment are not part of the model: each is a
variant of the definition below it that has a plausible mistake in it, and shows
that the properties notice.

## 3. Runs

| Run | Checks | Instance |
|---|---|---|
| `vm_step` | `OnlySolution`, `Inv`, `ImplementsMachine`, `FailedCallTouchesNothing`, `CallReturns` | two of the golden vectors, two latches that swap, a toggle, a three-bit shift register, constants without gates; and the wirings of one latch and one NAND; buffers of every length, full of ones |
| `vm_step_padding` | `PaddingIsZero`: **violated** | as `vm_step` |
| `decoder` | `AcceptsExactly`, `ViewIsValid`, `Inv`, `ParseEnds` | every tail of up to 7 bytes under small headers, every edit of six encodings, counts at the limits, cut and mis-signed headers |
| `encoder` | `RoundTrip`, `RefusesExactly`, `ReturnsAsTheRules` | every netlist of up to two gates over six signals, signals around the u24 limit, bodies around the u32 and usize limits |
| `graph_compiler` | `Inv`, `IsCanonical`, `RefusesExactly`, `SameMachine`, `CompileEnds` | 1024 wirings of three NANDs, 500 with a latch, all orders of one list, every edit of two graphs, graphs on both sides of each limit |
| `graph_compiler_ports` | `SourcePortsAreOut`: **violated** | as `graph_compiler` |
| `trace` | `RootsBind`, `FinishedRootsNameRuns`, `OutputsBind`, `Inv` | two hosts, three specifications (one refused), two inputs, all splits of short strings into state and output that leave one of them empty |
| `builder` | `HandlesHold`, `FinishIsExact`, `BuildsWhatWasMeant`, `CarefulBuildSucceeds`, `SignalsAreTheirOwn` | two builders, up to three gates each, every handle on either; input counts from which three gates fill the signals, pass them, and pass u32 |
| `cpu` | `TickIsExecute`, `HaltStays` | `W = 1`: every state the circuit can reach, under every word |
| `cpu_machine` | `ArithmeticIsExact`, `ImplementsIsa` | `W = 8`: the programs of the repository's tests, one with the other words, one empty |
| `runner` | `TypeOK`, `HaltRunIsExact`, `OutputsRunIsExact`, `NothingLost`, `ProgramsCompute`, `CallReturns` | `W = 4`: up to three calls of every kind with four programs, limits 0 to 5, counts 0 to 2; and one call of each program of the repository for every pair of operands |
| `wasm` | `DescribesWhatWasCompiled`, `StateComesBack`, `ImplementsMachine` | six netlists, one that cannot be compiled; every input and state of up to two bytes |

What they show, beyond the tests of the repository:

- `ImplementsMachine` is a refinement: `Machine` with the one bits of `state` for
  its latches and the last returned outputs for its outputs.  It covers the
  simultaneous commit, reused buffers, and zero padding in what `step` writes.
- `OnlySolution` says why one pass suffices: after it scratch is the *only*
  valuation that satisfies every gate.
- `AcceptsExactly` compares the scan with a format stated by offsets, so a
  record misjudged by one pass cannot hide in both.
- `RefusesExactly` of `Encoder` compares its loops with `Encodable`, which knows
  nothing of an order of checks; `ReturnsAsTheRules` fixes which error wins.
- `IsCanonical` compares the worklist with "the lexicographically least
  topological order", stated without a worklist; `RefusesExactly` compares the
  count at the end of the sort with "some set of NANDs each reads another of the
  set" and the errors of `encode_netlist` with the sizes of the file the graph
  becomes (`Fits`); `SameMachine` compares settled valuations of graph and circuit.
- `RootsBind` compares *any* two roots of any two hosts at any two moments: no
  step can be changed, dropped, repeated or moved, and no byte moved between state
  and output, under one root.  It asks that vectors fit the u32 that frames them
  (`Fits`): the instance has vectors that do not, and without `Fits` it is false.
- `FailedCallTouchesNothing` says that the only errors of `step` are those of its
  five checks: with buffers of those lengths, nothing a valid circuit looks up can
  end a call that has begun to write.
- `SignalsAreTheirOwn` says that gates keep signals of their own past the u24 limit
  and across a panic at u32; `FinishIsExact` that what has no encoding is then
  refused; `BuildsWhatWasMeant` that a foreign handle only ever moves a latch input.
- `TickIsExecute` compares gates with arithmetic; `ImplementsIsa` says that no
  caller of the host can tell the circuit from the instruction set.
- `HaltRunIsExact` and `OutputsRunIsExact` say to the tick when a run ends: a
  program whose HLT is the last pass ends in `TickLimit`; a count of 0 is never
  met.  `NothingLost` says that cutting a run into calls loses nothing as long as
  no call fails with values in its hands, which is what `TickLimit` does.
- `ProgramsCompute`: multiplication is a * b modulo the word, gcd returns nothing
  but the greatest common divisor and needs at most 8 max(a, b) + 7 ticks,
  fibonacci is the sequence; gcd of exactly one zero never ends.  A program whose HLT
  is the last tick that the limit allows ends in `TickLimit`, whatever it showed.

### Bounds, and why they are enough

- `ByteBits` is 2 in `VmStep` and `Wasm`, 8 in the code: a circuit of one or three
  latches then has a padding bit, and one of three a second byte.  Buffers have 0
  to 2 bytes (scratch 4, 8 or 9), so every length check fails and passes.
- `Base` is 3 in `Decoder`, `Encoder` and `Wasm`, 256 in the code: bytes 0 and 1
  are opcodes and 2 is not, signals take up to three digits, `MAX_U24` is 26,
  `MAX_U32` is 80, and files reach these limits.  Records keep their lengths, 7
  and 4, and the header its 28 bytes.  `USIZE_MAX` is 80, the width of a u32 as
  on wasm32, for the decoder and 90 for the others, which puts the limits of the
  field and of the file apart.  On 64 bits the usize limit is out of reach of a
  slice; the theorems hold for any `USIZE_MAX` at least `MAX_U32`.
- `Builder` has `MAX_U24` 13, `MAX_U32` 15 and `USIZE_MAX` 45.  13 inputs are
  refused; after 12 the first gate is past the signals a record can name and the
  third push panics; after 9 three gates just fit the signals, three NANDs overfill
  the body, and two latches, a NAND and an output the file.  `MaxGates` is 3, enough
  for this, for a latch after a NAND, and for a foreign handle that points at a
  latch, a NAND, or nothing.
- `MaxTail` is 7, one NAND record, or a latch record and the start of another.
- Graphs have up to three NANDs, two latches; with `MAX_U24` 6, `MAX_U32` 24 and
  `USIZE_MAX` 104 they lie on both sides of every limit: 5 and 6 inputs at the last
  signal, 22 and 23 at the count of signals, 23 to 25 outputs at their field and, with
  a NAND, at the length of the file, three NANDs with up to two latches at the body.
- Bytes and lengths of `Trace` go up to 2: a vector of three bytes has a length
  that does not fit, two hosts compare all pairs, and a trace has up to two steps.
- `W = 1` lets TLC visit every reachable state of the circuit with every word; the
  operations, the flags and the carry chain between bits are compared at `W = 8`.
  At `W = 4` a product overflows and a borrow happens; the limits 78 and 200 lie on
  both sides of the ticks that products and fifteen-round loops need, and of the
  bound on gcd for operands up to 8 and up to 15.
- `length` bounds the calls of a runner's session; three put a call after an
  error and after an Ok.
- The next call of a `VmStep` host, of a page, and the next word of `Cpu` are
  not counted: those runs are exhaustive in their number.

### Fairness

Each part is straight-line code on the thread of its caller and waits for
nothing, so weak fairness of its steps (`WF_vars(Next)`; in `VmStep` and `Runner`
of the steps inside a call, `Step` and `Run`, and not of the caller, who need not
call again) says no more than that the thread is scheduled.  `CallReturns`,
`ParseEnds` and `CompileEnds` rest on it.  The others state no fairness: what they
promise, they promise of every call that returned.  `Decoder`, `Encoder` and
`GraphCompiler` are one call each and stop when it returns; a trace, a builder and
a runner's session end; so these runs do not check for deadlock.  `VmStep` and
`Cpu` never stop and theirs do.

## 4. Findings

**Padding of input and state.**  `docs/machine-spec-v1.md:41`: "Unused high bits
in the final input, state, and output bytes must be zero"; `docs/tsol-v1.md:83`
says that they are.  `step` compares lengths only (`crates/nandry-vm/src/lib.rs`
222 to 236) and runs with ones in the padding.  The valuation and the next state
are unaffected (`ImplementsMachine` holds with any padding), but one tick then
has several byte strings for its input, so the input digest of `nandry-ir` is not
a function of the bits that ran.  Run `vm_step_padding`.

**Source port of a latch.**  `docs/tsol-v1.md:90`: "ports are fixed as `out` for
sources".  `output_port` names that of a latch `q` (`crates/nandry-compiler/src/lib.rs`
440): a graph that wires a latch by `out` is refused with `InvalidSourcePort`, one
that wires it by `q` compiles.  Run `graph_compiler_ports`.

Not disagreements, but what the properties had to say out loud: `run_until_halt`
ends in `TickLimit` when the HLT is its last pass, and an error of either run loop
drops the outputs collected (`dropped`); `run_until_outputs` with a count of 0
runs to its limit; gcd with one operand zero does not end; a handle of another
builder silently rewires a latch if one stands at its index (`careful`); counts of
a `MachineSpecV1` are not compared with the circuit, nor the declared steps with
the ticks under the input digest.

## 5. Proofs

Eight modules hold theorems.  They assume the `ASSUME`s of the module they are
about, which TLC evaluates in that module's runs, and nothing more except where a
theorem states a hypothesis of its own: `Room` in `EncoderProofs`, `OnCircuit`, `OnInstructions` and `W >= 4` in `CpuMachineProofs`; each is explained
below.

**`VmStepProofs`** assumes that the circuits are valid, that the buffers are
buffers and that a byte has at least one bit.

- `Invariant`: `Spec => []Inv`.  `Inv` says for each loop what is done at its
  counter: gates below `cursor` are settled, latches below it sampled, outputs
  below it written, nothing else is set.  `LatchBitAgrees` and
  `ImplementsMachine` are not inductive: that `latch` equals `cursor` on latch
  records needs the records to be a prefix and `latch` to stop at `latch_count`.
  `TypeCorrect` and `LatchBitsAgree` follow from it.
- `UniqueSolution`: `Spec => []OnlySolution`.  `AgreesBelow` is a second inductive
  invariant: any settled valuation agrees with scratch on what has been written.
  At each gate it uses that a NAND reads only signals below its own.
- `Refinement`: `Spec => M!Spec`.  `Return` is a `Tick` whose valuation is
  scratch; every other step stutters; `Inv` at the last output gives that
  `next_state` and `output` are what `Tick` requires.
- `FailuresTouchNothing`: an action property.  From `Inv` and the validity of the
  circuit, what each loop looks up is below the length of scratch that `Begin` has
  checked (`GateIsEvaluated`, `LatchIsSampled`, `OutputIsWritten`), so no `Abort` is
  enabled and only `Reject` ends with an error.

**`DecoderProofs`** assumes only that the base is at least 2, that a usize holds a
u32 and that files are files.

- `Invariant`: in the gate loop the records read so far are `latches` latch
  records and then NANDs, so `cursor` is where the format puts record `index`
  (`RecordOffset`), and each has passed its test; in `GateIter` the same with the
  declared latch count, and `yielded` is the beginning of `Reading(file)`.
- `ParseIsExact`: `Spec => []AcceptsExactly`.  The forward half reads `WellFormed`
  off the invariant at the end of the loop.  The other half goes through every
  error: given the invariant, the failed test is one that `WellFormed` implies.
  The hard case is a latch where the declared count says NAND.
- `ViewsAreValid`: `Spec => []ViewIsValid`, and `TypeCorrect`, that neither cursor
  leaves the slice.

**`GraphCompilerProofs`** assumes of a graph only its shape, a list of nodes and a list
of connections with anything in them, and of the limits that
`MAX_U24 < MAX_U32 <= USIZE_MAX`.

- `Invariant`: `Spec => []IInv`, phase by phase: the maps hold what the lists say;
  in the sort, `dependencies` has for each NAND those it reads that are not
  ordered, and `ready` is what is left and waits for nothing.  `SortBookkeeping` alone is not inductive: it needs that the
  order so far is *greedy*, each NAND the least that was ready when it was popped.
- `RefusalsAreExact`: `Spec => []RefusesExactly`.  If the sort stops early, the NANDs
  left over each read another of them; if there is such a set, take the first of
  its members to be ordered: it reads one that is not ordered, and so was not ready.
  That `encode_netlist` refuses the numbered netlist exactly if its sizes break a
  limit (`NumberedEncodes`) rests on the numbering: no gate of it is bad
  (`NoBadGates`), and its body is 4 bytes a latch and 7 a NAND (`BodySize`).
- `BytesAreCanonical`: `Spec => []IsCanonical`.  The greedy order is the
  lexicographically least topological order: at the first place where another order
  differs, what it has there was ready too.  Ranks in a finite set of numbers then
  give the inputs, latches and outputs their positions.
- `CompilesTheMachine`: `Spec => []SameMachine`.  The numbering is one to one from
  the nodes that have a signal onto the signals of the circuit, and gate i of the
  circuit is the i-th node of latches and order; so a valuation settles one if and
  only if its image settles the other.
- `BookkeepingHolds`: `Spec => []Inv`.

**`NetlistRulesProofs`**: `RulesAreExact`, for every netlist `EncodeError` is
"none" exactly if it is `Encodable`.  If no gate is bad, no latch follows a NAND,
so the latches are the first gates and the counted latches are a prefix; the
numbers below then fit.  `EncodedReads`: the bytes of an encodable netlist are well
formed and read back as the netlist, every digit of every record; this is the round
trip as a fact about functions, which `Wasm` uses where `Encoder` has loops.

**`EncoderProofs`** builds on it.

- `Invariant`: in the check loop the latches counted, the flag and `body_len` are
  those of the gates seen (`Count` of a prefix, with the cardinality of a set of
  positions for the latches).  In the writing loops the tail written so far reads,
  at the offsets of the format, as the outputs and gates written: appending a
  record leaves every byte before it in place (`Continues`).
- `RoundTrips`: `Spec => []RoundTrip`.  Three digits below `Base` give the signal
  back (`ReadsWritten`), and at the end of the last loop every record of
  `Reading(bytes)` is a gate of the netlist.
- `RefusalsAreExact`: `Spec => []RefusesExactly`; each `Fail` has an obstacle to
  `Encodable`, and the final parse sees a well-formed file.

- `CallsAreTheRules`: `Room => (Spec => []ReturnsAsTheRules)`, where `Room` says
  that a usize holds 7 bytes for every signal.  It does in the code
  (7 * 16777215 < 2^32), and it is needed: with less, the sum of lengths in the
  check loop overflows before a later, bad gate is met, and the error is another.
  The instance of run `encoder` has less room, so that its limits are reached, and
  no netlist in it in which the two errors meet.  The invariant, `Follows`, says
  at each counter which error the rest of the call can still return.

**`ClientProofs`** is about those who call the encoder: a client of `Builder`, and
the page of `Wasm`.

The builder, assuming that arguments are u32:

- `Invariant`: besides the types, that every handle names a latch of its owner
  that is still there, and that the client's notes hold the gates under the
  signals they were pushed with.  Every push had a signal that is a u32, so a
  builder never has as many gates as the cast of its length would truncate.
- `OwnSignals`, `HandlesStay`, `BuiltAsMeant`, `GatesAreKept` follow; `FinishExact`:
  `Spec => []FinishIsExact` uses `RulesAreExact` and goes through the checks that
  `finish` makes on its own.
- `CarefulSucceeds`: `Spec => []CarefulBuildSucceeds`.  The second invariant,
  `Wiring`, says of a careful builder that its latches are a prefix and that what
  each gate reads was handed out before it.

The page, assuming that netlists are netlists and arrays are arrays:

- `PageInvariant`: the bytes are those of the netlist, the description that of the
  bytes, the state well typed and, once a step was made, of the right length.  No
  property of the run is inductive without the first.
- `DescribedInFull` and `StatesComeBack` use `EncodedReads`.
- `PageRefinement`: `Page => ImplementsMachine`.  A step is a `Tick`: that a settled
  valuation exists, which the CHOOSE of the model needs, is shown gate by gate
  (`SettlesOn`, and a least gate that cannot be settled), and that the joined array
  comes apart where it was joined, on a byte and not on a bit, is `TakenApart`.

**`TraceProofs`** assumes only types.  `Digests` and `Chained` say of every host
that its digests are what the code computes and each root hangs on the one
before.  `RootsAreBinding` is inductive in the chains: two equal roots are both
first roots, or have equal predecessors, equal step numbers and, by the frames,
equal states and outputs.  `RootsNameRuns` and `OutputsNameRuns` add that
`finish` succeeds only for the declared steps and that machine and input are under
the digests.

**`CpuMachineProofs`** has five parts.

*The host, on every CPU*: nothing is assumed of `Tick`, `Pc`, `Halted` and `Out`.
`ShownAlong` is a recursive function along `path`; that it exists
(`CollectsExists`), that it looks at the states passed only (`CollectsAgree`) and
hence that a tick appends to it (`AlongTick`) is proved by taking a least
counterexample (`Least`).  The invariant says that `outputs` is what was shown along
`path`, and how passes and ticks are related: equal in `run_until_halt`, and in
`run_until_outputs` equal until the machine halts, with too few values so far.
`HaltRunsAreExact`, `OutputsRunsAreExact`, `NothingIsLost` and `TypeCorrect` follow.

*Numbers*: `GatesAdd`, for every width and all words, and with it `ArithmeticHolds`.
That `2 ^ (i + 1)` is twice `2 ^ i` is counted out of the library's theorem on
subsets (`PowerDoubles`).  The invariant of the carry chain is about the lines below
bit i: what they add up to, plus `2 ^ i` for the carry into bit i, is the sum of the
two operands' lines below i (`AdderSums`).  `SUB` adds the complement and one.  Digits
are unique (`ValueInjective`): two sets of lines with one number are one.

*The circuit*: `CircuitExecutes`, for every width and every word on the inputs, and
its invariant, that latches hold truth values.  Each named part of `tick` is shown to be
a part of `Execute` or of the instruction word: the sixteen comparisons are the
opcode (`OpcodeBits`, `EqConstIs`, `FourBits`), the chain of multiplexers the
result (`ResultWordIs`), the enables which latches change, and the latches of the
next state are read back where they were put (`LatchesRead`).  `HaltIsFinal` follows
from it: the instruction leaves a halted machine's program counter, and equal
numbers are equal lines.

*The host on the circuit*: `HostRunsInstructions`.  Under `OnCircuit`, which says
that the constants of the host are those of the circuit, as MCCpuMachine.cfg gives
them, every action of the host is the same action of the host on the instruction
set, with `Decoded` applied to `cpu` and to every state along `path`.

*The programs*: `ProgramsAreCorrect`, for all operands, counts and limits, at every
width of at least 4 (the last word of gcd is at address 13, which three bits cannot
hold), for the host on the instruction set (`OnInstructions`, as MCRunner.cfg gives
it) and on the gates (`OnCircuit`, by `CircuitExecutes`).  Each word of a program is a
step from one place to another, and its place fixes the tick, the program counter and
the registers that matter: `Multiplying`, `Dividing` and `Counting` are the loop
invariants, one disjunct for each place.
- Multiplication: after k rounds the sum is a * k modulo the word; 5 b + 8 ticks.
- Greatest common divisor: the pair of registers has the common divisors of the
  operands, is zero where they are, and 8 ticks of a round shrink the larger one, so
  the ticks are at most 8 max(a, b) + 7.  With exactly one operand zero the registers
  never meet, and nothing is shown.  `JNC` after `SUB` decides which is the larger.
- Fibonacci: two registers hold neighbours of the sequence modulo the word; value n
  is shown at tick 6 (n - 1) + 3.  That the recursive function `Fib` exists at all is
  proved by a least counterexample.
`FirstRun` says that a first call is at such a place while it runs, and has the claimed
result when it has ended; it is inductive together with the host's own invariant.

Model-checked only: liveness (`CallReturns`, `ParseEnds`, `CompileEnds`); fairness is
out of the prover's reach.

## 6. Not modelled, and what is left

Left out for good: JSON and error text (`serde`, `Display`), the examples (they
print and write files), `encoded` and `header` accessors, the counts and the
output table of the CPU's artifact (the table repeats the state).  Memory is not
modelled, so the growth of `outputs` in a run with a huge limit is a hazard
without a property.  That counts are claimed and not checked is a hazard of
`MachineSpecV1::new` without a property: nothing in the code promises otherwise.

What could be added: what a second call finds of a program that the first one gave up
in the middle of (`ProgramsCompute` is about the first call on a machine).
