# A verification of riscv-single-cycle-cpu

This directory holds TLA+ models of the processor in `vsrc/`, of the memory it
is simulated with, and of the verilate simulator (`verilate/`) with its test
bench; TLC configurations that check them on small instances; and TLAPS proofs
of their main properties for all instances.

## 1. The system

| Component | State | Operations | Talks to |
|---|---|---|---|
| Core control: `core.sv`, `pc.sv`, `regfile.sv` | `ireq.valid`, `pc`, `curr_instr`, 31 registers, Difftest's view `reg_next` | one clock edge: fetch handshake, latch, commit, write-back | instruction and data bus, units, Difftest |
| Decode, control unit, ALU, multiplexers | none meant; `branch` and `m2reg` are latched on paths that do not assign them | combinational | core control |
| `mul.sv`, `div.sv` | `state`, `count`, `done`, accumulator `p` | one clock edge | core, by `valid` and `done` |
| Byte lanes: `rd.sv`, `wd.sv` | none | combinational | data bus, memory |
| Bridges `IBusToCBus`, `DBusToCBus` | none | combinational | core, arbiter |
| `CBusArbiter.sv` | `busy`, `index`, `saved_req` | one clock edge: release, hold, select | bridges, memory |
| Memory: `RAMHelper2` in `ram.sv`, helpers in `ram.cpp` | transfer state, RAM, timer and device registers | one clock edge: accept, delay, start, beats; timer | arbiter |
| AXI bridge `CBusToAXI` | `in_issue`, `saved_req`, `count` | one clock edge: accept, transfer | a cache-bus master, an AXI memory; not instantiated in `SimTop` |
| Other bus fabric: `CBusMultiplexer`, `SimpleArbiter` | none; `busy`, `index` | combinational; one clock edge | not instantiated |
| Verilate bus device: `cbus_device.cpp`, `axi.h` | `tx`, `ntx`, `enable` | a cycle: `eval_resp`, `eval_req`, `sync`; `reset` | a cache or core under test, memory |
| Verilate memory: `memory.cpp`, `confreg.cpp` | `BlockMemory`'s words and saved image; the router's table; Confreg's registers, two contexts, list of changes, UART queue | `load`, `store`, `sync`, `reset`, `map` | bus device; a thread that reads the pty |
| Verilate model base: `model.cpp` | the parts above, trace files | `install_soc`, `checkout_confreg`, trace start and stop | the model under test, a subclass outside the repository |
| Verilate bus drivers: `bus.h`, `cell.h` | the request, the pipeline's queue, locals of `swap` | load, store, expect, fence, tick, swap | tests, the model under test |
| Verilate test bench: `testbench.cpp`, `testbench.h`, `common.cpp` | list of tests, defer list, worker processes and pipes; `ThreadWorker` flags; status line | `run_serial`, `run_parallel`, `run_worker`, plugins, abort handler | tests, operating system |
| Verilate runner: `main.cpp`, `runner.h` | options | start-up | all of the above |
| Difftest: `difftest.cpp` and neighbours | DUT state, reference state, store queue, trace ring | one step per cycle | emulator, reference model |
| Emulator: `emu.cpp`, `snapshot.cpp` | cycle and instruction limits, fork slots, snapshots | `execute`, `single_cycle`, save, load | the model, Difftest |
| Difftest devices: UART, keyboard, JTAG, SD, AXI RAM | rings and queues | polled by the emulator | emulator |

Two kinds of concurrency make the program hard.

*Hardware.*  Everything in `vsrc` runs on one clock: all registers change
together on its rising edge, and everything else is a function of the
registers.  The hard part is *which values are seen when*: requests and
operands are live nets that run through the register file and the decoder for
as long as a transfer or a division takes, and each block has its own idea of
when an instruction begins and ends.  The bus device and Confreg imitate the
same discipline by hand, with pairs of state (`tx` and `ntx`, `ctx0` and `ctx`)
that are copied in `sync`.

*Software.*  The verilate test bench forks processes that inherit each other's
pipes, starts detached threads that share a flag with their owner, and reads
characters in a thread of their own; tests fail in the middle of all of it.

What makes each part correct:

* the processor: it executes the program as a sequential RV64 machine does;
  every instruction commits; Difftest is shown the right registers at commit;
* the buses: a request does not change while it is served, the answer goes to
  the port and the address that asked, the two ports never compete;
* the units: `done` belongs to the instruction in progress and its operands,
  the result is RV64M's, nothing is lost on the way;
* the AXI bridge: its master sees one memory that does one burst at a time,
  although the channels of a write finish in any order; AXI's rules are kept;
* decode and ALU: each encoding does what its mnemonic says, whatever the
  latched signals held before;
* the memory: beats of a burst in order and in place, an answer to every
  request, stores that win over the timer;
* the verilate system on a chip: the same abstract memory as the AXI bridge,
  through a router with an alias and whatever pauses the device makes;
  characters pass the UARTs once and in order; a reset forgets everything;
* the drivers: loads, stores, expectations and swaps take effect in the order
  of the calls, however long the memory takes, and a fence returns;
* the test bench: every test runs once, the number reported is true, a failure
  ends the bench, no process or status thread stays behind, and the defers of
  the plugins all run on every path.

`PROJECT.json` lists the hazards one by one with the properties that cover
them.

## 2. The modules

```
CBus            records of the cache bus, the two bridges
 +- MemoryMap   RAM cells, device registers, address decoding
 |   +- RAMHelper2      the memory's state machine and timer
 |   +- Datapath        kinds of instructions, register file
 |       +- Isa         the sequential machine (abstract specification)
 |       +- Core        the core's clocked blocks (with IterUnit)
 +- CBusArbiter
SimTop = Core + CBusArbiter + RAMHelper2, shown to implement Isa
SimTopProofs = theorems about SimTop

IterUnit        the handshake of both units     Alu          alu.sv, W bits
MulDiv          mul.sv and div.sv, W bits       ControlUnit  decode, controlunit
Exec            decode to write-back            Lanes        rd.sv, wd.sv
Bytes           words as rows of bytes          ByteMemory   what Lanes implements
MCArithmetic = MulDiv, Exec and Lanes side by side
ArithmeticProofs = theorems about MulDiv, Exec and Lanes

CBusMaster      a master that uses bursts of all types and sizes
CacheBus = CBusMaster + RAMHelper2
CacheBusProofs = theorems about CacheBus
CBusToAXI       the AXI bridge                  AXISlave     the memory behind it
AXIBus = CBusMaster + CBusToAXI + AXISlave, shown to implement BurstMemory
AXIBusProofs = theorems about AXIBus
WordCells       memory cells of AXISlave, Soc and BurstMemory
BurstMemory     what a cache bus promises its master (abstract specification)

CBusDevice      the verilate simulator's bus device
Confreg         the board's registers, with the UARTs
Soc = CBusMaster + CBusDevice + router + memory + Confreg, shown to implement
      BurstMemory too
SocProofs = theorems about Soc
Image           how the memory is filled from a file

Driver          LoadOp, both data-bus drivers and swap, shown to implement
                InOrderMemory
InOrderMemory   what a test sees of a driver (abstract specification)
DriverProofs = theorems about Driver

Testbench       run_parallel and run_worker, shown to implement TestPool
TestPool        what the parallel bench promises (abstract specification)
TestbenchProofs = theorems about Testbench
Serial          run_serial, defers, plugins, status workers
SerialProofs = theorems about Serial
MCTestbench = Testbench or Serial, by the number of workers
(TestbenchProofs carries the theorems of both over to MCTestbench)
```

The processor model (`SimTop`) leaves the arithmetic abstract: what an
instruction computes, where a branch goes, what a unit returns and how bytes
are merged are constant operators, of which only the types are assumed.  This
is what the control does not depend on, and what makes the proofs hold for
every program and instruction set.  `Exec`, `MulDiv` and `Lanes` then check the
concrete arithmetic.  The bridge between the two is `Kind` in `ControlUnit`,
which sorts each encoding into the kinds of `Datapath`.

Correspondence with the code:

* Each `always_ff` block is one operator named after it (`IreqClock`,
  `CurrInstrClock`, `PcClock`, `RegfileClock`, `UnitClock`, `ArbClock`,
  `RamClock`), each wire an operator with the wire's name (`if_hold_pc`,
  `if_wreg`, `dreq`, `oreq`, `oresp`).  `Clock` of `SimTop` is one edge of all of
  them.  The blocking assignment to `ireq.valid` (core.sv 66-70) behaves as a
  non-blocking one, because no other clocked block of the same edge reads it
  except through the arbiter's and the memory's own registers.
* Reset is the initial state.  RAM starts with arbitrary contents, `reg_next`
  (which nothing drives until its entry is addressed) and the two latched
  control signals with arbitrary values.
* The accumulator of a unit is, in `SimTop`, the sets of values its two operand
  ports had when it read them: a run that reads different values is visibly
  another computation.  `MulDiv` has the real accumulator.
* Where the repository ends, the environment is a module of its own: the master
  of a cache bus (`CBusMaster`) holds its request as ram.sv and `CBusToAXI`
  demand, the AXI memory (`AXISlave`) does whatever AXI allows a slave with one
  read and one write under way.
* `Soc`'s `Tick` is one tick of a model under test, a subclass of `ModelBase`
  that the repository does not contain.  It calls `eval_resp`, `eval_req`, the
  `sync` of the device and of Confreg, and `checkout_confreg` once each; which
  `sync` comes first is `devFirst`, chosen once, since a model's tick is fixed.
  The thread behind the pty is the action `Receive`, between any two ticks.
  `Programs` says what software uses the bus; a program that stops the
  simulation itself (a wrong test number, a panic) sets `stopped`.
* `unread` and `unshown` of `Soc` are ghost variables: the characters typed and
  not yet read, written and not yet put out.
* In `Driver` a step of the test and a tick of the clock are separate actions:
  the memory under test answers in any tick (`data_ok`).  A test that waits is
  at `pc` "await" or "fence", "close" (the destructor), "u" and "v" (`swap`).
* In `Testbench` each process advances by one system call per step.  A pipe is
  what is in it (`req`, `cmd`) and who holds its ends: `Later` is the
  inheritance of descriptors by workers forked later, `MasterHolds` the
  master's own ends.  A test may never end, may fail (`Abort`), and the master
  may die in a failed call (`MasterAborts`).  Signals are immediate.
* `Serial` runs plugins, body, defers and verdict in the order of `run_test`,
  while a detached thread per test goes its own way; a failed assertion jumps
  to the handler, which runs the same defers.
* A `$finish` or a failed assertion is recorded (`fault`, `failed`, `pc`), after
  which nothing happens any more.
* Words, addresses and counts have the code's wrap-around; their sizes are
  constants (`WordMod`, `AddrMod`, `W`).  The delay counter is any value of `Delays`.
* Operators named `..._X` next to a definition and commented as mutants are
  plausible bugs; each property is shown to fail under one of them.

## 3. The runs

| Run | Shows | Bounds |
|---|---|---|
| `core` | the inductive invariant `CoreInv`, `RequestStable`, `PortsSound` (one port asks, answers reach it), `UnitSound`, `DifftestInStep`, refinement of `Isa` (`Sequential`), commits never end (`Progress`) | 3 cells of two instructions each, all 64 initial contents, all supported kinds, delays 0 and 1, units of 2 rounds, the timer ticking every cycle |
| `devices` | refinement with device registers, stores beyond RAM, the range check | as `core`, 2 cells, mostly loads and stores, timer period 2 |
| `stray` | what undocumented encodings can do (`HangOnlyOnStray`, `ProgressOrHang`, `RepeatsOnlyReserved`) | as `core`, with the two stray kinds |
| `arithmetic` | every encoding does what its mnemonic says (`Executes`), no undocumented one is taken for another (`KindsDocumented`); products, quotients, remainders and the loop invariant of the divider (`UnitsRight`), an answer to every request (`Answers`); refinement of `ByteMemory` (`SeesBytes`) | W = 4, every opcode, func3 and six func7, eight operand values; units with all operands and modes and any sequence of runs; 4 lanes with bytes of three values |
| `bursts` | types and beat addresses of FIXED, INCR and WRAP reads (`Sound`), the place of every write beat and no other write (`WritesInOrder`), an answer to each request (`Answered`) | transfers of 1 or 2 addresses, single beats and bursts of 2 and 4, from 3 starting points |
| `axi` | refinement of `BurstMemory` (`AsBurstMemory`), AXI's rule that valid payloads stay (`HeldUntilTaken`), types and nothing left over between transactions (`Sound`), an answer to every request | four one-bit cells with all contents, single beats and wrapping bursts of four from the middle of the window, at most one idle cycle between handshakes |
| `soc` | refinement of `BurstMemory` across memory, alias and device; the two transaction states agree and no assertion on the simulator fires (`Consistent`); characters in (`InputOnce`) and out (`OutputOnce`) once and in order; `FreshStart` after a reset; an answer to every request | two cells of memory at 0 and in the boot window at 2, Confreg from 8 on, words of three values, four kinds of software, bursts of 1 and 4, a pause in any cycle, two characters waiting |
| `driver` | types and the front task on the bus (`Sound`), refinement of `InOrderMemory` (`AsInOrder`), fences, awaits and destructors return (`Returns`) | a word of two lanes with one-bit bytes, accesses of one and two bytes, a queue of two tasks |
| `testbench` | parallel: the hand-shake over the pipes (`PoolSound`), refinement of `TestPool` (`AsTestPool`), `FailureEnds`, `NobodyLeft`; serial: `Balanced`, `Verdicts`, `FlagLives`, `StatusWorkers` | three workers and four tests, each of which may pass, fail or hang; two tests in a row with any of five lists of plugins |
| `write_bursts` | *violated*: writes follow AXI's burst types | as `bursts` |
| `axi_types` | *violated*: `AsBurstMemory` with bursts that do not wrap | as `axi` |
| `image` | *violated*: the memory holds the file it was filled from | words of four bytes (halves of two), two cells, files of up to four chunks |

Why the bounds suffice.  In `core`, two-bit words make RAM contents, registers
and addresses all range over everything; six instruction slots let each kind
follow each other kind, with and without a register dependency, and let stores
overwrite code that is fetched next.  Two rounds separate the first, a middle
and the last step of a unit.  Delays 0 and 1 give both a transfer that starts at
once and one that waits, and the memory counts down all others the same way.
In `arithmetic`, the operands include all combinations of sign and carry for
both the word and the half word; encodings are enumerated with every func7 the
control unit distinguishes and some it does not; the units get all operands of
four bits, hence every sign case, the zero divisor and the overflowing quotient
at both widths.  Lane arithmetic is uniform in the lane, so four lanes show each
size at several places next to neighbours.

In `axi` a burst of four has a first, two middle and a last beat and crosses
the wrap; one idle cycle is enough to let every channel of a write finish
before or after every other, and to let the master's next request arrive while
the address or the response of the last is still open.  In `soc` the burst of
four starts in the middle of its window and crosses from the memory to its
alias and back; three values of a word tell no character, a printable and an
unprintable one apart; two waiting characters give a queue that is empty, one
that has one and one that has a second behind it.  The UARTs, the virtual UART
and the numbered registers share no state but the list of changes, which is
emptied in every `sync`, so that four kinds of software explore them apart.

In `driver` two lanes give places that are equal, disjoint and one within the
other; two tasks in the queue give a front, a last and a task issued behind an
answer in the same tick.  In `testbench` three workers are a first, a middle
and a last in the inheritance of pipes; four tests let a worker come back for
a second one and leave one over; the serial half has a test and its successor,
which is where defers, flags and workers of two tests meet.

Three runs stop by design (a load beyond the range calls `$finish` in `devices`
and `bursts`; the bench ends in `testbench`), a failed assertion ends the process
in `driver`, and the simulation begins after the memory is filled in `image`;
deadlock is checked in all other runs.  The arithmetic run explores three parts
and the testbench run two, side by side in one configuration: they share no
variable, and the part that is not explored stays in one initial state.

Fairness.  `FairSpec` of `SimTop` and `AXIBus`, the specification of `CacheBus`
and that of `MCArithmetic` (for the units) assume weak fairness of the clock
alone: `Emulator::execute` calls `single_cycle` in every iteration of its loop
(emu.cpp 331-380).  The delays need no fairness, since the counter is loaded
once and counts down; the AXI memory's patience is bounded by `MaxStall`.
`Soc` is fair to ticks that do not end in a pause: `p_disable` is a probability
below one, so that pauses end with probability one.  Nothing makes software
stop resetting, but a reset withdraws the request.  `Driver` is fair to the
memory's answer while the test waits, and to a wait that is over; nothing makes
a test that does not wait go on.  `Testbench` is fair to each process that is
not blocked, not to tests, which may run for ever, nor to failures; `NobodyLeft`
therefore assumes that every test ends, and `FailureEnds` does not.  `Serial` is
fair to the bench and to each status thread, but not to the end of a body.

### Divergences found

* Write bursts never wrap and never stay (ram.sv 221), reads do (ram.sv 188);
  common.sv 217 calls the cache bus a burst AXI interface (`write_bursts`).
* Every burst leaves `CBusToAXI` as a wrapping one (CBusToAXI.sv 121, 133); the
  burst type of the request is not used, although the bridge calls itself a
  specification of the cache bus (line 13) (`axi_types`).
* `BlockMemory::map` masks a 64-bit word with a 32-bit constant (memory.cpp
  102): a byte mapped destroys others of its word (`image`).
* Not a run of its own: the note on strobes (common.sv 152-161) describes four
  lanes; the code has eight, on which the lanes are checked.

The first two do not affect the processor, which issues single beats; the third
affects every use of the verilate simulator with a memory image.

### Observations

Behaviour that a reader of the code may not expect, but that contradicts
nothing the repository promises.  The models have it where they model the code.

* Encodings that README.md does not list as supported: `mulh` and its relatives
  commit as an addition and write their register again in every cycle until the
  next instruction arrives; `0111011` with the func3 of `divw`, `remw` or `remuw`
  and another func7 hangs the core (`RepeatsOnlyReserved`, `HangOnlyOnStray`).
* Test bench: the plugin LOG leaves logging off, so that the verdicts on that
  test and on all later ones are hidden (`Verdicts` says exactly when); a skipped
  test counts as passed.  `ThreadWorker::once` frees its flag before it is
  stopped, unlike `at_interval`; detached threads may outlive `main`.
  `runner.h` starts the trace of `-f` before it sets the folder for traces.
* Confreg: the list of changes survives `reset`, which is harmless if the
  model's tick ends with Confreg's `sync` and otherwise shows a store of the test
  before (`FreshStart` has the condition); `_current_num` is never reset; the
  contexts are uninitialised before the first reset.  The queue of the UART is
  pushed by one thread and popped by another without a lock; the model treats
  both as atomic.  A line that `notify_char` has not completed is not flushed at
  exit.
* Router and words: with 64-bit words, a 32-bit store to `NUM_MONITOR` or
  `IO_SIMU` and a byte load of LSR use a half of the word that Confreg ignores
  (model words have one lane, so this is outside the model); the masks of the
  router ignore the upper half of an address; the upper bound of a wrapping
  window that ends at the top of the address space overflows to zero (axi.h 62;
  excluded by `ProgramAssumption`); `dump` ignores its offset.
* Drivers: a cell of eight bytes on a pipeline loads into a `uint32_t`
  (cell.h 115), into which the load writes eight bytes; a store whose strobe is
  zero becomes an expectation; cells of different width from one factory can
  trip the alignment assertion, since `allocate` does not align.

## 4. The proofs

Eight modules of theorems; each theorem holds for every value of the constants
that satisfies the `ASSUME`s of the modules.

### SimTopProofs

For every word and address width, memory size and map, program, instruction
semantics, delay, round count and register count:

| Theorem | Statement |
|---|---|
| `TypeCorrect` | `Spec => []TypeOK` |
| `Stability` | `Spec => []RequestStable` |
| `UnitSoundness` | `Spec => []UnitSound` |
| `HangsOnStray` | `Spec => HangOnlyOnStray` |
| `RepeatsReserved` | `Spec => RepeatsOnlyReserved` |
| `Invariance` | `Spec => []CoreInv` |
| `PortSoundness` | `Spec => []PortsSound` |
| `Refinement` | `Spec` implements `Isa`, as long as pc does not point at a device register |
| `DifftestAgrees` | `Spec => DifftestInStep` |

The first five hold for every program, undocumented encodings included.  The
others assume `Supported`: memory decodes to the six documented kinds.  What run
`stray` explores is why they need it.  The other assumptions:
sizes are positive, constant operators stay in their types, stores have a
non-empty strobe, `SimTop` has two masters.

None of the safety invariants is inductive by itself.  `RequestStable`, for
instance, holds in the next cycle only because the register file is not written
meanwhile, which depends on where the instruction in progress stands, which
depends on who owns the bus.  `CoreInv` says all of it at once:

* `FetchInv`: either a fetch is up and `curr_instr` is empty, or no fetch is up
  and `curr_instr` holds the multi-cycle instruction that memory has at `pc`;
* `GrantInv`: a busy arbiter has granted the port that is asking, and saved its
  request;
* `ServeInv`: the memory works on what the arbiter granted, in one beat;
* `UnitInv`: a unit runs only for the instruction in progress and on its
  operands, or is in the first cycle of the run it starts by itself after
  `done`, which ends there;
* no fault for a modified request.

Of this, programs with undocumented encodings keep `AnyInv`, which differs in two
places: `AnyFetch` admits a kept m_reserved during the next fetch, and a core that
has nothing to fetch nor to execute; `AnyUnit` admits that the first cycle of a
run that is given up is not one of a fetch (after div_stray).  It is inductive
without an assumption about the program, and what it keeps is enough for the bus
and the units: an m_reserved writes its register in every cycle, but only while
neither a data request nor a unit depends on registers.  `AnyStep` has one lemma
per situation (idle bus, a unit that is done, a memory that waits or answers);
`QuietCore`, `DoneCore`, `FetchCore` and `DataCore` say what the core does in each,
and the two action properties about undocumented encodings follow from these.

`IInv` is `CoreInv` with the types and the fact that a running unit's counter has
not passed its last round (`InRound`).  It is `AnyInv` and little else (`InvAny`,
`AnyCore`), so that its step adds only what is fetched and why a run is given up
(`InvClock`).  The refinement proof maps a commit to `ISA!Execute` and every other
cycle to `ISA!Pass`, and needs `FetchInv` for the instruction and the timer's
independence for the device registers.

### SocProofs

For every size of words, addresses and memory, every map of registers, place of
the window, length of burst and kind of software that keeps to
`ProgramAssumption` (bursts wrap, their windows do not end where addresses do,
every beat has memory or a register behind it):

| Theorem | Statement |
|---|---|
| `TypeCorrect`, `Invariance` | `Spec => []TypeOK`, `Spec => []IInv` |
| `Consistency`, `InputInOrder` | `Spec => []Consistent`, `Spec => []InputOnce` |
| `OutputInOrder`, `Fresh` | `Spec => OutputOnce`, `Spec => FreshStart` |
| `Implements` | `Spec => AsBurstMemory` |

The inductive invariant has five parts.  `DevInv` is the heart: the device is
idle, or in the very transaction that the request stands for, exactly as many
beats into it as its master, whatever pauses it made; `Transaction(r, n, al)`
gives the device's address, count and bounds after `n` beats, aligned or not
yet.  That a step of the device leads from beat `n` to beat `n + 1` is
arithmetic about wrapping windows, in lemmas of its own (`WindowBeat`,
`WrapStep`): the step-and-compare of axi.h computes AXI's `(offset + n * size)
mod window`.  `ConInv` relates the flags of Confreg to the queue and includes
that no change is pending after a tick that ends with Confreg's `sync`; `OutInv`
says what is written and not yet put out.  The refinement then needs `AnswerOK`:
what the device answers is what the memory has at the beat's address.

### TestbenchProofs

For every number of workers and tests:

| Theorem | Statement |
|---|---|
| `Invariance` | `Spec => []IInv` |
| `Sound` | `Spec => []PoolSound` |
| `Implements` | `Spec => AsTestPool` |

`PoolSound` is not inductive: that a command is read depends on who was counted
out and on the end of pipes.  `PhaseInv` says where the master is (which workers
are forked, which are reaped, why it closed its pipes), `CountInv` what it has
counted: `passed` plus the number of workers that have asked and are still
served is `dispatched`, which is what makes the number reported true; and
`WorkerInv` what a worker may be at.  In the refinement a `Serve` that
dispatches is `HandOut`, the end of a test is `RunThrough`, a failed test or a
kill is `Lose`, and the last `Wait` is `Report`; that at most `N` tests are out
at a time follows from an injection of tests into workers.

The run explores `MCTestbench`, which is this bench or the serial one, by the
number of workers: `BenchPooled` says of it what `Sound` and `Implements` say, and
`BenchUndone`, `BenchPrinted` and `BenchFlagsLive` carry over the theorems of
`SerialProofs`, instantiated with the variables and the constants of the run.

### SerialProofs

For every number of tests and every choice of plugins:

| Theorem | Statement |
|---|---|
| `Undone` | `Spec => []Balanced` |
| `Printed` | `Spec => []Verdicts` |
| `FlagsLive` | `Spec => []FlagLives` |

They assume `Declared`: the plugins of one test differ from each other.  Were one
listed twice, the first of its two defers to run would switch off what the other
still stands for.  `Balanced` compares two flags with the defer list; what makes
it inductive is `ListInv`, that the defer list is `POST` and the plugins of the
test so far, in order, and, while the list unwinds, a prefix of it that the
counter `left` marks.  `SwitchInv` then says that the trace is open exactly while
the defer that closes it is pending, that the status line is on at least while
its defer is, and what logging is: on while the defer of LOG is pending and, once
some test has used LOG, off at all other times.  `WorkersInv` says for each status worker where
it is and what its flag may be: freed only after the owner has raised it.

### ArithmeticProofs

For words of 2, 4, ..., 64 bits and all operands; for words of one to eight
bytes and every set of byte values:

| Theorem | Statement |
|---|---|
| `UnitsCompute` | `MCSpec => []UnitsRight` |
| `PathExecutes` | `MCSpec => []Executes` |
| `KindsAreDocumented` | `MCSpec => []KindsDocumented` |
| `LanesImplement` | `MCSpec => SeesBytes` |

`UnitsRight` speaks of the cycle of `done`, 66 cycles after the operands came.
`UnitsInv` says how far a run is: after n steps of the multiplier (`Multiplied`)
p is num2 times the lowest n bits of num1, above the bits that are still to come;
after n steps of the divider (`Divided`) the topmost n bits of num1 are quotient
times divisor plus remainder, quotient and remainder sit at the two ends of p
and the rest of num1 between them.  That the remainder is bounded by the bits
read so far (`DividedBound`) is why the compared field of p, which drops the
topmost bit, loses nothing.  `MulForward` and `DivForward` are the two steps;
`ProductRight` and `DivisionRight` go from the magnitudes to the signed results,
case by case as `c` is assigned, half words included (`SignedLow`, `ExtendSmall`,
`HalfProduct`: the lower half of a product depends only on the lower halves).
The lemmas about `Pow2`, division and signed words come first.  `Pow2` is a
recursive function since the provers know nothing of `2 ^ n`; its equations follow
from `SetInduction`, and so does that powers multiply (`PowSum`).

`Executes` says of every documented encoding that the path from decode to
write-back does what the mnemonic stands for.  Its invariant is `ExecInv`: types,
operands that are words, and `Latched`, that each of the two latches of
controlunit.sv holds what the instruction in the core selects unless that
selects nothing.  The argument is in two halves.  `AllDecode` says which ports
every encoding drives (`Decodes`, `DecodesKind`), one lemma per group of opcodes
(`LoadDecodes`, `StoreDecodes`, ...); it is the only place that looks into the
decision tables.  The other lemmas speak of ports alone.  `AluRight`: an ALU
function is the number its mnemonic stands for.  Sums and shifts follow from the
arithmetic of signed words (`SumRight`, `ShiftRight`), half words from `WrappedIs`
and `HalfSigned`, and the bitwise ones from the fact that a word is determined by
its bits (`BitsExist`, `BitsUnique`).  `SignFlag`: the flag that the branches read
instead of a comparison is the comparison, signed after SUB and unsigned after
USUB, overflow included; `TestRight` goes from there to the six branches.
`ImmediatesWhole` compares decode.sv with the immediate formats bit by bit, field
by field (`Puts`).  Encodings range over all opcodes, all func3 and six values of
func7: 0, 1 and 32, which the instructions have, those next to them that differ
only in bit 25, which is part of a shift amount in RV64 (33), and two that have
no meaning (2 and 3).

For the lanes, an aligned access never leaves its word (`AlignedFirst`), so the
shifts of rd.sv and wd.sv and the byte row agree lane by lane.

### CacheBusProofs

For every size of words, addresses and memory, every length, size and type of
burst, every delay and range check:

| Theorem | Statement |
|---|---|
| `Invariance` | `Spec => []IInv` |
| `NeverModified` | `Spec => [](fault # "modified")` |
| `Soundness` | `Spec => []Sound` |
| `Writing` | `Spec => WritesInOrder` |

They assume `WindowAssumption`: 2^64 is a multiple of the bytes of each burst.
`BusInv` says that the memory is idle or serves the request that is up (`Serving`),
with the master's count of beats, and that the address it has stepped to is that
of the beat for a read of any type, and that of the incrementing burst from the
same start (`Incremented`) for a write.  `Writing` follows for every cycle: the
two addresses agree in all beats but the later ones of FIXED and WRAP writes
(`Strays`), which `WritesInOrder` lets go on as incrementing ones and on which
`WritesAsAXI` fails; there too each beat stores one word, and idle cycles, waits
and reads store nothing.  For a wrapping burst this needs arithmetic: in a window
of l beats an aligned address is a whole number of beats above the lower end, and
stepping it modulo the window is what the mask in ram.sv computes.

### AXIBusProofs

For every size of words, addresses and memory, every length of burst and every
delay and order of the five channels:

| Theorem | Statement |
|---|---|
| `Clean` | `Spec => []Sound` |
| `Held` | `Spec => HeldUntilTaken` |
| `Implements` | `Spec => AsBurstMemory`, if `Served` |

`Served` says that bursts of more than one beat wrap, the only kind the bridge
can pass on (run `axi_types` shows that it is needed), and that every beat
has memory behind it.  The invariant `PhaseInv` takes a transaction apart: the
bridge is `Idle`; or `Reading`, with the memory as many beats into the burst as
the master; or `Writing`, with the address `Accepted` or not and, independently,
the data `Sending`, where the live request is the saved one but for word and
strobe, or `Closing`, where the master may already have gone on to its next
request.  In the refinement the master's memory is what the memory holds plus
the beats taken and not stored (`Stored`, a recursive function): an answered
beat appends one (`StoredAppend`), the response stores them all at once and so
changes nothing that the master could see (`BelievedStep`).

### DriverProofs

For words of one to eight bytes, every set of variables, every length of the
queue and any latency of the memory:

| Theorem | Statement |
|---|---|
| `FrontStays` | `Spec => []Sound` |
| `DriversInOrder` | `Spec => AsInOrder` |

The refinement shows the test what will have happened (`Called`): the queue's
effects on the memory and the variables, one after the other (`After`, a
recursive function).  What such a function is for every queue needs induction;
the library's theorem takes an operator, so `SetInduction` derives it for sets
from the well-foundedness of `<`, and three lemmas say all that the steps need:
a call appends an effect (`AfterAppend`), an answer takes the first one and
makes it real (`AfterHead`), and an empty queue does nothing (`AfterNothing`).
So `Tick` and `Await` do not change `Called` and are stutters.  A swap spans many
cycles.  `LocalsInv` says what its two local variables will hold: the bytes of
the first cell from its first load on, of the second from the second, and
zero outside; it is stated of `Called`, since the loads may still be queued.  With it the
two stores at the end exchange the cells (`Crosswise`), where aligned cells of
one width share a byte only if they are the same (`Disjoint`).

Only model-checked: liveness (`Progress`, `ProgressOrHang`, `Answered`, `Answers`,
`Returns`, `FailureEnds`, `NobodyLeft`, `StatusWorkers`), out of the prover's
reach.

## 5. Not modelled

* `difftest/`: the checker, its devices and the emulator are a third-party test
  environment around a reference model that is a shared library outside the
  repository.  What it reads of the core is modelled (`reg_next`), and so are
  `RAMHelper2` and the helpers of `ram.cpp` that the processor runs on; not the
  stuck-core limits (difftest.cpp 393), the emulator's fork snapshots (emu.cpp
  410), the ring of its UART (uart.cpp 27), nor the AXI and DRAM memories, none
  of which this processor's bus reaches.
* `verilate/include/thirdparty/`: CLI11.hpp (options) and nameof.hpp (reflection)
  are header libraries of 9,274 lines, more than two thirds of the C++ code
  beside difftest.  They are not this program's logic, and of the remaining
  3,749 lines most are declarations, macros, option tables, formatted output,
  waveform files and start-up code without state.
* Of the modelled parts of `verilate/`: the comparison of two models
  (`CMP_TO`), the plugins STAT and DEBUG, which follow the pattern of the four
  modelled ones; the parsers' text (what they deliver is modelled in `Image`);
  memory dumps; the opening of the pty; the text trace; the allocator of cells.
* Of `vsrc`: `trint`, `swint` and `exint` beyond the registers, since the core
  ignores them; `CBusMultiplexer` and `SimpleArbiter`, which nothing
  instantiates; misaligned accesses (the memory does not check them either; the
  lanes round the address down).
* The disassembled test programs.
