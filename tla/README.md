# A TLA+ verification of cpu_sim

`cpu_sim` is a cycle-level simulator of a RISC-V-like machine with two CPU
models: a five-stage scalar pipeline and an out-of-order CPU that implements
Tomasulo's algorithm with a reorder buffer, distributed reservation stations and
a branch predictor.  This directory holds TLA+ models of it, the TLC
configurations that check them on small instances, and TLAPS proofs of their
invariants.  Paths below are relative to `src/` of the repository.

## 1. Inventory

### Components

| component | state | operations | interacts with |
|---|---|---|---|
| **Instruction set** (`isa/isa.h`, `isa/instruction.cpp`) | none | opcodes, registers, constructors | everything |
| **TomasulosCPU** (`tomasulos/tomasulos.cpp`) | `physicalRegisters`, `memory`, `instructionInROBCount` and statistics | constructor, `Cycle`, `flush`, `Run` | calls all the parts below in a fixed order |
| **Reorder buffer** (`reorderBuffer.cpp`) | circular array, `head`, `tail`, `count` | `push`, `pop`, `updateField`, `Cycle` (commit), `triggerFlush` | writes registers, memory and BTB; broadcasts on the bus; flushes the CPU |
| **Common data bus** (`cdb.cpp`) | none that matters | `broadcast` | writes stations and status table |
| **Reservation stations** (`reservationStation.cpp`) | per station: empty/valid/busy, two source tags, two values, age | `set`, `clear`, `flush`, `getNextReady`, `getOldestReady`, `allStationsEmpty` | filled by decoders, read by units, cleared by the bus |
| **Register status table** (`regStatus.hpp`) | per register: tag, valid bit, value | rename, broadcast update, `flush` | decoders, bus |
| **Decoder** (`decoder.cpp`) | reads `physicalRegisters[PC]` | `Cycle`: fetch, allocate, rename, predict | fills stations, status table, reorder buffer, BTB |
| **Functional units** (`functionalUnit.cpp`) | load/store units keep an instruction between two cycles | `AdderUnit::Cycle`, `LoadStoreUnit::Cycle`, `flush` | stations, memory, reorder buffer |
| **Branch target buffer** (`BranchTargetBuffer.hpp`) | `mode`, `targets`, `predictionBits` | read and written in place by decoder and reorder buffer | shared by all branches |
| **Scalar pipeline** (`cpu/`, `isa/isa.cpp`) | one latch per stage, registers, memory, `triggerFlush`, `running` | five `onCycle`, the moves between the latches (`HasSpace`, `AcceptData`), flush, `CPU::Cycle` | scoreboard; the main loop reads `running` |
| **Scoreboard** (`isa/scoreboard.cpp`) | one validity bit per register | `isValid`, `setValid`, `setInvalid` | cleared by decode, set by write-back and flush |
| **Parser** (`parser/parser.cpp`) | `labelTable`, `variableTable` and the counters, globals of the process; the program and the data of this call | `parse`: lines of text and data, `parseImmediateValue`, the passes that patch labels and variables in | produces the program and the memory both CPUs run |
| **Command line, debug output, tests** | options | – | – |

### What is hard, and what must hold

Nothing runs in threads, but the out-of-order CPU is a concurrent system in one
loop: decoders, units and the commit stage work on the same tables in one cycle,
on instructions of different ages, some of which do not exist architecturally.

* **Tags are names that are reused.** A tag (the string `ADDER02`) names a station,
  the reorder buffer entry of its instruction and the producer other stations
  wait for.  It is reclaimed by the broadcast at commit and by a flush, and the
  flush is followed by one more broadcast of a tag it has just reclaimed.
  *Must hold:* filled stations and entries in flight have the same tags, each once.
* **Renaming.** The status table must name the youngest writer in flight, while
  older writers of the same register commit and broadcast.
* **Operands.** They arrive from the table at decode or from the bus later.
  *Must hold:* what arrives is the value the register has when the instruction commits.
* **Late answers.** A load/store unit takes two cycles.  *Must hold:* it never answers for an entry
  that has been flushed, finished, or replaced by one with the same tag.
* **Speculation.** A branch is checked at commit against the BTB slot as it is then, not against what was
  predicted.  Slots are shared by branches 256 apart, and the index reaches one past the arrays.
  *Must hold:* what is in flight behind a branch is what commit will compare it with, and fetch never leaves the program.
* **Memory order.** Loads read memory when they execute, stores write it when they commit.
* **Limits.** A full reorder buffer, exhausted stations, a buffer of one or two entries.
* **Termination.** `Run` ends only if a decoder has stalled and everything has drained.
* Over all of it: *the program's effect is that of executing one instruction at a time.*

In the scalar pipeline:

* **Stages run from write-back to fetch**, so each sees what the later ones did in the same cycle, and a flush comes last.  A
  store behind a taken branch or HLT has reached memory by then.  *Must hold:* otherwise a flush leaves no trace.
* **Stalls.** A unit that waits keeps its latch, and what is in front of it runs on.  *Must hold:* no instruction is lost, repeated or overtaken.
* **One bit for all writers of a register.** The first to write back sets it.  *Must hold:* a register is invalid
  while something in flight writes it, and is not invalid for ever.  PC's bit is cleared by every branch and not set again by one that is not taken.
* **Old operands.** Values are read at decode and used up to three stages later.
* `running` is not set by the constructor, and `program->at` may throw.

In the parser:

* **Tables survive a call**, while the counters start again.
* **References are resolved late**: a branch to a label not yet seen holds its own place in `imm` until the end,
  a variable the name of what it waits for.  *Must hold:* nobody overwrites the place, and every lookup at the end finds its entry.
* **Words left over.** A line with fewer words than the code looks at is completed by those of the line before.
* `IN_DATA_SECTION` is read before it is set, and the result of a lookup that failed is written to.

`PROJECT.json` lists every hazard at its line with the properties that cover it.

## 2. Plan

Done, in this order:

1. `ISA`, `SequentialISA`, `Tomasulo` and `TomasuloProperties`: the out-of-order CPU,
   its invariants and the refinement of sequential execution.
2. `TomasuloTypeProofs`, `TomasuloDataflowProofs`, `TomasuloOrderProofs`: type correctness, the data-flow
   invariant, ages, final results and the use of the reorder buffer, for every configuration.
3. `EntryQueue`, `ReorderBuffer`, `ReorderBufferProofs`: the circular array with `head`, `tail`, `count` and the
   operations used on it, proved to refine the bounded queue that `Tomasulo` takes it for.
4. `ScalarPipeline` with its scoreboard, `ScalarProperties` and `ScalarProofs`: the same promise, `SequentialISA`, for the programs this CPU keeps it for.
5. `Parser`, `ParserProperties` and `ParserProofs`: the tables and the resolution of labels and variables, over abstract lines.
6. `TomasuloRefinementProofs`: `SpeculationPath`, `FetchInBounds` and the refinement of `SequentialISA`.

Left:

* The parser meets the CPUs in one property (`FeedsTheCPU` and `WellFormed`), not in one state machine.
* The counter `decodes` is unbounded in the model; its overflow after 2^31 decodes would reverse ages.

## 3. The modules

| module | what it is | code |
|---|---|---|
| `ISA` | words, opcodes, instruction constructors, the ALU and address arithmetic | `isa/isa.h`, `isa/instruction.cpp`, `functionalUnit.cpp` |
| `SequentialISA` | the promise: one whole instruction at a time | – (abstract) |
| `Tomasulo` | the out-of-order CPU, one action per call of `TomasulosCPU::Cycle` | `tomasulos/*` |
| `TomasuloProperties` | invariants, action properties, refinement, documented promises | – |
| `EntryQueue` | the promise of a reorder buffer: a bounded queue of entries, oldest first | – (abstract) |
| `ReorderBuffer` | the circular array behind it, one action per call that changes it | `reorderBuffer.cpp` |
| `ScalarPipeline` | the in-order CPU and its scoreboard, one action per stage and outcome | `cpu/*`, `isa/scoreboard.cpp`, `isa/isa.cpp`, `main.cpp:160-190` |
| `ScalarProperties` | its invariants, the refinement of `SequentialISA`, documented promises | – |
| `Parser` | the assembler, one action per kind of line, item of data and pass | `parser/parser.cpp` |
| `ParserProperties` | its invariants, and what a file means | – |
| `MCPrograms` | four-bit words, two registers and the instructions TLC's programs are made of | – |
| `MCTomasulo`, `MCScalar`, `MCParser` | the families of programs and files of the runs | – |
| `ISAProofs` | arithmetic stays in words; what the constructors build | – |
| `TomasuloTypeProofs` | `TypeCorrectness` | – |
| `TomasuloDataflowProofs` | the inductive data-flow invariant and what follows from it | – |
| `TomasuloOrderProofs` | every step is a step of the queue; ages; results are final; the oldest entry proceeds; loads behind stores | – |
| `TomasuloRefinementProofs` | the path of fetch, its bounds, the values, sequential execution, and where the refuted promises hold | – |
| `ReorderBufferProofs` | the array refines the queue | – |
| `ScalarProofs` | types, order, locks, operands, and sequential execution | – |
| `ParserProofs` | types, places and lookups; what a file becomes | – |

### How `Tomasulo` corresponds to the code

`TomasulosCPU::Cycle` calls the reorder buffer, the adders, the load/store units
and the decoders in this order.  The variable `stage` says whose turn it is,
`unit` which of them.  Each action is one call:

| action | code |
|---|---|
| `CommitResult`, `CommitBranch`, `CommitStore`, `CommitMispredicted` | one iteration of the loop of `ReorderBuffer::Cycle`, with the broadcast and the `pop`; the last one contains `TomasulosCPU::flush` and every part's `flush` |
| `CommitStoreOutside` | a store outside `memory` |
| `CommitDone` | the loop's exit |
| `AdderIdle`, `AdderExecute` | `AdderUnit::Cycle` |
| `LoadStoreIdle`, `AddressCalculation`, `MemoryStore`, `MemoryLoad`, `MemoryLoadFault` | `LoadStoreUnit::Cycle` by phase |
| `FetchFault`, `DecodeStall`, `DecodeIssue`, `DecodeBranch` | `TomasulosDecoder::Cycle` and the loop around it in `TomasulosCPU::Cycle` |
| `EndCycle`, `EndRun` | the end of `Cycle` and the loop of `Run` |

### How `ReorderBuffer` corresponds to the code

`Push` and `UpdateField` are the methods of these names; `Pop` is `pop` as the commit loop calls it, for an oldest
entry that is valid, and `TriggerFlush` is the loop of `pop`s in `triggerFlush` together with the `pop` after it, which finds the
buffer empty.  `Occupied` is the test of a position in `updateField` (and `print`).  An entry is its tag, its valid bit
and what a unit stores in it.  The array starts with arbitrary contents, since the code does not initialise it.

The two views of the reorder buffer meet in `EntryQueue`.  `ReorderBuffer` implements it by reading the array from
`tail` on (`QueueSpec`); `Tomasulo`, with its sequence `rob`, uses no other operations than those of the queue (`RobIsQueue`).

### How `ScalarPipeline` corresponds to the code

`ScalarPipeline::Advance` runs `onCycle` of the units from write-back to fetch, and then moves what they hold in the same order.  No unit looks at
another's latch in `onCycle`, and a move looks at nothing but the latch in front; so a unit's turn and the move out of it are one action, and `stage` says whose turn it is.

| action | code |
|---|---|
| `WriteBackIdle`, `WriteBackNothing`, `WriteBackResult`, `WriteBackJump`, `WriteBackNotTaken` | `WriteBackUnit::onCycle` by case; HLT clears `running` |
| `MemoryIdle`, `MemoryNotRequired`, `MemoryLoad`, `MemoryStore`, `MemoryFault` | `MemoryAccessUnit::onCycle` by case, and the move to write-back |
| `Execute` | `ExecuteUnit::onCycle`, and the move to memory access |
| `DecodeOperands`, `DecodeStall` | `DecodeUnit::onCycle`, and the move to execution |
| `Fetch`, `FetchFault` | `FetchUnit::onCycle`, and the move to decode |
| `Refill`, `Flush` | the end of `Advance`, the increment of PC in `CPU::Cycle`, and the test of the main loop |

### How `Parser` corresponds to the code

| action | code |
|---|---|
| `Open` | `parse` up to its loop |
| `ReadNothing`, `ReadDataMark` | empty lines and comments; `.data` |
| `ReadLabel`, `ReadInstruction` | the text section: `words[0]` is a label or an opcode; the instruction with `parseImmediateValue`, and what the passes are to patch |
| `RepeatLabel`, `RepeatInstruction` | a line of blanks, which leaves the words of the line before where they were |
| `ReadUnknown`, `ReadOutOfRange` | an exception that is caught, and memory no word was stored in |
| `ReadItems`, `PushNumber`, `PlaceVariable`, `DataFault` | a line of the data section, split into its items, and its items one by one |
| `EndOfFile`, `UpdateLabels`, `UpdateVariables` | the end of the loop and the two passes |
| `NextFile` | another call of `parse` in the same process, as `tests` do |

### Abstractions

Why they are sound:

* A tag is a record of unit kind, unit and slot.  In the code it is a string of the same three parts; the slot
  is one digit (`StationsPerUnit \in 1..10`, 3 in the code), so different records are different strings.
* In `Tomasulo` the reorder buffer is a sequence, oldest first; `ReorderBuffer` shows that the array is one.
* `instructionInROBCount`, statistics, printing, `--step` and operations that have no caller are left out.
* `int32_t` is a word of `2 * HalfRange` values with wrap-around.  Shifts and bitwise operators are the host's:
  a constant `BitOp`, of which only closure over words is assumed.
* A `NOP` has no registers in the code (`REGABI_UNUSED`).  The out-of-order decoder returns before it looks at them; in the scalar pipeline
  their numbers are behind the 33 registers and bits, in the padding of the allocations, where nothing else is.
* Undefined behaviour: a load outside `memory` yields some value of `Garbage` or ends the program; a store outside it
  ends the model, since nothing can be said about what follows; the word past the end of the BTB arrays starts as some value of `BtbOverrun`;
  `running` and `IN_DATA_SECTION` start as any value that `RunningAtStart` and `InDataAtStart` admit.
* A latch of the scalar pipeline is the address of its instruction and the values computed for it: all that `AcceptData` copies besides comes
  from the program, which does not change.  What an empty latch last held is never read.
* A line of a file is what its words say: a label, an instruction with the one operand that can be a number, a name or nothing, items of data.
  Splitting into words, the spelling of registers and numbers, indentation and comments behind an instruction are left out.
* Words that a line does not have are read from the storage of the vector.  The model gives them what a build with the makefile's
  flags finds there, the words last stored, and stops (`crashed`) where none was.
* `decodes` is a natural number here and an `int32_t` there (listed as a hazard).

## 4. The runs

| run | shows |
|---|---|
| `integrity` | Tags, renaming, operands, ownership of executions, ages and results stay consistent, and the oldest entry can always proceed, for **all** 1331 programs of three instructions over eleven, also those that are not well formed: no HLT, endless loops, branches out of the program, NOPs, PC as an operand, x0 as a destination, addresses outside memory |
| `speculation` | `SpeculationPath`, `FetchInBounds`, `SequentialSpec` and `EventuallyHalts` on two decoders and two adders, in all three prediction modes, with a BTB whose slots everything shares: counted loops, and every well-formed program of four instructions and HLT without a load and a store of one address |
| `two_entries` | with `-r 3`, a buffer of two entries, loads and stores of the same address are sequential too: both are put on the last unit, which takes the older one first (`LoadsFollowStores`), so that every load commits what memory holds (`LoadsReadCommittedStores`, the promise `stale_value` refutes).  With three entries they are not |
| `circular` | the array of three positions implements the bounded queue (`QueueSpec`), `head`, `tail` and `count` agree (`Bookkeeping`), and `updateField` visits exactly the entries in flight (`OccupiedExactly`), through wrapping around, filling up and flushing |
| `pipeline` | the scalar pipeline on **all** 2744 programs of three instructions over fourteen, on the well-formed ones of four instructions and HLT over seven, and on counted loops: `InOrder`, `LocksAreHeld`, `WritersAreGuarded`, `ValuesAreCurrent`, `ImplementsSequential`, `KeepsRetiring` |
| `parser` | all files of four lines over eight, with and without data, of three lines over seventeen with six data sections, and two files in one process: `UnresolvedHoldPlace`, `VariablesAreKnown`, `AssembledAsWritten`, `FeedsTheCPU` |
| `stale_value` | *finding:* a load commits a value an older store has already replaced |
| `zero` | *finding:* x0 becomes non-zero |
| `nop` | *finding:* a NOP ends the program |
| `shadow` | *finding:* a store that a taken branch skips changes memory |
| `load_base` | *finding:* the scalar CPU loads from an address that does not depend on the base register |
| `blank_line` | *finding:* a line of blanks gives the instruction before it once more |

The last six check one documented promise each and are expected to be violated; `PROJECT.json` quotes the promise
and names the line.

### Properties of the out-of-order CPU

* `TagDiscipline`, `RenameTable`, `OperandFlow`, `ExecutionOwnership`, `ReadyHasOperands`: the data flow.  The last two imply that
  the assertions of `reorderBuffer.cpp:312` and `reservationStation.cpp:167,187` never fail.
* `OldestProceeds`: the oldest entry is finished, with a unit between its two cycles, or ready to be taken.  The machine waits for nothing else, so this is
  what keeps it from standing still: a broadcast that is missed, or readiness that is tested too early, breaks it.
* `AgeOrder`: "oldest" in `getOldestReady` means oldest in program order, through flushes.
* `ResultsAreFinal`: an action property; a finished entry is not changed by anyone.
* `RobIsQueue`: an action property of refinement; entries join unfinished and while there is room, are finished by tag, and leave finished and in order.
* `SpeculationPath`: for each entry, what follows it is what commit will accept, with the BTB as it is *now*.  This is what
  makes the late comparison with a shared slot harmless: whoever overwrites the slot is a branch in flight behind it, or a flush.
* `FetchInBounds`: no stored target, stale or of another branch, and no flush sends fetch out of a well-formed program.
* `SequentialSpec`: the refinement mapping takes the committed registers, memory, and the PC of the oldest entry in flight
  (or the fetch address if there is none); every commit is one step of `SequentialISA`, every other action a stutter.
* `LoadsFollowStores`: in a buffer of two entries a load behind a store is taken by its unit only when the store is finished.  No code compares
  addresses or makes a load wait.  It follows from the choice of the unit, the order of ages, the broadcast that completes the oldest entry's operands and the order of the parts of a cycle.
* `EventuallyHalts`: under `WF_vars(Step)`.

### Properties of the scalar pipeline

* `InOrder`: what follows an instruction is in the next occupied unit or the next to be fetched, so no stall loses or
  repeats one and no flush leaves one behind.
* `LocksAreHeld`: an invalid register (other than PC) has a writer in flight: a reader that stalls is waiting for something.
* `WritersAreGuarded`: the converse, for programs in which no two writers of a register overlap (`NoOverlap`).  One bit is enough for exactly these.
* `ValuesAreCurrent`: what an instruction read at decode, and what has been computed from it, is what it would read when it retires.
* `ImplementsSequential`: for `Suitable` programs, the refinement of `SequentialISA`.  A store retires in memory access, everything else in write-back.
  `Suitable` names what the CPU does not deliver: PC as an operand or a computed jump, x0 as a destination, loads with a base register, a store right
  behind a branch or HLT, overlapping writers.
* `KeepsRetiring`: under fairness, write-back is reached again and again until the run ends.

### Properties of the parser

* `UnresolvedHoldPlace`: a branch whose label is unknown keeps its own place in `imm` until the pass subtracts it.
* `VariablesAreKnown`: the second pass never goes through `end()`, whatever text is left over on an instruction.
* `AssembledAsWritten`: a `Tidy` file whose labels are new to the process is given its meaning, which `ParserProperties` defines without reference to
  tables or passes: instructions in order, branches relative to themselves, variables replaced by the place of their data, and the numbers of the data section
  in order.  A file is tidy if it has no line of blanks among its instructions, defines the labels and variables it uses, gives labels to branches only, leaves
  no variable to a line with `offset(register)`, and has nothing but data below `.data` (there, a label or an instruction is read as numbers, most of them zeros).
* `FeedsTheCPU`: a tidy file that ends in HLT, has fewer instructions and numbers than there are non-negative words, writes PC only in branches and gives every branch a label in front of an instruction becomes a `WellFormed`
  program of what the constructors build: what the two CPUs' models assume.

### Bounds

* **Circular array** of 3 positions with two tags: `head` and `tail` meet at every position both empty and full, and wrap around any number of times;
  entries of equal tags occur.  The counters are bounded by the code.
* **Words** have four bits: enough for wrap-around, negative offsets and every loop counter; nothing in the control depends on the width.
* **Two registers** besides x0 and PC: two writers of one register and readers of both already give every RAW, WAR and WAW pattern.
* **Reorder buffer** of 2, 3 and 4 entries, **2 stations per unit**, 1-2 units of each kind, 1-2 decoders: both the full buffer and the exhausted
  stations occur, and tags are reused several times in a run.
* **BtbSize** 1 or 3 instead of 255: programs of 5-6 instructions then do what programs of 256 do to the real one, that is, two branches
  share a slot and one uses the word past the end.
  That word is 0 at first in these runs, what a fresh heap block holds behind an allocation of 1020 bytes; `BtbOverrun` admits any other value in the model and the proofs.
* **MaxDecodes** bounds the decode counter and is the only bound that is not in the code.  In runs of well-formed programs it is never reached
  (`EventuallyHalts` would fail); in `integrity` it ends endless programs after 12 decodes, enough to fill, flush and refill the buffer of three twice.
* **Memory** has two words, holding 2 and 3, so that a loaded value differs from a computed one.
* **Scalar programs.** An operand is read one stage behind decode and written back three behind it, so two instructions
  interact at a distance of one to three.  Four instructions and HLT give every pair and every pair of pairs at these distances; the loops, up to three
  iterations of five instructions, add a full pipeline that is flushed again and again.
* **Files.** A reference and the definition it refers to, twice, need four lines; the left-over words and
  a variable's first use need three.  Two labels, two variables, and sessions of two files of two lines over a shared label and a shared variable.

### Fairness

For `Tomasulo`, `FairSpec` assumes weak fairness of `Step`, the disjunction of everything the machine can do.
`TomasulosCPU::Run` is a loop that calls `Cycle` until it returns true, and each call goes through its parts unconditionally; so some
step is always taken until the run ends.  For `ScalarPipeline` it is the same: the loop of `main.cpp:160-190` calls `Cycle` while `running` is set.
No fairness of single actions is assumed: the order is fixed by the code and by `stage`.  The parser has no liveness property.

### Mutants

Each property of a passing run is broken by a plausible bug.  The mutated operators stand next to the originals
under comments that begin "A slip" or "Slips":

* in `Tomasulo`, a broadcast that looks at one operand only, a flush that forgets
the stations, the tags or the units, a test for a full buffer that is one too late, ages that count cycles, a result stored for every
tag that ends in the same digit, a target that is relative to the next instruction, a prediction
that is not recorded, a swapped misprediction test, a station ready after its first operand, or only at the broadcast after its last, the balanced choice of a unit that the
code's comment describes;
* in `ReorderBuffer`, a push into a full buffer, a full buffer taken for an empty one, a flush that resets the count only;
* in `ScalarPipeline`, a register that is written and not released, a jump without a flush, a second operand that is not looked up, a
decode unit taken for free, an end of the program that is not looked at, a scoreboard that a flush leaves alone;
* in `Parser`, a table in which the last insertion wins, an address relative to the next instruction, a place that is not
kept, a variable that is not entered when it is used, the place of the number before it.

## 5. What is proved

### The out-of-order CPU

The theorems are about `Spec` of `Tomasulo` for **every** value of the constants that satisfies five named assumptions:
`WordAssumption` (at least two words), `RegAssumption` (x0 and PC are not general registers), `BitOpAssumption` (shifts and
bitwise operators return words), `ConfigAssumption` (at least one unit of each kind, a non-negative memory size, the three modes) and `InputAssumption`
(a program is a non-empty sequence of what the constructors build, short enough that its indices are words).  No assumption excludes ill-formed programs;
where a theorem needs more it says so.

* `TypeCorrectness` (`TomasuloTypeProofs`): `Spec => []TypeOK`.  It contains the capacity of the reorder buffer and that results are words.
* `Dataflow` (`TomasuloDataflowProofs`): `Spec => []DataflowInvariant`, and from it `TagsAreUnique`, `RenamingIsCorrect`,
  `OperandsAreCorrect`, `ReadyIsComplete` and `ExecutionsAreOwned`, the statements the `integrity` run checks on a small instance.
* `UsesQueue`, `FinishedIsFinal`, `AgesFollowTheProgram` (`TomasuloOrderProofs`): `Spec` implies `RobIsQueue`, `ResultsAreFinal` and `[]AgeOrder`.
* `CompleteStationsAreValid` and `OldestIsNeverStuck`: a station with both operands is marked valid, and so `Spec => []OldestProceeds`.
* `LoadsWaitForStores`: `Spec => []LoadsFollowStores`, if the buffer has one or two entries and a unit a station for each (`TwoEntries`; with the code's three
  stations, `-r 2` and `-r 3`).
* `PathIsWhatCommitAccepts` (`TomasuloRefinementProofs`): `Spec => []SpeculationPath`.
* `FetchStaysInside`: `Spec => []FetchInBounds`, if the word past the BTB is at first no address outside a program (`OverrunInside`).
* `ImplementsSequentialISA`: `Spec => SequentialSpec`, if the buffer has an entry (`RobSize > 1`) and every program is `Regular`
  (well formed, no NOP, no x0 as a destination, no PC as an operand) and has loads and stores of different addresses (`Separate`).  Apart from the first, these conditions are
  the findings 1 to 3 and an operand no document describes.  The programs of the run `speculation` are `Orderly`, that is, both, which TLC verifies (`SpeculatingIsOrderly`).
* `TwoEntriesSuffice`: `Spec => SequentialSpec` under `TwoEntries`, if every program is `Regular`; loads and stores may address what they like.
  The programs of the run `two_entries` are regular (`AliasingIsRegular`).

The promises that runs refute hold under conditions, and these are the conditions:

* `LoadsAreCurrent`: `Spec => []LoadsReadCommittedStores`, if every program is `Regular`, and `Separate` or the buffer small (`TwoEntries`).
* `OnlyHaltEndsARun`: `Spec => []HaltsOnlyAtHalt`, if the buffer has an entry and no program a NOP (`WithoutNop`).
* `ZeroStaysZero`: `Spec => []ZeroNeverChanges`, if no instruction that writes a register names x0 (`ZeroIsNoDestination`).
  The last two hold for programs that are not well formed too.

*The data flow.*  None of these properties is inductive alone: that an operand carries the right value needs that its producer's tag is unique,
that uniqueness needs that filled stations and entries coincide, and the value the table hands out needs the table to be right.
`DataflowInvariant` is their conjunction with three facts about what is carried along: `CarriesInstruction` (entry and station still hold the instruction of
their PC), `NeverRenamed` (nothing ever waits for x0 or PC) and `ValidHasOperands` (a valid station has both operands).  Its
preservation is proved action by action, and for each action conjunct by conjunct.  Two lemmas carry the weight:

* *commit*: when the oldest entry leaves and broadcasts, an operand that waited for it now has the committed value, one that
  waited for another producer still does, with positions moved up by one;
* *issue*: appending an entry makes it the youngest writer of its destination and of nothing else, and its operands are what the table says.

A flush empties the buffer, and all the quantified conjuncts hold over the empty sequence; what is to be shown is that the trailing broadcast finds nothing to match
and that the table equals the committed registers.

*The order.*  With `DataflowInvariant` each step does one of five things to the reorder buffer (`QueueStep`): it
keeps it, pops a finished oldest entry, flushes, answers for the tag of an unfinished entry in flight, or appends
an unfinished entry that has an empty station.  `NextIsQueueStep` shows this once; that the answer finds its entry is `ExecutionOwnership`.
`UsesQueue`, `FinishedIsFinal` and `AgesFollowTheProgram` then need five cases each.  `RobIsQueue` reads them off.  For `ResultsAreFinal` a tag in flight is unique, so neither the answer nor the new
entry can bear the tag of a finished one.  `AgeOrder` becomes inductive with "every age in flight is below the decode counter".

*Progress.*  A station becomes valid in the step that gives it its last operand (`CompleteIsValid`); this is inductive with `DataflowInvariant`.  The oldest entry has no
older writer in flight, so by `OperandFlow` it waits for nothing: its station is valid (`OldestIsReady`).  If it is taken and not finished, `ExecutionOwnership` names the unit that has it.
That commit, the units and the decoders come round again is the fairness of `Step`, and the step from there to `EventuallyHalts` stays with TLC.

*Loads and stores.*  `AccessInvariant` is the argument why a load does not overtake a store in a buffer of two.  All loads and stores are on the last unit
(`OnLastUnit`): while there is room, at most one of its stations is filled, and `StationToUse` prefers it.  What stands before the load is the oldest entry, which waits for nothing
(`OldestIsReady`); being older (`AgeOrder`) it is taken first, and the unit is free again only when it is
finished.  The unit has its next turn in the next cycle, and no cycle gets as far as the units with a finished store in front (`StoreIsUnfinished`).

*The path.*  Each branch in flight has claimed its slot: the slot has a target, and a later branch of the slot keeps the target that is stored or leaves one that
sends fetch to where it now goes.  So the address behind each entry is a function of its instruction and of the slot, and stays so while other branches come and go; only
a flush changes a slot under a branch in flight, and then none is left.

*The bounds.*  Every target a slot can hold is a valid address: it was computed by a branch of the program, and a well-formed program has no branch that leaves it.
The same holds for the result of a branch in flight, where a flush will send fetch.  `OverrunInside` is needed for the one word no branch has written.

*The values.*  `ValueInvariant` says that a finished entry holds what its instruction computes from the operands in its station (`ResultsAreComputed`),
with what a unit between its two cycles has read (`UnitsHoldOperands`), that x0 is 0, and which kinds of entries there are.  An operand that is present is not
changed by any broadcast.  The word of a finished load is not changed by a store (`LoadsKept`): under `Separate` their addresses differ, and under
`TwoEntries` no finished load has a store in front of it.

*Sequential execution.*  The oldest entry has no older writer in flight, so by `OperandFlow` its operands are the committed values; its commit is then the
instruction's step of `SequentialISA`, and by `SpeculationPath` the entry behind it, or the fetch address, is the instruction's successor.
The run ends only in a cycle in which a decoder has stalled with everything empty (`StallInvariant`); with an entry free only HLT stalls.  Everything else leaves the mapping as it is.

### The reorder buffer

The theorems are about `Spec` of `ReorderBuffer` and assume only `SizeAssumption`: the size asked for is positive.

* `PositionsAgree`, `UpdateVisitsEntriesInFlight`, `ImplementsQueue` (`ReorderBufferProofs`): `Spec` implies `[]Bookkeeping`, `[]OccupiedExactly` and `QueueSpec`.

`Bookkeeping` is inductive; it contains `head = (tail + count) % Max`.  As `count <= Max`, the remainder is at most one
subtraction, so every position is `tail + k` or `tail + k - Max`; with that, the three cases of `Occupied` are decided by linear arithmetic, and
distinct `k < Max` have distinct positions.  So `Push` writes a position that no entry in flight uses, and each action maps to the action of the queue.

### The scalar pipeline

The theorems (`ScalarProofs`) are about `Spec` of `ScalarPipeline` for every value of the constants with `WordAssumption`, `RegAssumption`, `BitOpAssumption`
and this module's `ConfigAssumption` and `InputAssumption`; programs are as arbitrary as above.

* `TypeCorrectness`, `ProgramOrder`, `LocksHaveHolders`: `Spec` implies `[]TypeOK`, `[]InOrder`, `[]LocksAreHeld`.
* `GuardedWriters`, `ValuesStayCurrent`: `Spec` implies `[]WritersAreGuarded` and `[]ValuesAreCurrent`.
* `PipelineImplementsSequential`: `Spec => ImplementsSequential`.
* `SkippedStoresNeedAShadow`: `Spec => SkippedStoresHaveNoEffect`, the promise of finding 4, if no program has a store right behind a branch or HLT (`Unshadowed`);
  it may have anything else that `Suitable` excludes, except results in PC.

`InOrder` with `TurnsTaken` (a unit that has had its turn is empty) places the instructions in flight at consecutive addresses, which is what lets a condition on the program
text, `NoOverlap`, speak about latches.  From it follow `OneWriter` (no two writers of a register in flight) and `SourcesSettled` (nobody in front of an
instruction still writes its operands); decode alone can disturb them, and only by an instruction that `NoOverlap` excludes.  `ValuesAreCurrent` is then a matter of who may still write a
register or a word, and each retirement is a step of `SequentialISA`.  A flush discards what no longer is on the path, and
`ShadowIsHarmless` says that the one unit that still ran did not hold a store; it needs `Unshadowed` only.

### The parser

The theorems (`ParserProofs`) are about `Spec` of `Parser` with `SessionAssumption` (files are sequences of lines) and those of `ISA`.

* `TypeCorrectness`, `PlacesAreHeld`, `LookupsSucceed`: `Spec` implies `[]TypeOK`, `[]UnresolvedHoldPlace`, `[]VariablesAreKnown`.

* `FilesKeepTheirMeaning`: `Spec => []AssembledAsWritten`.
* `FilesFeedTheCPU`: `Spec => []FeedsTheCPU`.

*Lookups.*  The invariant adds that the text left over from earlier lines is known too: a variable is entered in the same step in which its name gets into `words`, and nothing is ever removed.

*The meaning of a file.*  `Meaning` is defined by sets of lines and their cardinalities, so no recursion has to be unfolded; what induction there is goes along the run.  `ReadInv`
says of the lines before `next` what `AssembledAsWritten` says of the file, in every phase:

* `LabelsPlaced`: every label so far has the place of its first line.  A name already in the table comes from this file (`LabelOrigin` and `LabelsAreNew`), so `insert` is right to ignore it.
* `PlacesFilled` and `InstructionsRead`: the instruction on line `i` is at index `Place(i) + 1` and is what `IsEntryOf` allows in this phase: a branch holds its offset, or its
  place and its label until the first pass; the name of a variable waits for the second.
* `LeftOverIsOld`: a variable left in the fourth word is that of the last line with four words; `OffsetsApart` then says that no offset inherits it.
* `DataRead`: the numbers passed are in `data` at their places, and each variable in the table has the last place passed.  `NextItem` shows that the item read next
  is behind all that were passed and before all others, so the length of `data` is its place.

`IN_DATA_SECTION` and the kind of the lines agree by `SectionShape`: text lines are read as text, and behind `.data` a file with instructions is read as data.
The operators take the file and what has been made of it as parameters, so the lemmas about one more line are about constants and the steps only apply them.
`FilesFeedTheCPU` needs in addition that the last index belongs to the last instruction (`PlacesIncrease`) and that offsets and places are words (`MeaningType`).

### Model-checked only

`EventuallyHalts` and `KeepsRetiring`: liveness under fairness, which the prover does not handle.  Everything else that a passing run checks is a theorem.

## 6. Findings

Each is shown by a run:

1. Loads pass older stores (`functionalUnit.cpp:143`, against `functionalUnit.hpp:47`, `reorderBuffer.cpp:261`): `stale_value`.
   Consequently `SequentialSpec` is about programs without such pairs, or a buffer of two entries (`TwoEntriesSuffice`), and so is the promise itself (`LoadsAreCurrent`).
2. Commit writes x0 and a flush copies it into the table (`reorderBuffer.cpp:249`, `regStatus.hpp:126`, against `decoder.cpp:175`): `zero`.
   It takes an instruction that names x0 as its destination; there is no other way (`ZeroStaysZero`).
3. NOP stalls as HLT does and ends the run (`decoder.cpp:50`, against `decoder.cpp:49`): `nop`.
   Without NOPs only HLT ends a run (`OnlyHaltEndsARun`).
4. In the scalar pipeline a store right behind a taken branch has been performed when the flush comes (`units.cpp:165`, against `units.cpp:214`,
   `relativeBranchTest.prog:13`): `shadow`.  No other store can take effect out of turn (`SkippedStoresNeedAShadow`).
5. The scalar CPU computes the address of a load from the second operand, which a load does not have (`isa.cpp:41`, against `functionalUnit.cpp:164-173`, `bubbleSort.asm:27`): `load_base`.
6. A line of blanks is parsed as the line before it (`parser.cpp:170`, against `parser.cpp:155`, `parser.cpp:176`): `blank_line`.

Read in the code and not about what a run can tell apart:

* `maxFreeSpaces` is reset for every group (`decoder.cpp:76`), so the emptiest group is not preferred, as the comment at `decoder.cpp:82` says, but the last one with a
  free station.  Repairing it alone would let loads overtake stores in a buffer of two as well: that is the mutant of `LoadsFollowStores`.
* The reorder buffer has one entry less than `-r` says (`reorderBuffer.cpp:29`), and none for `-r 1`.  The theorems are about the capacity it has.
* Prediction bits are trained only by mispredictions (`reorderBuffer.cpp:172`) and read only before a target is known (`decoder.cpp:199`).
* With `offset(register)` the name to be resolved is read from the fourth word of an earlier line (`parser.cpp:233`, `parser.cpp:274`, against `parser.cpp:242`),
  so a variable used there replaces the offset; `OffsetsApart` excludes such files.
* `memDump` reads one word past the end (`cpu.cpp:251`).

## 7. Not modelled

* **Command line** (`main.cpp`): the options choose the CPU and its sizes; both CPUs are modelled and the sizes are constants.  The loop that drives the scalar CPU is part of `ScalarPipeline`.
* **Debug printing** and statistics: output only.
* **Tests and Catch2**: tests were read for what the program is expected to do; `catch.hpp`, four fifths of the repository's lines, is a vendored library.
* Operations without a caller: `ReservationStation::Cycle`, `findByTag`, `setValByTag`, `TomasulosPerformMemoryOperation`, the scoreboard that is always valid.
