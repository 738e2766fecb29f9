# A verification project for the RV32IMCF core, its FPU, its simulator and its configuration tools

TLA+ models of `src/`: an in-order, single-issue RV32IMCF pipeline in Verilog (`src/cpu/pipeline-FPU/vsrc`)
with a single-precision floating-point unit (`src/rtl`), the small SoC that simulates it
(`src/cpu/pipeline-FPU/simple-SoC`), the simulator around it in C++ with debugger and differential testing
(`src/cpu/pipeline-FPU/csrc`, `src/cpu/tools/spike-diff`), and the kconfig programs that configure the build
(`src/cpu/tools/kconfig`). TLC checks the models on small instances; TLAPS proves
the theorems for every value of the constants.

What a step is follows the code. *Hardware*: everything is one clock domain, so **one step is one rising
clock edge**: all `always` blocks fire at once from the register values before it, and what is
nondeterministic is what comes from outside a module: what the program does next, when a slave answers,
when the fetch unit reacts. *Simulator*: one command of the debugger, one call of `trace_and_difftest`, or
one clock cycle with what the loops do after it. *Configuration*: one step on the files, between any two of
which a program may be killed (`Kbuild`), or one key pressed in a dialog (`MenuConfig`).

Paths of the hardware are relative to `src/cpu/pipeline-FPU/vsrc/`, of the simulator to
`src/cpu/pipeline-FPU/csrc/`, of the configuration tools to `src/cpu/tools/kconfig/`, unless they say otherwise.

## 1. Inventory

| Component | State | Operations | What makes it correct | Model |
|---|---|---|---|---|
| Fetch: `ifu.v`, `c_decode.v`, `ibuffer.v` | PC, flush pulse, half-word carried over a word boundary, 16-entry queue | fetch, decompress, enqueue, redirect | every instruction of the predicted path is delivered once, in order; nothing of a flushed path is | `IFetch`; `c_decode.v` is a combinational table, left out |
| Prediction: `bpu.v`, `tage.v`, `ittage.v` | tables, global history, RAS | predict, train, repair | any prediction is harmless; RAS and history are repaired after a flush | left free in the pipeline models |
| I-cache: `icache.v` | tags, data, valid bits, refill state | hit, refill, invalidate on fence.i | a hit returns what memory held at the last fence.i or later | `IFetch`; bus handshake in `AxiMemory` |
| Decode: `decode.v` | `du_bus`, `idu_valid` | take from the queue, hold, be flushed | holds an instruction until the EXU is done with it | `ExuPipe`, `MemPath` |
| Execute: `exu.v`, `bru.v`, `alu.v` | write-back register, commit port, `flush_en`, `fpu_busy` | issue, wait for LSU, MDU, FPU and fence, retire, redirect | each right-path instruction retires exactly once, in order, with the right operands | `ExuPipe`, `MemPath` |
| Bypass: `bypass.v` (twice) | three last results per register file | shift, select | an operand is the youngest older write of its register | `ExuPipe` |
| MDU: `mdu.v` | busy, count, result | start, step, finish | the result belongs to the instruction in the stage | handshake in `ExuPipe` |
| FPU control: `src/rtl/fpu.v`, `fpu_arbiter.v`, control of `fma_unit.v`, `fdiv.v`, `fsqrt.v` | pipeline valid bits, busy, counter | issue, advance, arbitrate, flush | one result for each issued operation, none lost, none for a dead instruction | `ExuPipe`, as this core uses it |
| FPU arithmetic: `src/rtl/fquick.v`, `fcvt.v`, `frm.v`, `fpu_decoder.v`, the data paths of `fdiv.v`, `fsqrt.v`, `fma_unit.v` | operands, partial remainder and quotient, root and residue, product and window | compare, classify, convert, divide, take roots, fuse | the exact result rounded once, with its flags | `FpuUnit` over `FloatCombinational`, `FloatDivide`, `FloatRoot`, `FloatFma` |
| Write-back and CSRs: `wbu.v`, `csr.v` | `regs`, `fp_regs`, `fflags`, `frm`, machine CSRs | write, accrue flags, trap, return | architectural state follows program order | `ExuPipe` (fflags, mepc) |
| LSU: `lsu.v` | `drain_active`, read-channel registers | load, store, drain arbitration, merge | loads see program order, one request at a time owns the D-cache | `MemPath` |
| Store buffer: `store_buffer.v` | 16 entries, head, tail, two counters | allocate, commit, drain, flush, forward | a bounded queue of stores; a flush drops exactly the speculative ones | `StoreBuffer` |
| D-cache: `dcache.v` | FSM, AXI registers, fence counter | load, store, fence.i | each request is one transaction with its own answer | `DeviceCache` |
| AXI bridge: `axi_bridge.v` | current master | arbitrate I-cache and D-cache | an owner keeps the port to the end of its transaction | `AxiMemory` |
| Memory: `simple-SoC/SRAM.v` | FSM, beat counter, array behind DPI calls | read, burst, write | one write per request | `AxiMemory` |
| CLINT, SoC bridge, UART | — | read timer, decode addresses, print | accesses reach the device addressed, once | planned |
| Run loop: `cpu.cpp`, `rv32e.cpp`, `monitor.cpp` | `npc_state`, `g_nr_guest_inst`, the instruction in write-back | c, si, cycle, trace, stop at ebreak | the exit status is good only if the run was | `Simulator` |
| Reference comparison: `difftest.cpp`, `../../tools/spike-diff/difftest.cc` | reference registers, `is_skip_ref`, `last_ref_pc` | step, skip, copy, compare | a right core is never accused; a wrong one is, unless it touched a device | `DiffTest`, `Simulator` |
| Debugger: `sdb.cpp`, `expr.cpp`, `watchpoint.cpp` | two linked lists of watchpoints, their old values | c, si, p, x, w, d, q | no change of a watched value goes by; expressions mean what they say | `WatchPool` (implements `WatchList`), `SdbExpr`, `Simulator` |
| Traces: `trace.cpp` | rings of instructions | append, print | the last entries, oldest first | not modelled: kept for printing only |
| Devices of the simulator: `paddr.cpp`, `device/` | address maps, rtc and serial registers | read, write | an access reaches the device addressed and is skipped in the reference | `Devices`, `Simulator` |
| Expressions: `expr.c` | dependency trees, rewritten in place | join, distribute, transform, compare | a rewriting keeps the value | `KExpr`, `KconfigTrees` |
| Menus: `menu.c` | tree of entries | finalize, visibility | what may be shown is shown | `KconfigMenu`, `KconfigTrees` |
| Symbols: `symbol.c` | user values, cached values, visibility | calculate, set | values obey dependencies, choices, ranges | `KconfigSymbol` |
| Files: `confdata.c`, `conf.c` | `.config`, `.config.old`, `auto.conf`, header, dependency files | read, write, sync, default, minimal | what was saved survives a kill; the dependency file of what changed is touched | `ConfFile`, `Kbuild` |
| menuconfig: `mconf.c`, `lxdialog/` | call stack of dialogs, scroll and cursor, count of changes | keys, resize, edit, search, load, save, exit | keys act on what is drawn; nothing unsaved is forgotten | `Lxdialog`, `MenuConfig` |
| `../fixdep/fixdep.c` | — | turn a list of headers into one of dependency files | — | not modelled: `src/cpu/Makefile` builds it and never runs it |
| Kconfig language: lexer, parser, macros | — | parse | — | not modelled: generated, or text that leaves nothing but the entries |
| Test benches, `src/software`, the older core in `src/cpu/pipeline` | — | — | — | not modelled: stimulus, or an older copy |

**How they interact.** Fetch fills the queue; decode moves one instruction into `du_bus`; the EXU holds
it there until `lsu_ready`, `mdu_ready`, `fpu_valid` and `fence_done` agree (`exu.v:342`, `exu.v:357`),
then loads the write-back register, which the next edge moves into the register files. `bru.v` raises
`flush_en` one edge after a mispredicted instruction has its operands, and keeps it up until the fetch
unit has taken the new address. A store is put into the store buffer when it executes; the EXU's
commit port tells the buffer one edge after retirement; committed heads drain through the LSU's arbiter,
behind loads, into the D-cache, then over the bridge, in competition with I-cache refills, into memory.

**What is hard.** A store retires, commits, drains and is flushed around in different cycles by
different blocks. The D-cache does not latch its request, so arbiter and buffer must hold it stable for
many cycles while flushes, loads and new stores come and go. A load merges bytes forwarded *now* with
bytes read *one edge ago*. FPU, MDU and LSU stall the stage for different lengths and react differently
to a flush: the iterative FPU units stop, the fma pipeline and the MDU carry on, and the LSU stops
requesting.

*In the simulator*, a store reaches its device cycles after it retired, when the reference already runs
another instruction, so the flag that makes the reference skip can meet the wrong one; and ebreak, mismatch and
watchpoint, found in the same step, write one state. *In the configuration tools*, a chain of renames is the
only transaction there is; expressions are rewritten in place, under rules that hold for booleans or for
tristates; and a dialog keeps positions on a list that the edit made from it may have changed. The list of `hazards` in `PROJECT.json` names the lines.

## 2. The modules

| Module | Models | Remarks |
|---|---|---|
| `StoreQueue` | the promise of the store buffer | abstract: a bounded queue with a committed prefix |
| `StoreBuffer` | `store_buffer.v`, whole | `Clock(...)` is the always block with its ports as parameters; closed with any client that reports in order |
| `StoreBufferProofs` | — | the inductive invariant `Consistent`; `StoreBuffer` implements `StoreQueue`; forwarding is right |
| `AxiMemory` | `axi_bridge.v`, `SRAM.v`, bus side of `icache.v` | |
| `DeviceCache` | `dcache.v` without `YSYXSOC` | `is_mem` is the constant 0 in this build, so each access is one transaction |
| `MemPath` | `decode.v`, `exu.v`, `bru.v`, `lsu.v` composed with all of the above | instantiates `StoreBuffer` with `waiting` mapped to the commit port |
| `MemPathProofs` | — | memory under the pending stores is program order, for every instance; this EXU is a client of the buffer |
| `ExuPipe` | `decode.v`, `exu.v`, `bru.v`, `bypass.v`, `wbu.v`, `csr.v`, handshakes of `mdu.v` and the FPU | |
| `ExuPipeProofs` | — | the back end computes what the architecture defines |
| `FetchStream` | the promise of instruction fetch | abstract: a path of predictions, restarted by redirections |
| `IFetch` | `ifu.v`, `ibuffer.v`, `icache.v`, with the takers `decode.v` and `bru.v` | closed with any prediction, redirection, bus timing and stores into code |
| `IFetchProofs` | — | the inductive invariants `OnPath` and `Fresh`; `IFetch` implements `FetchStream`; instructions are whole |
| `FloatFormat` | `fpu_decoder.v`, `frm.v`, the results units pack alike | the format is `FRAC` fraction bits and `BIAS`; the hardware is 23 and 127 |
| `FloatCombinational` | `fquick.v`, `fcvt.v` | the two units that answer in the cycle of the issue: operators |
| `FloatDivide`, `FloatRoot`, `FloatFma` | `fdiv.v`, `fsqrt.v`, `fma_unit.v` | an operator for each combinational part, an action for each branch of the always block |
| `FpuUnit` | `fpu.v` with all five units, serving one operation at a time | composes the above |
| `FloatReference` | — | the promise: exact integers, rounded once |
| `FpuUnitProofs` | — | the digit recurrences of the divider and the square root, for every width and operands; one operation at a time; square roots, quotients, conversions and comparisons are what the reference says |
| `FusedProofs` | — | sums, products and fused forms are what the reference says, outside `Misplaced` |
| `WatchList` | the promise of the watchpoints | abstract: a list, newest first |
| `WatchPool` | `watchpoint.cpp`, `cmd_w`, `cmd_d` of `sdb.cpp` | cells in two doubly linked lists |
| `DiffTest` | `difftest.cpp`, `trace_and_difftest` of `cpu.cpp`, `difftest.cc` | the core as the simulator sees it: one instruction in write-back, device stores that drain later; the reference, a library, executes the program as it is meant |
| `Devices` | `paddr.cpp`, `device/` | who answers at an address, and what ends the program |
| `SdbExpr` | `expr.cpp`, `cmd_p` of `sdb.cpp` | from characters to the value, in words of `WordBits`; `eval` is a function of the token range; `Trees` are the expressions as they are meant |
| `Simulator` | `sdb.cpp`, `cpu.cpp`, `rv32e.cpp` | composes `WatchPool`, `DiffTest` and `Devices` |
| `SimulatorProofs` | — | differential testing never accuses a right core, and a good end is earned; the pool of watchpoints implements `WatchList`; expressions mean what they say |
| `KExpr` | `expr.c` | every rewriting, and `expr_calc_value` |
| `KconfigMenu`, `KconfigSymbol` | `menu.c`; `symbol.c` | the tree `menu_finalize` makes; the values as a function of what the user said |
| `KconfigTrees` | — (the parser's calls of `expr.c`, `menu.c`) | grows any dependency and any menu, piece by piece |
| `ConfFile` | reading and writing in `confdata.c`; the entries of `src/cpu/Kconfig` | a file is a sequence of lines |
| `Kbuild` | `confdata.c`, `conf.c`, the end of `mconf.c` | programs of steps, each of which may be the last; `Look` is a reader of the dependency files, which this repository does not have |
| `Lxdialog` | `lxdialog/*.c` | a box is a record of a dialog's local variables |
| `MenuConfig` | `mconf.c` | composes `ConfFile` and `Lxdialog`; the C call stack is a variable |
| `KconfigProofs` | — | extends `Kbuild` and `MenuConfig`: the saved configuration survives, every change is marked, keys act on what is drawn, nothing unsaved is forgotten |
| `MC*` | — | instances for TLC; `MCSimulator` runs the debugger's expressions (`SdbExpr`) at the first prompt of `Simulator`, and `MCMenuConfig` bounds the steps by a scope |

State and actions carry the names of the registers and always blocks: `DecodeClock`, `BruClock`,
`LsuClock` and so on are the next-state functions of the blocks, their arguments the wires that come in.
Operators with a comment starting with *Mutant* are plausible wrong versions of the definition below
them; the `mutants` in `PROJECT.json` say which property each of them breaks.

*Abstractions.* Addresses are words with byte enables, data a small number per byte. In `ExuPipe` an
instruction computes `v + 1` of its one source operand, so a stale operand is visible in its result; a
misprediction is a free attribute of an instruction. `fmadd`'s second and third operand use the same
network. The load path of `ExuPipe` is a free answer after a free delay; `MemPath` shows that the real
one answers. In `IFetch` a half-word is a number, its own address plus one unless a store replaced it, so
that every mix-up of halves shows. Decoding, ALU and integer multiplication are not represented. In the `Float*`
modules every register width is written with `FRAC`, `BIAS` and `XLEN`: 24-bit significands are `FRAC + 1` bits, the
alignment window of `fma_unit.v` is `WIN = 2 FRAC + 5` = 51 bits, `f2i_mag` is `2 XLEN` bits, and so on; a bit vector is
the integer it spells, cut back (`%`) where the register is narrower than the value. The Booth digits of the
multiplier are modelled, the compressors of the Wallace tree are a sum.

In `DiffTest`, registers, floating-point registers and fcsr are one value: a core that errs anywhere errs there.
`Follow`, `Kind` and `Result` are the program. In `KconfigSymbol`, what the code caches until `sym_clear_all_valid` is
worked out anew from what the user said. The value of a dependency is the constant operator `ExprValue`, given as
`expr_calc_value` of `KExpr` in the instances; the proofs ask nothing of it. What the parser leaves is a table
`[db, order, names, tree]`, kept in a variable: `table` of `MenuConfig`, which nothing changes, and `kconfig` of `Kbuild`,
which is another one of `Tables` after a checkout. In `MenuConfig` a text is its number of lines and an item its place
and its hot letter; `src/cpu/Kconfig` uses no `comment`, `source` or `menuconfig`.
The make of this repository is not in the model: `src/cpu/Makefile:17-18` includes `auto.conf` if it is there, no rule makes it
again, and the binary depends on the sources alone (lines 300-305). What `conf` promises by the files in `include/config` is
promised to a reader that looks at `auto.conf` now and then and takes what was not touched since for unchanged; `Look` is that
reader, external, and does nothing but remember what it saw.
`make menuconfig` is mconf, then `conf --syncconfig`, as there. The questions of `conf` are answered in any order.

*History variables.* `arch` (memory or registers in program order), `arch_csr`, `written` (the head of
the buffer has reached memory), `maybe` (what a half-word of code has held since the last fence.i) and `astray` (the decoder is on a wrong path) are observed, never read by
a modelled block. What a wrong path writes into mepc takes effect (`csr.v` does not look at `exu_valid`), and in program order it is
nothing: `arch_csr["mepc"]` is `Spoiled` from there on until the next write of the right path. So are `honest` (every result so far was right), `absorbed` and `escaped` (a mismatch was copied
into the reference, or overwritten), `late` (a flag raised by an instruction already compared),
`judged` (`honest` as the last clock cycle found it: what trace_and_difftest can have compared) in `Simulator`; `saved` (what was saved
last), `fresh` (`auto.conf` is the newest), `noted` (`auto.conf` as the reader last saw it) and `touched` (since then) in `Kbuild`;
`forgot` (a load set the count of changes to zero and failed) and `edits` in `MenuConfig`. `astray` restricts the program in one way:
nothing on a wrong path is mispredicted once more. Any instruction may stand there.

## 3. The runs

| Run | Bounds | Shows |
|---|---|---|
| `store_buffer` | DEPTH 4, 2 words, 2 lanes, 3 stores | `Consistent`: pointers, counters, bit vectors and outstanding ids agree. `ForwardsYoungest`. `ImplementsQueue`: refinement of `StoreQueue` |
| `mem_path` | DEPTH 2, 2 words, 2 lanes, a byte and a covering word store, CACHE_BLOCKS 2, ARLEN 2 | safety of the whole memory path, and that the real EXU is a client as `StoreBuffer` assumes (`EveryStoreReportedOnce`) |
| `mem_path_live` | one word, lane and store, CACHE_BLOCKS 4, ARLEN 3 | loads and stores leave the stage; committed stores drain |
| `ifetch` | NUM_BLOCKS 2, BEATS_PER_BLOCK 2, MEM_BLOCKS 3, BUFFER_DEPTH 2, two targets, one store into code | unbroken path (refinement of `FetchStream`), whole and fresh instructions, progress |
| `exu_pipe` | N 2, BYPASS_DEPTH 2, DIV_STEPS 1, FENCE_CYCLES 5, registers x0, x1, f0 | operands, results, CSRs, FPU occupancy, retirement, progress; every instruction of the program may also stand on a wrong path |
| `stale_fp_op` | as `exu_pipe` | a finding, section 6 |
| `fpu_arithmetic` | FRAC 3, BIAS 14, XLEN 7 | value and flags of every operation in all five modes (`QuickExact`, `ConversionRounded`, `QuotientRounded`, `RootRounded`, `FusedRounded`); the recurrences step by step (`RemainderBounded`, `NothingLost`, `ResidueExact`) |
| `fcvt_large` | as `fpu_arithmetic` | a finding, section 6 |
| `simulator` | a program of seven instructions, StoreBufferDepth 2, NR_WP 2, MaxSteps 2, Exprs x, rtc and an invalid one, MaxWords 2, Numbers 1 and 3, Levels 2, WordBits 4 | a right core is never accused, a good end is earned, no watched change goes by, the linked cells are a list (refinement of `WatchList`), expressions mean what they say |
| `kconfig_trees` | a tristate and two booleans, 3 operands, 3 entries and a block | every rewriting keeps the value; menus list exactly what the file lets show |
| `kbuild` | two versions of the Kconfig file, nine symbols, MaxStarts 3 | a kill between any two steps loses neither a saved configuration nor a change a reader of the dependency files has to see; what is written is read back |
| `menuconfig` | screens of 14, 17 and 21 lines, MaxEdits 1, MaxDepth 3, ListLines 1, BoxWidth 2, MaxLength 2, MaxScroll 1 | keys act on what is drawn; nothing unsaved is forgotten |

**Why the bounds are enough.**
*DEPTH*: the source has 16. With 2 the ring is empty, partial, full and wrapped, and one committed and one
speculative store can be in it together; the `store_buffer` run takes 4 (two of each, and wrap-around
inside each part), and the theorems of section 4 take any depth.
*Stores*: a byte store and a word store that covers it are what distinguishes "youngest", "merge" and
"overwrite"; the second word of `mem_path` is only read, and shows that a request that changes its address
half-way is noticed.
*CACHE_BLOCKS*: the source has 256, more than DEPTH = 16, which is what finding 3 depends on;
hence 4 in `mem_path_live`. In `mem_path` 2 makes the fence last longer than one cycle.
*ARLEN*: a refill of 3 (`mem_path`) or 4 beats (as in the source).
*BYPASS_DEPTH*: 2 for 3; what matters is a depth greater than one (an older hit behind a younger) and at
least the one instruction the register file is behind.
*DIV_STEPS*: 1 for 12, *FENCE_CYCLES*: 5 for 256: as in the source the fence is longer than any floating-point
operation, so that a result also comes while the instruction may not leave, is lost, and is computed again. *N* = 2: an operand that is one write too old differs from the right one.

*NUM_BLOCKS* 2 for 16, *BEATS_PER_BLOCK* 2 for 4, *MEM_BLOCKS* 3: two blocks share a line and one does not; 32-bit
instructions lie inside a word, across two words of a line, and across two lines, one of which a third block
evicts. *BUFFER_DEPTH* 2 for 16: empty, partial, full. *Targets* 3 and 8: one is the instruction across two lines,
the other in the block that evicts. The store turns the first half of that instruction into a compressed one, so
that a stale half changes the length of what is fetched.

*FRAC* 3, *BIAS* 14, *XLEN* 7: 480 numbers. FRAC must be odd, as 23 is (the digits of quotient and root come two bits at
a time, with a guard bit); 3 gives two digit steps, a first one with its larger digits and a later one. The range of
exponents is wide enough that a term can leave the 11-bit window altogether, a product can be subnormal, and a number
can lie beyond the `2 XLEN` bits of the integer register, and small enough for TLC's 32-bit integers. Conversions and roots
take every number (and every word); division and sums every pair of significands at the exponents that matter; products and
fused forms chosen significands (one unit, ties, all ones, powers of two); exponents at both ends, in the middle and as far
apart as the alignment distinguishes. FRAC 3 does not show a cancellation in which a bit pattern of more than 3 bits
matters, nor the tables of `fsqrt.v` at the full number of steps; the theorems of section 4 close that gap for the
divider's recurrence only.

*simulator*: the program has a compressed instruction (pc + 2), two device stores, a device load, a jump and a second
compressed instruction, so that every way of not being at pc + 4 meets a flag that makes the reference skip, and ebreak, before
which the last instruction retires in the same cycle or in an earlier one.
Two stores wait in the buffer at once. A step may err once, after which the core is wrong for good. Two watchpoints
fill the pool; a third command finds it full. Steps of one and two, and `c`, stop the loop in
each of its ways. The addresses scanned lie in memory, in the clock, at its end and in the serial port. Expressions
(*Levels* 2 over two *Numbers* and every operator, unary ones included) show every pair of neighbouring operators, on both sides, with and
without parentheses; the theorem of section 4 takes any depth.

*kconfig_trees*: three operands are what joining pairwise needs (a pair, and one that is left and meets the result); two
symbols and all constants reach every rule of `expr_join_or` and `expr_join_and`. Three entries are an entry, one that goes under it and one
that goes under that or next to it; a block in which the last two stand may be invisible.

*kbuild*: a symbol that comes, goes or changes between two versions, a choice, a number with a default, a dependency; three
program starts are: one that saves, one that is killed, and one that meets what is left.

*menuconfig*: 14 lines are too few for a menu (`-ERRDISPLAYTOOSMALL`), 17 show three items, 21 seven: fewer than the
menu has, and all of them. A behaviour is followed in one of two scopes (`ACTION_CONSTRAINT InScope`): every key, size and
search with at most one edit, or every edit, load and save with plain keys. The two do not interact but through the list
of items, which an edit changes in the first scope too.

`FloatReference` is written from the definition of the arithmetic, without shifts, guard bits or digits. It decides
tininess after rounding, as the code does, and gives the canonical NaN.
What the arithmetic runs leave out: ties on the subnormal path of the divider in RNE (`HalfwaySubnormal`), tiny terms of
opposite sign that left the window (`Misplaced`), numbers whose leading bits `f2i_mag` loses (`BeyondRegister`); each is a
divergence of section 6, excluded as narrowly as it can be told from the operands.

**Fairness.** `MemPath` has `WF_vars(Next)`: the clock runs. Nothing is assumed of multiplier, fetch or
program, so a property such as `StoresDrain` has its premise in its statement: loads go before drains
(`lsu.v:100`), hence a program that from some point on only loads starves the buffer, by design.
`ExuPipe` has `WF_vars(Clocked(TRUE, TRUE, TRUE))`: infinitely often there is an edge at which the LSU
answers, the divider finishes and the fetch unit takes the redirection. The first is what `MemoryOpsFinish`
shows; a multiplication takes two edges, a division at most 33 steps; `ifu.v` takes every
redirection (`RedirectTaken`). All three hold their answer back at most for a bounded time whatever the others do,
and edges with other combinations remain possible in between. `StoreBuffer` needs no fairness.
The simulator and the configuration tools are checked for safety only: when the user comes back is nobody's promise.
`IFetch` has `WF_vars(Clocked(TRUE, TRUE))`: infinitely often there is an edge at which the bus answers and the
stage behind takes an instruction, which is what the other two models show (`MemoryOpsFinish`, `StageReopensOrStale`).

**Every property is about steps of several blocks.** In `mem_path`: `MemoryIsProgramOrder` (memory,
overlaid with the pending stores, is what the retired stores wrote); `LoadsSeeProgramOrder`;
`RequestHeld`; `EachStoreWrittenOnce`; `EveryStoreReportedOnce`. In `exu_pipe`: `RegistersFollow`,
`ResultsInProgramOrder`, `CsrsFollow`, `FpuServesStage` (the arbiter, which drops all but one result, never
has two), `LeavesByRetiring`, `StageReopensOrStale` (the stage comes back,
or finding 1 has shut it). In `ifetch`: `ImplementsStream`, `InstructionsAreWhole` (both halves are
the instruction's own and no older than the last fence.i), `RedirectTaken`, `InstructionsArrive`. The type invariants (`TypeOK`) of `MemPath`, `IFetch` and `ExuPipe` and `DivTypeOK` of
`FloatDivide` hold in the same instances; the configurations leave them out, those of the store buffer, of `MemPath` and of the divider
are proved.
In `simulator`: `NoFalseAlarm`, `VerdictIsEarned` (a run that ends well computed rightly what had retired when its last cycle
began, but for the two ways in which the program loses a mismatch), `NoChangeMissed`, `PoolIsList`, `EvaluatesRightly`. In `kbuild`, `ChangesAreMarked` ties `auto.conf`, the header, `.config`, the
dependency files and what a reader saw of them to each other over any sequence of kills. In `menuconfig`, `NothingUnsavedIsForgotten` ties the count of changes to the content of
a file the user may have loaded, failed to load, saved elsewhere or failed to write.
In `fpu_arithmetic`, a result depends on all cycles of an operation, and a flush may come in any of them.

## 4. The proofs

The theorems about the store buffer hold for every `DEPTH`, every set of words, lanes and stores, from
`DepthAssumption` (`DEPTH` is a positive number) and `StoresAssumption` (there is a store; its word and lanes
exist). Those about fetch hold for every cache geometry, queue length, memory, program, set of targets and
stores, from `FetchAssumption` (the sizes are positive, the rest has its type).

1. `StoreBufferProofs!SpecConsistent`: `Spec => []Consistent`. `Consistent` is itself inductive and is
   four facts: the tail is `count` slots behind the head; slot *k* from the head is valid exactly for
   `k < count`; it is committed exactly for `k < commit_count`; the ids the client still has to report
   are those of the slots in between, in order. None of them is inductive alone: that a report marks the
   slot at the end of the committed prefix needs the fourth; that the flush, which clears by *bit*, agrees
   with the tail pointer, which is rebuilt from the *counter*, needs the second and third. The proof first
   establishes the modular arithmetic of `Slot` and `Wrap` (distance from the head is a bijection), then
   one lemma for each part, over `Cycle` and `Flush`.
2. `StoreBufferProofs!SpecImplementsQueue`: every step of the ring is a step of `StoreQueue` under
   `pending <- Pending`, `safe <- commit_count`. Each of `Cycle` (with or without allocation) and `Flush`
   maps to `Hold`, `Accept` or `Squash`, where `left` is the drain and `settled` the report.
3. `StoreBufferProofs!SpecForwardsYoungest`: the slot the forwarding walk leaves standing is the
   youngest writer of the byte in the queue.
4. `IFetchProofs!SpecImplementsStream`: every clock edge of fetch is `Deliver`, `Starve`, `Redirect` or a stutter of
   `FetchStream`. The address the stream must continue at is mapped to the head of the queue, else `pc`, or the
   target of a standing redirection. That alone is not inductive: a delivery exposes the *second* entry of the
   queue, so the invariant `OnPath` says the queue is a chain in which each entry was predicted by the one before
   and the last predicts `pc` (`Chained`). And `pc` may be moved during a redirection by the pulse, then by
   `pc_updata`; `HandledAtTarget` says that once the pulse is over, `pc` stands at the target until the
   redirection ends, and the stream, which then reads `pc` again, has not moved. This proof does not look into the cache:
   whatever `hit` and `output_inst` are, the order of what is delivered is right.
   `IFetchProofs!SpecInstructionsAreWhole` adds that they are right: from `QuietFence` (section 5), each half-word of what is
   delivered has been in memory at its own address since the last fence.i. The invariant `Fresh` follows a word from memory
   through the refill (the beats read so far: `RefillHeld`), the line (`LinesHeld`) and the first half of a crossing
   instruction (`HalfHeld`, which also says that `pc` still stands at that half). It needs that the place of a half-word (block,
   beat, half) determines its address for every line length (`PlaceOf`), and that a fence.i, which forgets what memory has
   held, clears every valid bit in the same edge and finds no refill or half under way.

5. `FpuUnitProofs`, first part: the two digit recurrences, for every format and any operands, from `FormatAssumption` alone (an odd
   number of fraction bits, at least 3, and `BIAS > FRAC`). The provers know nothing of `^`: `PowersDouble`
   (`2^(n + 1) = 2 * 2^n`) is proved first, from the number of subsets of a set of `n` elements (`FS_SUBSET`), and the
   sums, orders and leading bits of powers follow by taking a least counterexample (`Least`).
   *Division.* `DivSpec` closes `FloatDivide` with an environment that starts any operation the decoders can deliver
   (`Operands`) and flushes at any time; `DivSpec => []RemainderBounded`, `DivSpec => NothingLost` and the types. The
   invariant `DivInv` is `DivTypeOK /\ RemainderBounded`: the bound is not inductive without the normalised divisor
   (`ONE <= d < 2 ONE`), which `Operands` carries. One lemma (`DigitBound`) is the heart: whatever the thresholds `d/2`
   (rounded *down*), `3d/2`, ... choose, `|4P - q d| <= 2d/3` and only multiples that exist are asked for, both in the first
   step, from `0 <= P < d`, and later, from `|P| <= 2d/3`. From the bound it follows that cutting the remainder to 25 bits
   changes nothing, hence that each step keeps `quotient * divisor + remainder` exactly.
   *Square root.* `RootSpec` likewise; `RootSpec => []ResidueExact`. The invariant `RootInv` says that the residue is what
   the root found so far leaves of the significand, and that it is at most two thirds of a unit of twice the root; the digit
   table of `sqrt_srt_table.vh` keeps it so, entry by entry (`TableDigit`), the first digit being the special case.

6. `FpuUnitProofs`, second part: the composed unit. `SpecServes`: a request is served by one unit in one stage of it, which is
   what makes the units' own invariants hold inside `FpuUnit` (`SpecRemainderBounded`, `SpecNothingLost`,
   `SpecResidueExact`). `SpecRootRounded`: `Spec => []RootRounded`. After the last digit the estimate is the floor of
   the root or one too large; the last cycle takes one off when the residue is negative, and the sticky bit says
   whether anything is left. The reference rounds the root of the same integer scaled by another even power of two;
   the two floors agree on the bits that are kept (`Root` is unique), and a root is never half-way, subnormal or
   overflowing, so that guard and sticky alone decide. `SpecQuickExact`: `Spec => []QuickExact`. The key that
   `fquick.v` compares orders like (exponent, fraction) of the encoding; the reference compares exact integers, whose
   order is that of the decoded fields because a larger exponent outweighs any significand and a subnormal has the
   exponent of the smallest normal.
   `SpecQuotientRounded`: `Spec => []QuotientRounded`. The invariant `DivOfRequest` ties the recurrence to the operands:
   after `cnt` digits, `quotient * divisor + remainder` is the normalised dividend times `4^cnt`, in which, by
   `NothingLost`, no bit has been dropped. With the bound of two thirds, the repair of the last cycle makes it a division with
   a remainder in `0..divisor - 1`. The reference divides other integers, the two values in units of the last
   place of the result; the two fractions have the same ratio, and two divisions of the same ratio have the same quotient
   and agree on whether the remainder is zero (`RatioDivision`), hence round alike (`RatioRounds`). The
   quotient has its leading bit in one of two places (`QuotientScale`), which decides the exponent; from there the proof
   follows the packing, normal (with the carry into the exponent and the overflow), and subnormal with the bits
   shifted out. There the sticky bit of `fdiv.v:214` also holds the guard bit, and the proof breaks exactly at the ties in
   RNE that the property leaves out (finding in section 6).
   `SpecConversionRounded`: `Spec => []ConversionRounded`, also from `WordAssumption` (a word is wider
   than the fraction, and its bits are exponents of the format). From float to word, what leaves the register to the right is guard
   and sticky, and the rounded magnitude is compared with the range of the word; from word to float, the aligned integer is cut
   at the last place of its exponent, and a carry out of the significand gives the next one.

7. `FusedProofs!SpecFusedRounded`: `Spec => []FusedRounded`, for every format, every operand and all five modes. The
   inductive invariant `FmaOfRequest` says that each of the three stages holds what `fma_unit.v` makes of the operands of
   the request; the rest is about the data path. *Product* (`ProductIs`): after `k` Booth digits the sum is the
   multiplicand times the first `2k` bits of the multiplier, read with the last one as a sign; a digit more keeps that. *Window*:
   the aligner puts the larger of product and addend at the top and shifts the other, and what leaves the window
   becomes a sticky bit. `AlignedIs` and `AddIs` say what window and sticky then are. While both terms fit the window
   (`NearStands`) it holds the exact sum; when one reaches below it (`FarStands`) it holds the sum cut there, or, where that
   term has the other sign and lies wholly below, a number one step above the sum. In that last case the directed modes step
   back, and the proof needs that the register is no power of two then and that the term is known to be gone; in the
   nearest modes it needs that only zeros are cut off (`SummandStepsWell`, `ProductStepsWell`). This breaks exactly where
   `Misplaced` says (finding 6 of section 6, and the divergences after 8). *Rounding*: the cut at the last place of a
   normal or a subnormal result agrees with that of the exact sum in the unit of the reference (`CutSame`, `CutStepped`), so
   that guard, sticky and sign decide alike (`FinalSum`). `NumbersFactored` brings operands in, `FusedAnswer` puts the two sides together.

8. `SimulatorProofs!SpecNoFalseAlarm`: `Spec => []NoFalseAlarm` for every program, every set of words and devices, every depth of the
   store buffer, any commands; from `~AnyLateSkip` (the flag is raised late only where it does no harm, section 5). What is inductive is that the reference
   stands where the core stands (`InStep`), except for the one instruction in write-back that has not been compared
   (`OneBehind`), and that the skip flag is up only for a device access or for an instruction that goes on at pc + 4
   (`FlagEarned`). The claim about the flag is needed since `difftest_step` moves the reference to pc + 4 whatever was
   skipped (`difftest.cpp:205`).
   `SimulatorProofs!SpecVerdictIsEarned`: `Spec => []VerdictIsEarned` under the same assumption, whenever the core first
   errs. Its invariant `Caught` says where the error is until it is reported: while it is in write-back, the reference
   stands where a right core would, so that the comparison that comes next fails, or the run stops before it or the skip
   flag is up, the two ways the property names, or ebreak ends the run in the very cycle in which the error retires (`JustEnded`),
   which is why the property speaks of what had retired when that cycle began (`judged`; the divergence is in section 6).
   `SimulatorProofs!SpecPoolIsList`: `Spec => PoolIsList`, for every number of watchpoints, set of expressions and order of
   commands, from `WatchAssumption`; every step of the pool of linked cells is a step of `WatchList`. `InUse` is a
   recursive function that follows `next`; what makes it computable is the invariant `Kept`: there are two sequences of
   cells without a cell in common, those in use and the free ones, together `NR_WP`, each threaded on `next`, backed by
   `prev`, and each cell in use has its place for its number. `ChainIs` then says that following the pointers meets the
   first sequence and stops. One lemma (`Moved`) covers both `new_wp` and `free_wp`: a cell is taken from between its
   neighbours and put before the other list. `w` with an expression that cannot be evaluated takes a cell and gives
   it back; that leaves the list as it was although the free list has been in between.
   `SimulatorProofs!SpecNoChangeMissed` rests on the same invariant: the loop reaches the first change since the
   list it walks is the list in use.
   `SimulatorProofs!SpecEvaluatesRightly`: `ExprSpec => []EvaluatesRightly`, for every word size, content of memory and set of
   numbers, and `Levels` operators deep, from `ExprAssumption` (the word has bits, `Levels` is a number); `ExprSpec` is
   the part of the run's `MCSpec` that moves `typed`. The parser looks at
   ranges of tokens and never at the tree that was written, so what is inductive is about texts: a `Phrase` begins
   and ends with what can stand beside an operator, closes its parentheses, has known operators outside them, and
   has its value *wherever it is placed among the tokens*, which matters because a token depends on the one before it. `EvalIs`
   first shows that there is a function of the ranges that satisfies the equation of `eval`, by induction on the length of the range
   (`EvalLocal`: only shorter ranges are asked for); `MainIs` that the main operator is the last one of the highest level;
   then numbers, parentheses, the unary operators and the binary ones between phrases that do not outrank them
   (`SplitAt`, which is what the parentheses of `Trees` are for) are phrases, and so is each tree, level by level.

9. `ExuPipeProofs`: the back end computes what the architecture defines, for every program, any set of registers, any depth
   of the bypass networks, any latency of units, memory and fetch, any fence; from `ExuAssumption` and `FpNeverMisses`, that no
   operation of the FPU is taken for mispredicted (section 5). Any instruction may stand on a wrong path. Five theorems, one invariant in three parts. `Stage`: a mispredicted
   instruction leaves in the very cycle in which it is announced, so the one instruction a flush finds is from the wrong path;
   this is where `FpNeverMisses` is needed, since a mispredicted FP instruction could still be waiting. `Units`: the divider of `mdu.v`, the stages of the multiply-add and
   `fdiv.v` hold at most one operation among them that somebody waits for, that of the instruction in the stage, computed from its
   architectural operand, although the bypass entry it was read from may have moved meanwhile. `Data`: the first entry of a bypass
   network that names a register has its architectural value (`Youngest`), what is in write-back is also in entry 1, and the
   register file has the rest; the flags are forwarded, mepc is not, and after a wrong-path write it is `Spoiled`. From them,
   `SpecRegistersFollow`, `SpecCsrsFollow`, `SpecResultsInProgramOrder`, `SpecFpuServesStage`, `SpecLeavesByRetiring`.

10. `MemPathProofs`: the whole memory path, for every depth of the buffer, number of cache lines, length of a refill, set of
   words, lanes and stores, every program, and whatever the I-cache asks of the bus; from `BufferAssumption`, `KindsAssumption`,
   `ByteAssumption`, `AxiMemoryAssumption`, `CacheBlocksAssumption`, and the program restrictions `NoStoreAfterFence`
   and `DrainedFence` of section 5 (stated with `ASSUME` in each theorem that needs them).
   `SpecEveryStoreReportedOnce` needs only the first of the two: this EXU, with its commit port for `waiting`, is a client as
   `StoreBuffer` assumes one, so that 1 to 3 hold in this core. A store taken by the buffer retires in the same edge
   unless a fence.i is at work, and then no store stands in the stage (`Reporting`).
   From there, one invariant `Inv` carries the rest. `Phase`: an access is in one of seven states, which fix the registers of the LSU's lock,
   the D-cache, the bridge and the memory together (`Resting`, `Asking`, `Granted`, `Writing`, `Wrote`, `Reading`,
   `Finished`). `Held`: what the D-cache works on is still asked of it, the committed head of the buffer or the load in the
   stage; this is what a cache that latches nothing depends on. `PortOK`, `IcacheOK`: while the I-cache has the port, no answer of
   its refill is taken for one of the D-cache. `Fences`: the buffer is empty while a fence.i is at work. `Landed`: once the
   memory has taken the head, it holds its bytes. `Ordered` is the property itself, for every byte: the youngest pending store to
   it, else memory, is what the retired stores left. The lemma `SeenMoves` says why an edge keeps it although in the same edge a
   store may come in behind, the head may leave, and the memory may change: only to bytes of the head, which leaves only when
   they are there.
   Theorems: `SpecMemoryIsProgramOrder`, `SpecLoadsSeeProgramOrder` (with `ForwardIsYoungest` of 3), `SpecRequestHeld`,
   `SpecEachStoreWrittenOnce`, `SpecTypeOK`.

11. `KconfigProofs`: the configuration programs, for every Kconfig file with which `TableOK` holds: the parser's lists name
   each symbol once, a choice is a logical symbol, and a number has numbers for its defaults and bounds, and a default
   whenever it is asked for. `expr_calc_value` may be any function of the values (`ExprValue`). Most lemmas say what the
   functions of `ConfFile` and `KconfigSymbol` do to a list of symbols, by induction on the list.
   `SavedConfigIsKept`: `BuildSpec => []SavedConfigSurvives`, for every set of versions, numbers typed and number
   of program starts. Inductive is `SavedConfigSurvives` together with where a program stands between the two renames of
   `conf_write`: behind the first one the saved text is in `.config.old`, and until the second one no step of any program
   touches either file.
   `EveryChangeIsMarked`: `BuildSpec => []ChangesAreMarked`. The invariant ties `auto.conf` to what a reader found in it when he last
   looked: of a symbol of which they say different things the dependency file has been touched since; and while `conf
   --syncconfig` runs, what it still has to touch is what disagrees with the values it is about to write.
   That is where reading `auto.conf` back must say what was written into it, line by line, also
   when another version of the Kconfig file wrote it, and where the condition on defaults is needed (section 6).
   `DialogsStayInPlace`: `Spec => []DialogsKeepPlace`, for every table, screen, text and list of keys, from `MenuAssumption`. The
   invariant `DialogInv` is about the whole call stack, not its top: each waiting caller has a box that was in place when it
   called, on the list it will draw again (`StackOK`); a return shows that box again on a list that may have become shorter.
   `NothingIsForgotten`: `Spec => []NothingUnsavedIsForgotten`, for any names typed, those of files that do not
   exist included. `KeptInv` says more than the
   property, at every moment: while no change is counted and no failed load has dropped the count (`forgot`), the file that would be
   written holds the configuration. The hard
   step is the first, and each load: that a file which `conf_read` took without complaint is the text of the
   configuration it gave (`NothingToSave`). What reading forgets again are the values of symbols that cannot be seen
   (`OnlyHiddenForgotten`); those do not count when the values are worked out (`ValuesSame`), so the text is the same
   (`SameText`).

*Only model-checked*: `SimplificationsKeepValue` and `NothingShownIsLost` are about operators that
call themselves on what they have just rewritten (`expr_eq` on chains with operands taken out, `expr_eliminate_dups` until nothing
joins), not on a part of the tree, so that, unlike `eval`, they are no recursive function before it is shown that they end; `FilesReadBack` depends on the instance: with two versions of the Kconfig file that
list their symbols in another order, a file can be read without complaint and be written differently, and a minimal file
is enough only if defaults do not hang on each other; all liveness is out of the prover's reach.

## 5. Sequences the passing runs exclude

The models are exact; these constants keep the *program* away from sequences the code does not handle, so
that the rest can be checked. Each is a known divergence.

| Constant | Excludes | Why |
|---|---|---|
| `NoStoreAfterFence` | a store directly behind fence.i | finding 3 |
| `DrainedFence` | fence.i with stores still buffered | finding 4; the code does not wait for the drain |
| `MissKinds` without FP kinds | a misprediction at an FP instruction | finding 5. It takes an aliasing entry of the predictor, or overwritten code |
| `MayMiss`: not behind a fence | a misprediction while `fence_done` is low | `bru.v:102` does not wait for `fence_done` either: the mispredicted instruction is flushed before it retires, so a `jalr` behind fence.i loses its link |
| `QuietFence` | fence.i while a refill is under way or half an instruction is in `cross_buf` | `icache.v:140`: the refill validates its line after the fence has cleared the valid bits, with words read before it; `cross_buf` keeps its half. With `QuietFence = FALSE` TLC violates `InstructionsAreWhole` |
| `AnyLateSkip` = FALSE | a flag raised late, by a draining store or a read of the debugger, that meets a branch or a compressed instruction | finding 7 |
| `StrayBreaks` = {} | ebreak on a wrong path | `exu.v:156-160` ends the simulation when ebreak is *issued*, retired or not |

## 6. Findings

The first two are runs that TLC ends with a counterexample; `PROJECT.json` quotes the comments they contradict. The
others are found by TLC in the instance named, with the constant set as given and the property named put in the place of
the others.

1. **FP instruction on a wrong path** (`stale_fp_op`, `exu.v:342`). `op_fpu` is not qualified by `idu_valid`: the
   invalidated instruction keeps `exu_ready` low and is never issued. `StageReopensOrStale` of `exu_pipe` says that there is no other way to
   shut the stage.
2. **Conversion of large numbers** (`fcvt_large`, `fcvt.v:92`). The code means to saturate what exceeds the 64 bits of
   `f2i_mag` but does so from exponent 87 on, not 64; in between leading bits are shifted out before the overflow check.
   `fcvt.w.s(2^64)` is 0 without NV.
3. **fence.i then a store** (`MCMemPathLive`, `NoStoreAfterFence = FALSE`, `StoreNeedsOnlySpace`; `lsu.v:131`). The store is
   allocated again in every cycle in which `fence_done` is low (`lsu.v:75` allocates on `lsu_ready`, `exu.v:357` retires on
   `fence_done` too). The fence takes 256 cycles and the buffer has 16 entries: it is full of copies nobody will commit, and
   `stb_ready` never comes back.
4. **fence.i as a drain starts** (`MCMemPathLive`, `DrainedFence = FALSE`, `DrainLockReleased`; `lsu.v:91`). `dcache.v` raises
   `awvalid` in the edge in which it leaves for FENCE, where nobody watches the handshake. The D-cache then waits for a
   handshake that is over; `drain_active` stays set.
5. **Mispredicted FP instruction** (`MCExuPipe`, FP kinds in `MissKinds`, `LeavesByRetiring`; `bru.v:102`). The flush does not
   wait for `fpu_valid`.
6. **Step back from a power of two** (`MCFpuUnit` with `Requests <- MCFarSums`, `DirectedStepsBack`; `fma_unit.v:683`). Where a
   tiny term of opposite sign left the window, the directed modes subtract one from the significand and do not normalise
   again: `1.0 - 2^-100` towards zero is 1.9999999.
7. **A store skips twice** (`MCSimulator`, `AnyLateSkip = TRUE`, `NoFalseAlarm`). The comment at
   `cpu.cpp:189-190` leaves device stores to their retirement, but `find_mapid_by_addr` raises the flag whenever a device
   is reached (`../include/device/map.h:28`), so the drain raises it again, for whatever retires then; after a compressed
   instruction or a jump the reference stands at the wrong place.
8. **Loading a missing file forgets changes** (in `menuconfig` as it is, when `forgot` is struck from
   `NothingUnsavedIsForgotten`). `conf_read` resets the count of changes before it finds that there is no file (`confdata.c:519`,
   `mconf.c:909-914`); the exit then asks nothing (`mconf.c:960`). The property names this way and shows that there is no other.

Three more divergences of the arithmetic are excluded from `fpu_arithmetic`, and TLC violates its properties without the
exclusions. `fdiv.v:197-230`: the sticky bit of the subnormal path is the OR of *all* bits shifted out, the guard bit among them,
although the comment at `fdiv.v:219-221` says the rest goes into it; a tie always rounds up in RNE, so
`2^-149 / 2` is `2^-149` and not 0. `fma_unit.v:698-700`: the sticky bits of a term that left the window count as
positive in the nearest modes; a product that lies half-way minus such a term rounds up instead of down.
`fma_unit.v:417`: a product of fewer bits than the largest is gone one place before `p_fully_off` says so, and the
directed modes do not step back.

The properties of the configuration tools and the simulator are worded around these, met while modelling:
- `expr.c:596`: without modules `A=m` compares with "n", so the joined form of `A=y || A=n` changes its value; comparisons with m
  count only where there are modules. `A >= m` compares as text.
- `expr.cpp:212-246`: an expression is split at the operator of the highest level, and comparisons, `&&` and unary minus have
  the levels of a table in which the lowest would come first: `1 == 2 + 3` is `(1 == 2) + 3`. Sums and products of any
  shape, and the others with their operands in parentheses, evaluate rightly; `EvaluatesRightly` takes those.
- `cpu.cpp:218`, `rv32e.cpp:82`: a watchpoint in the step of a mismatch, or an ebreak behind it, overwrites ABORT (`escaped`);
  `sdb.cpp:58`: `q` after ABORT leaves with a good status.
- `exu.v:156-160`, `cpu.cpp:111-126`: ebreak is reported at the edge at which it stands in `du_bus`, when the instruction before it
  only then enters write-back, and `execute_once` leaves its loop before `trace_and_difftest`. That instruction is never compared, although
  `difftest.cpp` logs "The result of every instruction will be compared with %s", and `halt_ret`, read at the same edge, is a0 before it is written.
  A run that sets a0 right before its ebreak can end well with a wrong a0, and badly with a right one.
- `csr.v:30, 35`, `wbu.v:141-147`: writes of machine CSRs, ecall and mret are not gated by `exu_valid`, so those on a wrong path take effect; and a machine CSR is not forwarded, so of two CSR instructions in a row the second reads the old value.
  `CsrsFollow` promises of mepc no more than that.
- `src/cpu/Makefile:300-305`: after `make menuconfig` the binary is not built again, and `fixdep` (lines 344-347) is built and never run; whoever
  changes the configuration has to `make clean`. What `conf` writes is right (`ChangesAreMarked`); nobody reads it.
- `expr.c:953`: `expr_trans_compare` turns `!A != n` into `A = n`, which fails when A is m, and without modules a comparison with m is
  no comparison with n. `SimplificationsKeepValue` asks for it where neither can happen.
- `confdata.c:281-288`: a number written with an empty value (`CONFIG_X=`) is not read back from `auto.conf`, so its dependency
  file is not touched when it goes later. `TableOK` keeps it out: a number has a default whenever it is asked for.
- `menubox.c:180-253`: a resized menu takes a line of the window for a place in the list; `DialogsKeepPlace` exempts it until
  it opens again.

Seen while reading, outside what the runs model: `frm` is written from bits 7:5 and read in bits 2:0
(`wbu.v:104`, `wbu.v:129`); an uncached load from 0xA/0xB space asks for four beats and takes one
(`dcache.v:188`), and the simulator dies of the reads behind it (`simple-SoC/SRAM.v:288` calls `pmem_read` in each BUSY
cycle); a misaligned `sh` makes a strobe the memory takes for a word write (`simple-SoC/SRAM.v:301`); fence.i does not empty the
instruction queue and, predicted to fall through, redirects nothing, so up to 16 instructions fetched before it
run after it (`ibuffer.v:31`, `bru.v:103`), which is why `InstructionsAreWhole` speaks of the moment an instruction
is fetched; `fencei_killed` stays set when the next instruction in `du_bus` is again fence.i (`ysyx_25010030.v:301`);
`cmd_w` takes the value 0xFFFFFFFF for an error (`sdb.cpp:151`); `print_position` divides by the length of an empty text
(`lxdialog/textbox.c:392`); on a screen too small for their input box, `conf_load`, `conf_save` and `conf_string` ask again for ever;
a screen too small at the exit loses the changes without asking (`mconf.c:987-993`).

## 7. Not modelled, and why

The compressed decoder, the ALU and the decoding tables are combinational functions of one word: a test reaches each row. The branch
predictor may predict anything without harm, which the pipeline models assume of it. Kconfig's lexer, parser and macro
expansion are generated or textual; the models start from the entries. Random, yes/no/mod and listing modes of `conf`
differ from those modelled in the value they give a symbol. `fixdep.c` is built by `src/cpu/Makefile` and called by nothing. `VGA`, audio, disk and the keyboard's queue (nothing ever fills it) do not
feed back into the run. `mconf`'s signal handler, single-menu mode, subtitles and colours, and I/O errors other than a file that
cannot be written, are left out. `src/cpu/pipeline` is an older copy; `src/software` and `src/tb` are programs to run.

## 8. Plan

1 to 6 and the first sentence of 7 are done; 8 is not.

1. `StoreBuffer` with its abstract queue, its proofs.
2. `MemPath` over `AxiMemory` and `DeviceCache`.
3. `ExuPipe`.
4. `IFetch` with its abstract stream, and the proof of the refinement.
5. Floating point at any width: `FloatFormat` to `FpuUnit`, the reference, the proof of the divider's recurrence.
6. The simulator with its debugger and reference, and the proof that it accuses nobody wrongly; the configuration tools:
   expressions, menus, symbols, files and crashes, dialogs.
7. The proofs about `ExuPipe`, `MemPath`, the content of what `IFetch` delivers, the square root, the quotient, the
   conversions, the comparisons, the multiply-add, the watchpoints, expressions, the build and the dialogs. Left: the rewritings of `KExpr`.
8. Devices: `simple-SoC/AXI_Bridge.v`, UART, CLINT, bursts, strobes; the D-cache's cached mode (`YSYXSOC`) with
   write-back; RAS repair of `bpu.v`; `frm` and the trap CSRs; the arithmetic of `mdu.v`; `fpu.v` for a client with many ids.

## 9. Running

In this directory: `tlc -config MCMemPath.cfg MCMemPath.tla` (likewise for the other pairs named in
`PROJECT.json`), and `tlapm` on `StoreBufferProofs.tla`, `MemPathProofs.tla`, `IFetchProofs.tla`, `ExuPipeProofs.tla`,
`FpuUnitProofs.tla`, `FusedProofs.tla`, `SimulatorProofs.tla` and `KconfigProofs.tla`.
