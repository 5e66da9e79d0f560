# Verification of the OR1200 SoC: bus, memories, fetch path, UART, interrupts

The repository is a system on chip for the DE2-70 board: an OR1200 processor, a
WISHBONE interconnect matrix and its devices (`rtl/`, Verilog), the test bench
(`sim/`), the FPGA project (`syn-fpga/`) and the software that runs on it
(`sw/`). This directory holds TLA+ models of the hardware and of the software
that drives it, the TLC runs that check them on small instances, and TLAPS
proofs for any size.

## 1. Inventory

| Component | State | Operations | Talks to | Module |
|---|---|---|---|---|
| Interconnect matrix `rtl/wb_conmax` | cyc registers of master and slave ports, `next`, four arbiters and `pri_out` per slave port, `conf0..15`, `rf_we/ack/dout` | one clock edge, reset | masters: OR1200 instruction (m0) and data (m1) ports; slaves s0 SDRAM, s9 UART, s10 Ethernet, s14 GPIO, s15 flash with the register file in front; the other ports have no device | `WbConmax` |
| SDRAM controller `rtl/yadmc` | cache lines, tags with dirty bits, a three-state machine on `sys_clk`; a 21-state machine, six counters, open-row tracking, pending commands on `sdram_clk`; three flag synchronizers | read, write, evict, refill, refresh, initialize, reset | matrix (s0), SDRAM chip | `Yadmc` |
| OR1200 fetch unit and instruction cache | fetch address, saved instruction, cache machine `ic_fsm`, tag and data RAM | fetch, branch, hit, refill, invalidate, on, off | pipeline, bus interface | `Icache` |
| OR1200 bus interface `or1200_wb_biu.v` | registered WISHBONE outputs, `aborted_r` | start, finish, abort a transfer | cache, matrix | `Icache`, `WbConmax` |
| Flash interface `rtl/wb_flash_if` | state machine, pins and delay counters | two half-word accesses per word | matrix (s15), flash chip | `WbFlash` |
| UART `rtl/uart16550` | two FIFOs, receiver, transmitter, line status, interrupt state | register access, bit clock | matrix (s9), interrupt 2 | `UartWb`, `UartTx`, `UartRx` |
| `sw/userprog-uart/uart.c` | none of its own | `uart_putc`, `uart_getc`, `uart_init` | UART | `UartSend`, `UartRx` |
| Linux 8250 driver | buffer of the port, `up->ier` | interrupt handler, start, stop | UART, interrupt code | `UartSend`, `UartRx`, `Pic` |
| OR1200 interrupt controller `or1200_pic.v`, `arch/or32/kernel/irq.c` | `PICMR`, `PICSR`, `irq_list` | latch, mask, `do_IRQ`, `request_irq`, `free_irq` | lines 2 (UART), 4 (Ethernet), 6 (GPIO) | `Pic` |
| OR1200 tick timer `or1200_tt.v`, `arch/or32/kernel/time.c` | `TTCR`, `TTMR`, `xtime`, `time_adjust` | count, match, tick, `gettimeofday`, `settimeofday`, `adjtimex` | exceptions | `TickTimer` |
| OR1200 pipeline, data MMU, arithmetic, debug | pipeline registers, TLBs | execute | all | none |
| GPIO, DM9000A interface, SoC top, boot loader | registers, `flash_prefix` | register access, remap, copy loop | matrix, pins | none |
| `sw/linux-2.6.23` otherwise, `u-boot-2009.03`, `busybox`; `sim/` vendor models | | third-party | | none |

What is hard to test here:

- two masters competing for a slave port, in every relative timing, with
  registers in the matrix that lag the request lines by one or two cycles and
  some that reset does not touch;
- a dead slave port: no bus timeout exists, so an access there never ends, and
  nobody else may be held up by it;
- two unrelated clocks in the SDRAM controller, with single-cycle flags and
  addresses that cross unregistered, commands that arrive while the other side
  initializes or refreshes, and resets between any two of their steps;
- fetches that are given up while a word for them is on its way, refills whose
  tag is valid before their words are there;
- cycle counts written out by hand, or computed from nanoseconds by a division
  that rounds down;
- status bits of the UART that are set by the rise of a condition and cleared
  by accesses, with pushes and pops in the same clock;
- interrupts that come while their status register is read, changed and written
  back; ticks that come while they are acknowledged.

`PROJECT.json` lists each of these under `hazards`, at its line, with the
properties that cover it.

What makes each component correct: *matrix*: a transfer keeps its slave and its
lines until the response, responses reach the master that asked, every request
to a live slave is served and none is overtaken without bound, the register
file acts only for the access that selects it. *SDRAM controller*: it behaves
as a memory, every request is answered, every command is legal for the chip,
refresh is never late, a reset loses no more than it must. *Fetch path*: every
instruction is the word at its address, a started transfer ends as it began.
*Flash*: both halves belong to the same word, in time, on stable lines. *UART*:
no character is lost, doubled or reordered below the FIFO limit, the status bits
are true, no interrupt is lost. *Interrupts*: each is served by its handler,
each tick is counted once.

## 2. Modules

| Module | Contents |
|---|---|
| `WbConmax` | the matrix with its masters and devices; its properties |
| `WbConmaxFair` | `WbConmax` with a history variable that counts overtakings |
| `WbConmaxProofs` | theorems about `WbConmax` and `WbConmaxFair` |
| `Memory` | what a memory behind a WISHBONE port promises |
| `Yadmc` | the SDRAM controller, the chip and the refinement to `Memory` |
| `Icache` | fetch unit, instruction cache, bus interface |
| `WbFlash` | the flash interface and the chip |
| `UartWb` | the bus side of the UART, used by the next three |
| `UartTx` | FIFO, transmitter, status and THRE interrupt |
| `UartSend` | `UartTx` under `uart_putc` or under the 8250 driver |
| `UartRx` | receive FIFO, status, interrupts, under `uart_getc` or the 8250 driver |
| `Pic` | interrupt controller and the interrupt code of Linux |
| `TickTimer` | tick timer, timer interrupt, `do_gettimeofday`, `do_settimeofday` |
| `YadmcProofs`, `IcacheProofs`, `WbFlashProofs`, `UartSendProofs`, `UartRxProofs`, `PicProofs`, `TickTimerProofs` | theorems about the module of the same name |
| `MC*` | instances for TLC |

Every module has a type invariant `TypeOK`. Operators marked "Variant" (and the
two other mutated forms next to them) are changed versions of the definition
they precede. No specification uses them; substituting one for its neighbour
shows that a run notices the corresponding slip (`mutants` in `PROJECT.json`).

### WbConmax

`Clock` is one rising edge of `wb_clk`: all registers at once, from the values
before the edge. `Reset` is an edge with `rst` high; it clears `s_cyc_o`, the
arbiters, `pri_out` and `conf`, but not `m_cyc_r`, `next`, `rf_we`, `rf_ack`,
`rf_dout`, as in the source. Combinational logic is operators: `MastSel` (the
selected master), `PortCyc`, `PortStb`, `PortRq` (what a slave port drives),
`RfSel`, `PortAck`, `MastAck`. Between edges a master raises a request
(`Raise`), continues or ends a block cycle (`Resume`, `Release`) and a device
responds (`Respond`).

Abstractions. An address is the slave it selects, whether it selects the
register file, and the register index; data is what a `conf` register can hold.
`sel` and ordinary data travel with the address and are not told apart from it.
`ack`, `err` and `rty` are routed alike and are one response. A master holds
its lines until the response, then drops `cyc` for a cycle, as
`or1200_wb_biu.v` does for a transfer that is not aborted; `BlockMasters` may
keep `cyc`. A device (external) takes a transfer when it sees `cyc` and `stb`
and answers after any number of cycles. With `pri_sel = 0` the source uses a
separate arbiter on all requests; all levels are then 0, and that arbiter and
arbiter 0 of `msel` see the same requests, so the model has one.

### Yadmc

`SysClk` and `SdClk` are the edges of the two clocks, in any order and
proportion (the SoC uses 25 and 50 MHz; `yadmc_defines.v` promises "no frequency
or phase relationship is required"). `Ask` puts a request on the bus.
`SdOut` gives the outputs of the SDRAM machine in each state as changes to
`Quiet` (do nothing), `SdRegisters` and `CachePort1` what the registers and the
second port of the cache make of them, `ChipEdge` the chip. Pins are
registered, so a command reaches the chip one edge after the state that issues
it. `tog` and `syn` are the toggles and shift registers of the three
synchronizers.

Abstractions. A word has two halves; each stands for two byte lanes and for one
beat of the 16 bit wide chip. `LineWords`, the numbers of tags, indices, banks
and columns are parameters. `yadmc_cfg0/1` are the constant `Wait`, the mode
register is not looked at. `track_close` is never driven and left out.
`fresh` is a history variable: the cache lines that still are what power up
left. There is no valid bit, so these claim tag 0 and read as zeros; the
refinement shows their cells as unsettled.

`Reset` raises `sys_rst` and `Release` lowers it, after at least one edge of the
system clock and four of the SDRAM clock; the push button holds it far longer.
It clears the machines, the synchronizers and the outputs, but neither tags nor
cache lines. What a burst cut off by it leaves is undetermined: the refinement
then shows the cells of the line under way as unsettled, and, because the tag
memory sees the idle bus (address 0) during the reset, those of the displaced
line of address 0.

The chip is external and modelled from its use: commands, open rows, bursts of
`2*LineWords` beats, CAS latency 2, a skipped edge after `cke` was low, and for
the properties the last restricting command with its age, and the age of the
last refresh.

### Icache

One step is one clock of the core. The step of the cache machine is chosen by
its state (`StepIdle`, `StepFetch`, `StepRefill`); with it every register of the
fetch unit, of the two RAMs and of the bus interface takes its next value. The
parameters of a step are what the pipeline does in that clock: the address it
presents, whether it asks at all, whether it was sent elsewhere, whether it
moves on, and what reaches EX. An instruction of interest in EX writes `SR[ICE]`
(`ice`) or `SPR_ICBIR` (`icbir`).

Abstractions. Cache and pages are of 8 KB, so the tag of an address is its
page. Every address holds a different word, and a word is named by its address.
The IMMU is off or maps pages to themselves, some as cache inhibited; its TLB
misses and faults are exceptions, and these are redirections like any other.
The slave (external) answers when it likes. `BootSpec` is the discipline of the
boot code (`_ic_enable` in `arch/or32/kernel/head.S`): lines are invalidated while the cache is off, it is switched on and
stays on.

### WbFlash

One step is one edge of `wb_clk`; one action per state of the machine (`St...`).
The chip (external) gives data once the same cell has been selected for
`AccessTime` clocks, takes a write when `SnWR` rises, may then go to work, and
says so on `FLASH_STS` up to `BusyLag` edges late. The figures are those of the
S29GL064A that `sim/` has a model of: 110 ns access, 90 ns until RY/BY falls,
35 ns write pulse, with a clock of 40 ns (3 and 1 clocks). A reset may come at
any edge.

### UartWb, UartTx, UartSend, UartRx

One step is one edge of the clock: the bus machine, the FIFO, the line status,
the interrupt logic and the driver at once. The driver is a sequence of register
accesses, with any number of idle clocks between two; each stays on the bus
until it is acknowledged. One driver owns the port, chosen by `Init`.

Abstractions. The baud clock `enable` comes at any edge; the bits of a character
take any number of enables (`tstate = "send"` ends when it likes), and so do
`block_cnt` and the receive time-out counter. A received character arrives
complete, at least `MinGap` clocks after the one before; its parity, framing and
break flags are one. Registers that the control modelled here does not depend on
(line format, divisor, modem lines) are left out. `owed`, `queue`, `got` and
`pulses` are history variables. `InTime` says that a burst of the driver ends
before `block_cnt` does, which holds for the SoC: sixteen writes have 143
enables, at the divisor of 13 some 1,859 clocks.

### Pic

One step is one clock or one access of a special purpose register with the clock
it falls in; `Clock` gives any number of clocks between two accesses. A device
that is open may want service at any time, its line follows a clock later, and
the handler takes the cause away (the device may want service again at once).
A driver enables its device after `request_irq` and disables it before
`free_irq`, as `serial8250_startup` and `serial8250_shutdown` do; `free_irq` may
come at any time after that. `left` is a history variable: the lines whose
handler `free_irq` dropped with their bit set in `PICSR` (see section 4).

### TickTimer

One step is one clock. The counter runs from 0 to `TP` and restarts, `TTMR[IP]`
holds a match until it is written. A tick exception needs interrupts enabled and
waits for others, which go first; `Latency` bounds for how long. Answers of
`gettimeofday` are in microseconds, `TTCR` divided by the clock rate and rounded
down, and are kept relative to `xtime`, so that the state stays finite; a time
set by `do_settimeofday` counts as an answer. `behind` counts the matches that
`do_timer` has not counted yet.

Abstractions. Of `time_adjust` the sign is kept (`slow`): `do_adjtimex` sets it,
`do_settimeofday` clears it, and at the end of a second `second_overflow` may use
it up. What NTP makes of the length of a tick (`time_adjust`, frequency, offset,
`ADJ_TICK`, and `clocksource_adjust`) is any length within `Slew` of the
nominal one, chosen anew for every tick.

## 3. Runs

| Run | Instance | Properties | States |
|---|---|---|---|
| `conmax_shared` | 3 masters of one level; slave 0 dead, slave 15 live with the register file; resets | `TransferIntact`, `AckToRequester`, `RfIntact`, `BoundedBypass`, `OwnerKeepsPort`, `RfWriteAtAck`, `RequestServed` | 61 k |
| `conmax_prio` | 3 masters; ports with 4, 0 and 2 levels; priorities of slave 0 rewritten in two ways during accesses; master 1 uses block cycles | `TypeOK`, `PreemptOnlyInFirstCycle` | 1.1 M |
| `yadmc_memory` | 2 tags, 4 lines of 2 words, 2 banks, 2 columns; reads and partial writes of two lines that compete for one cache line, reads of a third | `TypeOK`, `RefreshBounded`, `IsMemory` | 0.5 M |
| `yadmc_reset` | 2 lines of 2 words, 2 banks; a write, two reads, one reset at any time | `OneCommand`, `CommandLegal`, `IsMemory`, `Served` | 0.4 M |
| `icache_boot` | 2 pages (one inhibited), 2 lines of 2 words; boot discipline | `FetchCorrect`, `LineFaithful`, `TransferHeld` | 109 k |
| `icache_served` | 2 pages, 1 line of 3 words | `FetchServed` | 16 k |
| `flash_access` | 2 words, all widths, the SoC's clock and delays | `ReadCorrect`, `WriteExact`, `AccessReady`, `WriteHeld`, `Turnaround`, `Served` | 4.3 k |
| `uart_send` | FIFO of 2, buffer of 3, characters with and without newline | `AccessOnce`, `ThreHonest`, `PutcComplete`, `TxInOrder`, `PutcReturns`, `BufferDrained` | 28 k |
| `uart_receive` | FIFO of 2, trigger level 2, characters good or bad every 3 clocks or slower | `ReadInOrder`, `DataReady`, `CharTaken` | 202 k |
| `pic` | lines 2 and 4 | `PanicCause`, `IrqServed`, `IrqReturns` | 2.7 k |
| `pic_free` | the same | `HandlerKnown`, violated | stops at the first |
| `tick` | ticks of 4 us of 2 clocks, `tickadj` = `Slew` = 1, `Latency` = 5 | `NoTickLost`, `TimeForward` | 16 k |

What they show, in words:

- `TransferIntact`, `AckToRequester`, `OwnerKeepsPort`: without priorities a
  device never sees another master's lines in the middle of a transfer and
  never answers the wrong one, with resets at any edge.
- `RequestServed`: a request to a live slave or to the register file is
  answered, also while another master hangs on the dead port.
- `BoundedBypass`: a waiting master is passed at most `N - 1` times.
- `RfIntact`, `RfWriteAtAck`: `rf_we` and `rf_ack` are loaded one edge early,
  `rf_we` is not gated by `rf_sel` and neither is reset, and still `conf`
  changes exactly with the acknowledged writes. The one exception is written
  into `RfIntact`: in the cycle after a reset they may be left over, when all
  lines are low and every `conf` register is 0, and the write of 0 to `conf0`
  that may follow changes nothing.
- `PreemptOnlyInFirstCycle`: with priorities `TransferIntact` does not hold.
  `next` is still set in the first cycle a device sees `cyc`, so a request of a
  higher level that arrives then takes over a transfer the device may already
  have accepted. The property says that this, and a rewrite of the level, are
  the only ways. The SoC never writes `conf`, so it is not exposed.
- `IsMemory`: seen from the bus the controller is `Memory`; a word is in the
  cache while its line is there, dirty and not written back, else in the chip.
- `OneCommand`: the handshake by toggles never has two commands, or a command
  and an acknowledge, under way, and the addresses it uses do not move.
- `CommandLegal`: no command falls on an edge the chip skips, rows are opened
  in closed banks, READ and WRITE find the right row open, with tRP, tRCD, tRFC
  and tWR respected by counters of one less, because a count of `n` gives
  `n + 1` cycles.
- `RefreshBounded`: two refreshes are at most
  `refresh + aref + pall + 4 + (2 pre + 2 act + 4 LineWords + 10)` cycles apart;
  the bracket is one eviction with its refill. With the reset values of
  `yadmc_cfg1` and lines of 4 words this is 345 cycles of 50 MHz, well within
  the 390 that 64 ms / 8192 leave.
- `Served` of `Yadmc`: no command flag is lost, also not one sent before the
  SDRAM side has left reset, or cut off by a reset of its own.
- `yadmc_reset`: after a reset in any phase of an eviction or a refill the
  handshake starts clean, the chip sees only legal commands (the initialization
  outlasts the burst that was cut off), and memory has lost at most the line
  under way and the displaced line of address 0.
- `FetchCorrect`: an answer to an abandoned fetch is never taken for a later
  one, with branches in any clock of a miss and stalls at any time.
  `LineFaithful`: the tag is valid from the first word of a refill on, and still
  no line stays valid with old words in it, because nothing but switching the
  cache off ends a refill. `TransferHeld` is what the matrix is promised in
  `WbConmax` of its masters. `FetchServed`: a fetch unit that stays with its
  address is answered, whatever refill or abandoned transfer is in the way.
- `flash_access`: each request makes exactly its half-word accesses, each after
  the chip's access time, on stable lines, never with both sides driving the
  data pins; the chip is not accessed while it is at work, except for the second
  half of a word write, since `FLASH_STS` is looked at once per request.
- `uart_send`: a register with side effects is touched once per access; THRE is
  set only with nothing in or on its way to the FIFO, which is what the bursts
  of the 8250 driver rely on; `uart_putc` returns, and only when everything has
  been sent; the THRE interrupt, an edge, is never lost while there is something
  to send.
- `uart_receive`: what is read is what came, in order; data ready follows the
  FIFO through pushes and pops in one clock; every character is read in the end,
  by trigger, time-out or polling.
- `pic`: an interrupt that comes while `do_IRQ` reads, changes and writes
  `PICSR` is not lost, and `do_IRQ` ends once the devices are quiet. `PanicCause`:
  it looks up a line without a handler only if `free_irq` left that line's bit in
  `PICSR`. `IrqServed` excepts a line while a lower one wants service:
  `do_IRQ` takes the lowest bit first, so a busy UART may keep the Ethernet chip
  waiting. Both liveness properties except the panic, after which nothing runs.
- `tick`: every restart of the counter is counted once if a pending tick is
  handled `Latency + 3` clocks after it at the latest. The period is `TP + 1`
  clocks, since the counter shows both 0 and `TP`. `TimeForward`: beyond the
  `Slew` by which NTP may have shortened a tick, `gettimeofday` goes back in two
  cases only, with a tick pending and not counted, and with the first answer that
  is cut because `time_adjust` has become negative. It does not go back while
  answers are cut, nor when that ends, nor behind a time that was set.

Bounds. Three masters are enough for two that compete while a third hangs or
interferes, and for an order in the round robin; two slave ports are the dead
and the live one, three cover the kinds of `pri_sel`. `passed` is capped at `N`,
one above what `BoundedBypass` allows. Two tags and two words per line are the
least that give evictions, mixed lines and beats of both halves; every cell
starts with a content of its own so that a misplaced beat shows. The wait counts
are small but not 0 (with `pall = 0` the AUTO REFRESH would fall on the skipped
edge); the refresh count is short so that refreshes meet every phase of a
service; `init` is 8 where resets happen, to outlast a burst, as the 10,000 of
the source does. `RefreshLimit`, `LastCap` and `AgeCap` cap ages above every
value a property compares them with; `MaxResets` bounds resets to one, after
which every state is one from which no trace of it need remain. In `Icache` two
pages and two lines give hits, conflicts and inhibited accesses; lines are
interchangeable, and symmetry on them is used for the safety run only. A FIFO of
two is both empty and full within a burst; a deeper receive FIFO multiplies the
states without a new case (the runs of section 4 use four). `TP` of 8, four
microseconds of two clocks, puts every step of the software on every phase of
the counter and makes the division round; `tickadj` of 1 leaves offsets on both
sides of the cut, and `Latency` is as large as the period allows.

Fairness. `FairSpec` of `WbConmax`: the clock runs and a device that has taken
a transfer responds (for SDRAM and flash this is their `Served`). `Yadmc`: both
clocks run. `Icache`: the clock runs; that the slave answers and the fetch unit
stays are premises of `FetchServed`. `WbFlash`: the clock runs and an operation
of the chip ends. UART: the clock and the baud clock run, a character,
`block_cnt` and the time-out counter take a bounded time, the driver goes on and
interrupts are taken in the end. `Pic`: the code of `do_IRQ` runs to its end, and
strong fairness of `TakeInterrupt` and `Cli`: a process enables interrupts again
and an interrupt that keeps coming up while they are enabled is taken.
`TickTimer` has no liveness; every step is a clock.

## 4. Deviations

Where a comment, a header or an error path of the repository says one thing of
the code and the code does another. The first has a run; each of the others has
a configuration with the instance that shows it and the property that states the
claim, for which TLC gives a counterexample.

- **A status bit outlives its handler** (`pic_free`; `HandlerKnown`).
  `PICSR` keeps a bit until it is written (`or1200_pic.v:170`), and `pic_do_irq`
  looks at `PICSR` without `PICMR` (`irq.c:77`). A bit latched before
  `serial8250_shutdown` silenced its device outlives `free_irq`, and the next
  interrupt of any other device runs into `panic("No interrupt handler ...")`
  (`irq.c:194`).
- **Invalidation with the cache on** (`MCIcacheInvalidate.cfg`; `FetchCorrect`).
  A write of `ICBIR` takes the address of the tag memory for a clock
  (`or1200_ic_top.v:230`), so the fetch under way misses falsely and a transfer
  is opened; in the next clock the tag hits and the branch "fetch hit, finish
  immediately" (`or1200_ic_fsm.v:247`) retargets `saved_addr_r` while the
  transfer of the old address is open: its word is taken for the new address.
- **Switching the cache off** (`MCIcacheOff.cfg`; `FetchCorrect`).
  "abort because IC has just been turned off" (`or1200_ic_fsm.v:255`) does not
  abort the transfer: with the cache off `icbiu_cyc_o` is `icqmem_cycstb_i`
  (`or1200_ic_top.v:243`), the bus interface sees one continuous request, keeps
  the old address, and its word is delivered for the address fetched next.
- **The address after a bus error** (`MCIcacheError.cfg`; `ErrorCorrect`).
  `or1200_wb_biu.v:351` treats `wb_err_i` like `wb_ack_i`, but the load of
  `wb_adr_o` (line 221) is held off by `wb_stb_o & ~wb_ack_i` only: the request
  after a transfer ended by an error goes out with the old address.
- **The flash write pulse** (`MCWbFlashWrite.cfg`; `WriteDelayKept`).
  `WRITE_DELAY_NS = 70` (`wb_flash_if.v:55`) becomes 70/40 = 1 clock, and
  `SnWR` is low for 40 ns. The chip needs 35.
- **THRE after a slow burst** (`MCUartSendSlow.cfg`; `ThreHonest` without
  `InTime`). A write clears `lsr5r` in its own clock and enters the FIFO one
  clock later; if `lsr5` rises in between, because the transmitter has just taken
  the last character and the blocking time has run out, THRE is set again, and
  stays set, with a character in the FIFO (`uart_regs.v:680`).
- **An interrupt nobody names** (`MCUartRxStorm.cfg`; `InterruptNamed`).
  `rda_int_pnd` is cleared only by a read at exactly the trigger level
  (`uart_regs.v:827`). If a character arrives in the clock in which one is read
  one below it, the bit stays set below the level, the line stays up, and `IIR`,
  which looks at the level (line 880), says `UART_IIR_NO_INT`.
- **Overrun** (`MCUartRxOverrun.cfg`; `ReadInOrder` with `MayOverrun`).
  The memory of the receive FIFO is written by every push, also when it is full
  (`uart_rfifo.v:206`): the oldest character not read is overwritten by the one
  that is dropped, while `serial_core.h:535` says an overrun "doesn't affect the
  current character".
- **Error bits** (`MCUartRxErrLost.cfg`, `ErrorReported`;
  `MCUartRxErrFalse.cfg`, `ErrorTrue`). They are set on the rise of the error of
  the character at the head, one clock after that character is ready: a read of
  LSR in between clears them unseen, and of two bad characters in a row the
  second gives no rise (`uart_regs.v:658`). A read in the clock of a push leaves
  the error bits of the entry behind (`uart_rfifo.v:274`), and a later good
  character is reported bad.
- **Slowing the clock sets it back** (`MCTickTimerSlow.cfg`; `SlowedForward`).
  While `time_adjust` is negative `do_gettimeofday` cuts the offset to `tickadj`,
  5 us (`time.c:154`); the comment above it: "Better to lose some accuracy than
  have time go backwards..". When `adjtimex` sets `time_adjust` in the course of
  a tick (`ntp.c:320`), the next answer lies before the last one by up to a tick,
  with no tick pending.
- **Time going backwards** (`MCTickTimerTime.cfg`; `TimeMonotone`).
  Also without `adjtimex`: `do_gettimeofday` disables interrupts and adds `TTCR`
  to `xtime` (`time.c:141`); when the counter restarts before the read, `xtime` is
  one tick behind and the answer almost a tick earlier than the one before.
- **The refresh period** (`MCYadmcPeriod.cfg`; `RefreshPeriod`).
  `yadmc_sdram16.v:354` calls the reload value "The period between *each* AUTO
  REFRESH command, in clock cycles". The counter is reloaded when the refresh is
  over and acted on in IDLE only, so the period is always longer, by the amounts
  in `RefreshBounded`.

## 5. Proofs

Each `*Proofs` module extends the module it is about and holds the inductive
invariant, its lemmas and the theorems. The theorems hold for every value of the
constants that the named `ASSUME` of the module allows; a hypothesis beyond that
is written in the theorem and given below. Each invariant was first checked by
TLC on the instance of the corresponding run.

| Module | Theorem | Statement |
|---|---|---|
| `WbConmaxProofs` | `TypeCorrect` | `Spec => []TypeOK` |
| | `PreemptionWindow` | `Spec => PreemptOnlyInFirstCycle` |
| | `OwnerStable` | `Spec /\ []PrioritiesOff => OwnerKeepsPort` |
| | `TransfersIntact` | `Spec /\ []PrioritiesOff => []TransferIntact` |
| | `ResponsesMatch` | `Spec /\ []PrioritiesOff => []AckToRequester` |
| | `RegisterFileIntact` | `Spec /\ []PrioritiesOff => []RfIntact` |
| | `RegisterWrites` | `Spec /\ []PrioritiesOff => RfWriteAtAck` |
| | `SocTransfers` | no request writes a priority register: `Spec => []TransferIntact /\ []AckToRequester` |
| | `WaitsBounded` | `BlockMasters = {}`: `BypassSpec /\ []PrioritiesOff => []BoundedBypass` |
| `YadmcProofs` | `OneAtATime` | `Spec => []OneCommand` |
| | `RefreshInTime` | `MaxResets = 0`, `Wait["pall"] >= 1`: `Spec => []RefreshBounded` |
| | `YadmcTypes` | `Spec => []TypeOK` |
| | `MemoryRefinement` | `Spec => IsMemory` |
| | `CommandsLegal` | `WaitsSuffice`: `Spec => []CommandLegal` |
| `IcacheProofs` | `IcacheTypeCorrect` | `Spec => []TypeOK` |
| | `TransfersHeld`, `BootTransfersHeld` | `Spec => TransferHeld`, `BootSpec => TransferHeld` |
| | `LinesFaithful` | `BootSpec => []LineFaithful` |
| | `FetchesCorrect` | `BootSpec => []FetchCorrect` |
| `WbFlashProofs` | `FlashTypeCorrect` | `Spec => []TypeOK` |
| | `WritesHeld`, `NoContention` | `Spec => WriteHeld`, `Spec => Turnaround` |
| | `WritesExact` | `WriteCount >= 1`: `Spec => []WriteExact` |
| | `ReadyAtAccess` | `BusyLag <= 1`: `Spec => []AccessReady` |
| | `ReadsCorrect` | `BusyLag <= 1`, `ReadCount + 1 >= AccessTime`: `Spec => []ReadCorrect` |
| `UartSendProofs` | `SendTypeCorrect`, `RegistersOnce` | `Spec => []TypeOK`, `Spec => []AccessOnce` |
| | `ThreIsHonest` | `Spec => [](InTime \/ pc \in PutcPcs => ThreHonest)` |
| | `PutcWaits` | `Spec => []PutcComplete` |
| | `SentInOrder` | `InTime`: `Spec => TxInOrder` |
| `UartRxProofs` | `RxTypeCorrect`, `ReadsOnce` | `Spec => []TypeOK`, `Spec => []AccessOnce` |
| | `DataReadyExact` | `Spec => []DataReady` |
| | `ReceivedInOrder` | `~MayOverrun`: `Spec => []ReadInOrder` |
| `PicProofs` | `PicTypeCorrect` | `Spec => []TypeOK` |
| | `PanicOnlyAfterFree` | `Spec => []PanicCause` |
| `TickTimerProofs` | `TypeCorrect`, `TimeGoesForward` | `Spec => []TypeOK`, `Spec => []TimeForward` |
| | `TicksCounted` | `Spec => []NoTickLost` |

Why the hypotheses. `PrioritiesOff`, `InTime` and `~MayOverrun` are
the premises without which the property does not hold (sections 3 and 4);
`BootSpec` likewise. `Wait["pall"]` is 2 after reset, and with 0 the AUTO
REFRESH would fall on the edge the chip skips; a reset restarts the
initialization, whose delay is longer than the bound, so `MaxResets = 0`.
`WaitsSuffice` compares the reload values with what the chip asks for: tRP, tRCD
and tRFC at most one more than the counters for them (and at most `LastCap`, as
far as the model counts), tWR at most 2, the power-on delay at least
`2*LineWords + 1` so that a burst a reset left running is over before PRECHARGE
ALL, `Wait["pall"] >= 1`. After reset the counters are loaded with 2 (precharge
all), 2 (precharge), 5 (refresh), 2 (activate) and 10000 (power-on;
`yadmc_sdram16.v:127`, `:133`), so it asks for tRP, tRCD <= 3 and tRFC <= 6
cycles; the instance of `yadmc_reset` satisfies it with nothing to spare in the
three delays. The types and the refinement need no hypothesis: with any wait
counts the controller's own picture of rows and bursts stays right, and the chip
of the model keeps its data however early a command comes; that none comes too
early is `CommandsLegal`. `YadmcAssumption` asks that `Undef` is neither a value
nor a row, since it also stands for a closed bank. The delays of the flash
interface in the SoC (`ReadCount` 4, `WriteCount` 1, an access time of 3 clocks,
a lag of 1) satisfy all three of its hypotheses.
A master that keeps `cyc` between transfers keeps the port and can pass the
others for ever, so the bound on waiting asks for `BlockMasters = {}`, which is
the OR1200 as configured: with `OR1200_NO_BURSTS` its bus interface lowers
`cyc` after every acknowledge (`or1200_wb_biu.v:376`).
`TickAssumption` asks that the period leaves room for `Latency` and three clocks,
and that NTP does not shorten a tick below nothing.

The arguments:

- **Matrix.** `TypeOK` is inductive. It is needed everywhere because `MastSel`
  indexes functions: `ArbType` shows that an arbiter grants existing masters and
  holds a grant that is asked for (through `MinInSet`, by well-foundedness of
  `<`). `KeepPort` is the core: at an edge the selected master keeps its port if
  it keeps asking and the selected level is, and stays, its level. This gives
  `PreemptionWindow` at once. `TransferIntact` is not inductive: it needs to
  know that `pri_out` stays 0 (`PriOutZero`). `AckToRequester` then follows in
  each state. `RfIntact` needs the same and `PendingAccess`: an access that has
  not been answered in this cycle is there, unchanged, after the edge.
  `SocTransfers` discharges `PrioritiesOff` for the SoC's use: `conf` at its
  reset value and `rf_we` low are inductive when nobody writes.
- **Matrix, waiting.** `TurnInv`: at each port the transfers that have passed a
  waiting master and the distance `Dist` of the rotation from the grant to it
  add up to at most `N - 1`, or `N` while the holder's own transfer is among
  those counted (`Counted`). A transfer that is taken adds one and moves the
  port to `Counted`, where it stays until the grant moves (`CountedAfter`), and
  when it moves it comes nearer by one at least (`ArbNearer`).
- **SDRAM, handshake.** `OneCommand` is not inductive: a synchronizer with two
  flags in it is allowed by it and turns into two commands. `HandInv` says that
  at most one place knows of the command: a synchronizer with one edge in it
  (`OneEdge`), the SDRAM machine (`Held`), or the synchronizer of the
  acknowledge. `AdrInv` ties the two line addresses to the request on the bus and
  the tag it displaces. `ResetInv` counts how far a reset has got in each domain
  and gives, at its end, the state in which all synchronizers are flat.
- **SDRAM, refresh.** A potential, `ToRefresh`, bounds the edges to the next AUTO
  REFRESH from each state, counter and burst position. `Potential` shows that it
  falls with every edge whatever the traffic; the invariant is
  `age + ToRefresh <= Longest`. It needs that a served line comes to its end
  (`Nearer`, from `CountInv` on the burst counter) and that AUTO REFRESH reaches
  the chip (`CkeInv`: PRECHARGE ALL lowers `cke`, and the counter loaded with it
  keeps the next command away from the skipped edge).
- **SDRAM, rows and bursts.** `SideInv` ties the machine to the chip, one edge
  ahead of it: `OpenNext` and `LastNext` are what the chip will hold after it has
  taken the pins as they are, and `Burst` is the burst that the coming edge
  serves. `PinInv`: no command but AUTO REFRESH can fall on an edge the chip
  skips. `RowInv`: outside the initialization `OpenNext` is `active` and
  `openrow`, except for the bank that is being switched. `BurstInv`: the position
  of the burst is `bc - 1` in a write; in a read it is 0 to 3 up to the first beat
  and `bc + 4` after it, until the burst ends (`ReadBeat`). `DataInv`: the beats before that
  position have been copied, and the registers between chip and cache hold the
  next ones. `TypeOK` follows: the chip stores only beats of the line that is
  evicted, and the cache only beats the chip has sent.
- **SDRAM, resets.** A reset stops the cache side at once and the machine some
  edges later. `QuietInv` says what is still under way in between, `LineInv` that
  it concerns only a line in `fresh`, which nobody vouches for, and that the
  cache side does not touch it. `CoreInv` is the conjunction.
- **SDRAM, memory.** `CleanInv`: a clean line that is not in `fresh` is a copy of
  its place in the chip; `FillInv`: so is the line an acknowledge is under way
  for, and a dirty line is evicted before it is refilled. Lines have places of
  their own (`PlaceInjective`, by uniqueness of quotient and remainder), so
  serving one changes no other. With these each step maps to a step of `Memory`,
  one lane at a time (`CellOf`): an edge of `sdram_clk` is always a stutter
  (`SdCell`), also the one that stores the last beat of an eviction, when the
  line's home moves from the cache to the chip (`LastBeat`); an edge of `sys_clk`
  with an acknowledge is an answer (`AckCell`, `SysCell`).
- **SDRAM, commands.** `TimeInv` compares the machine's counters with the chip's
  own count of edges since its last command: the counter loaded for a command
  never runs ahead (`PastInv`), the state tells which command came last
  (`OrderInv`), and what is left of a burst is at most what is left of the
  initialization (`LeftInv`). A command is decided when the counter is 0, and
  reaches the chip an edge later, which is where the `+ 1` of `WaitsSuffice`
  comes from.
- **Fetch path.** `TransferHeld` needs no invariant on the cache: the bus
  interface alone guarantees it. `IcacheTypeCorrect` needs `PageInv` (a lookup is
  of the page that is fetched). For `LineFaithful` and `FetchCorrect` the
  invariant follows a word from the bus to the pipeline: `RspInv` (what the bus
  interface answers belongs to the address it strobes), `OffInv`, `FetchInv` and
  `RefillInv` (that address is the machine's, in each of its states, except
  after an error, when an old address may still be strobed, of a faulty page
  whose answer is never stored), `TagInv` (no inhibited page has a tag).
- **Flash.** `Control` says for each state of the machine what the request, the
  address, the strobes and the counters are (`BusInv`, `AddressInv`, `DelayInv`,
  `StrobeInv`), and is inductive for all delays. On top of it `AgeInv` (how long
  the chip has been selected), `BusyInv` (where an operation may be under way
  unannounced), `DatInv` and `LogInv` (what has been read and written) each add
  one theorem.
- **UART.** `WbPhase` (in `UartWb`) names the four phases of a bus access;
  `DriverInv` and `AtInv` tie them to the driver's program counter. Sending:
  `ThreInv` (THRE is seen before a write and kept down by `block_cnt` in a
  burst), `TemtInv`, `LevelInv` (room for what is written) and `QueueInv`: the
  ring from bottom to top, less the character just taken, plus the one under
  way, is what is owed. Receiving: `FlowInv` (data ready is true of the FIFO at
  every point of the driver), which gives `DataReady` also with overruns, and
  `StoreInv`, the same ring argument, without them.
- **Interrupts.** `MaskBound`: at every point of `request_irq` and `free_irq`
  only lines with a handler are unmasked, so `PICSR` takes no other, and what it
  holds, like `do_IRQ`'s copies, is of lines with a handler or of `left`
  (`StatusKnown`, `CallKnown`). No hypothesis on the moment of `free_irq`.
- **Tick.** `InTime` bounds `TTCR` in every phase of the handler while a tick is
  pending, so a match never finds one (`MatchFindsNone`). `NotAhead`: with no tick
  to be counted the last answer is at most `Slew` ahead of the counter, and of
  `tickadj` if it was given while the clock was slowed; `DivOrder` carries the
  order of counts over to microseconds.

Only model-checked is liveness under fairness, which is outside the prover:
`RequestServed`, the two `Served`, `FetchServed`, `PutcReturns`,
`BufferDrained`, `CharTaken`, `IrqServed` and `IrqReturns`. Every invariant,
action property and refinement of the passing runs has a theorem.

## 6. State and possible extensions

The models are complete as far as section 7 leaves room, and every safety
property the runs check is proved. What could be added: a bound, proved like
`RefreshInTime` with a potential, on the edges of both clocks until a request to
the SDRAM controller is answered, which would replace the fairness of `Served` by
a ratio of the clocks; and the hazards `PROJECT.json` lists without a property.

## 7. Not modelled

`PROJECT.json` lists every component with its status. Left out for good:

- the pipeline, arithmetic, exceptions and debug unit of the OR1200: 32 bit data
  paths; the fetch path, the interrupt controller and the timer have what they
  see of them;
- data cache, store buffer and quick memory, which are compiled out
  (`or1200_defines.v`); the data side of the bus interface, which without them
  gives up a request only after a bus error; the TLBs of the MMUs, whose
  contents are software's;
- `wb_conmax_top.v` and the SoC top (wiring), the PLL (generated), the on-chip
  RAM (not instantiated), GPIO and the DM9000A interface (register files and one
  acknowledge register), the boot loader (a sequential copy loop);
- the third-party software trees apart from the OR32 interrupt and timer code
  and the 8250 driver, test bench and vendor models.

In the modelled components: the values of ordinary data and of byte selects in
the matrix; the configuration registers of the SDRAM controller, which nothing
in the repository writes; byte writes to the flash, which the interface treats
as word writes and nothing makes; the bit-level shift machines, the modem lines,
loop-back and the overrun bit's race in the UART, and the reset of the receive
FIFO by FCR, which is used at initialization only; of the 8250 driver the
transmission of `x_char` and the stop by flow control (`8250.c:1360`, `:1366`),
the limits on passes and on characters per interrupt (`:1496`, `:1348`), which
the modelled behaviour does not reach, and the test of THRI in
`serial8250_startup` (`:1887`), which raises the line for a moment when its
handler is in place; the timer's other modes and the RTC; setup,
hold and metastability, which the synchronizers' first stages are there for.
