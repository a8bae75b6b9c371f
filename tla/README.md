# TLA+ models of the MMU and of the tools beside it

The program is the memory management unit of the OpenRiscv2030 core, written in
SystemVerilog and Verilog under `src/mmu/rtl/`; the rest of the repository is its
UVM environment (`src/mmu_verification/`), documents (`src/doc/`), the load-store
unit and cache subsystems it is simulated with, and, under `src/tmp/`, patched
JavaScript tools: the launcher of a command line tool and an overlay in an editor's
web view, both to show usage. These modules model the MMU and the two tools, check
the models with TLC on small instances and prove the core results with TLAPS for
all sizes.

Every model of the MMU is cycle accurate where it counts: **one step is one edge of the clock**.
Combinational signals are operators over the registers (and the inputs of the
cycle), registers are variables, and the update of all registers of a unit in a
cycle is one action. Inputs of a cycle (what the LSU answers, whether an access
hits, what CP0 writes) are bound by `\E`. Units connected by wires are composed by
conjoining their updates in one step, so that a signal one unit raises in a cycle
is seen by the other in the same cycle or after the same edge as in the source.
In the models of the JavaScript tools one action is one callback of the event loop, or a
piece of straight-line code between two points where something else can happen.

## Inventory

| Component (`src/mmu/rtl/`) | State | Operations | Talks to |
|---|---|---|---|
| L1 data TLB: `mmu_l1dtlb*.sv`, `ct_mmu_dutlb_*.v`, `ct_mmu_dplru.v` | entries, miss buffer of 8, credits, exception CAM | lookup on two ports, miss allocation, issue, refill, install, flush, invalidate | LSU, L2 request queue, PTW refill bus |
| L1 instruction TLB: `mmu_l1itlb.sv`, `ct_mmu_iutlb_*.v`, `ct_mmu_iplru.v` | entries, one miss machine | lookup, exchange between fast and slow slots, miss, refill, abort, invalidate | IFU, L2 request queue, PTW refill bus |
| L2 request queue: `mmu_l2tlb_reqq*.sv` | entry 0 for the ITLB, 1..8 for the DTLB | enqueue, issue, feedback (hit, miss taken, retry) | L1 TLBs (credits), arbiter |
| L2 arbiter: `mmu_arb.sv` | `tlboper_on`, `ptw_on`, the two phases of a refill | fixed priority grant | PTW, TLB operations, request queue, prefetcher |
| L2 TLB pipeline: `mmu_l2tlb.sv` | two stages; 8 ways of 256 sets in SRAM | lookup, refill (read, then write), TLB operations | arbiter, miss buffer, L1 TLBs |
| L2 replacement: `mmu_l2tlb_replacement_policy.sv`, `mmu_l2tlb_rrpv_wbuf.sv` | RRPV per way, write buffer of 8 | victim choice, promotion, write back | pipeline, arbiter (stall) |
| L2 miss buffer: `mmu_l2tlb_mb*.sv` | 1 + 8 entries: valid, sent, VPN | allocate, bypass, issue, completion, abort | pipeline, PTW |
| Page table walker: `ptw.sv`, `PDE_cache.sv`, `L1PDE_cache.sv`, `L2PDE_cache.sv`, `pplru.sv`, `one_to_four_xbar.sv`, `twu.sv` | request register, PDE caches, walk per entry | walk, fill, fault, refill, abort | miss buffer, read buffer, arbiter, PMP, sysmap |
| Page table read buffer: `ptw_mbuf.sv`, `mbuf_entry.sv` | 8 + 1 entries, hold, drain, bus error register | accept, request, route answers, write back, abort and drain | walk unit, LSU |
| TLB operation unit: `ct_mmu_tlboper.v` | seven machines, set counter, LSU flop | probe, read, write, invalidate by ASID, by address, all | CP0 registers, snoop queue of the LSU, arbiter, L1 TLBs, PTW (abort) |
| CP0 registers: `ct_mmu_regs.v` | MIR, MEL, MEH, MPR, MCIR, SATP | write, read, start an operation | CP0, TLB operations |
| System map, PMP: `ct_mmu_sysmap*.v`, `pmp/rtl/` | region registers | match | L1 TLBs, walker |
| Memories, top level | SRAM; wiring and clock gates | | |
| Command line launcher: `src/tmp/codex-cli-patch/codex.js` | child process, usage monitor (interval, in-flight and disposed flags), handlers | find the binary, spawn, forward signals, poll a script, mirror the end | native binary, terminal, snapshot script |
| Usage overlay: `src/tmp/codex-ext-patch/usage-monitor-inject.js` | pending requests with time-outs, last snapshot, observer, overlay | poll, answer, time out, render, react to the page | extension host, the page |
| Extension host: `src/tmp/codex-ext-patch/extension.js` | scripts running | the handler of the overlay's request (189, 205, 230); the rest is a bundled third-party program | overlay, snapshot script |

What is hard in this code is concurrency inside a cycle. Walks, refills, lookups
and operations share the L2 TLB through an arbiter with multi-cycle phases; an
operation of another core aborts walks that are queued, issued, answered late or
about to be written back; answers of the LSU carry an id and nothing else;
requests are handed over speculatively (bypass) in the cycle of an abort; and two
masters (CP0 and the LSU) start operations on shared machines. In the tools it is
signals and ends of processes that come between any two steps, and answers that come
late, out of order or never. The full list, with lines, is under `hazards` in `PROJECT.json`. By component, what makes it correct:

- read buffer: an id is never reused early, an answer reaches its walk, no read is
  lost or answered twice, the drain ends;
- TLB operations: one at a time, answered to the one who asked, and what they scan
  is what was asked for;
- arbiter and pipeline: read and write of a refill or an operation are not
  separated, and the lock is released;
- miss buffer: one walk per miss through abort and retry, none orphaned;
- L1 TLBs: a refill of a flushed miss is not taken for a new one with its id, one
  copy of a translation, every miss wakes up, credits equal free slots;
- launcher: the child's end is passed on in each of its forms, no child is left
  behind, scripts do not overlap or outlive their use, the title is given back;
- overlay: every request ends, requests do not pile up, and an old answer replaces no
  snapshot that is much newer;
- across all: once an invalidation is reported done, no level and no walk under way
  can produce the old translation.

## Modules

| Module | Models | Kind |
|---|---|---|
| `PtwMbuf` | `ptw_mbuf.sv`, `mbuf_entry.sv` | detailed |
| `PteReads` | what the walker expects of it | abstract |
| `PtwMbufProofs` | theorems about `PtwMbuf` | proofs |
| `TlbOper` | `ct_mmu_tlboper.v`, MCIR of `ct_mmu_regs.v`, requests of `ct_lsu_snoop_ctcq.v` | component |
| `L2Arb` | `mmu_arb.sv`, stages of `mmu_l2tlb.sv` | component |
| `MissBuf` | `mmu_l2tlb_mb*.sv`, request register of `PDE_cache.sv` | component |
| `L2Access` | the three connected, with walks that end when they like | composition |
| `WalkService` | what the misses of the L2 TLB may rely on | abstract |
| `L2AccessProofs` | theorems about `L2Access` | proofs |
| `L1Dtlb` | `mmu_l1dtlb.sv` and the units of its miss buffer | component |
| `L2ReqQ` | `mmu_l2tlb_reqq*.sv`, entries for the DTLB | component |
| `DtlbMiss` | the two connected, between LSU pipelines and L2 TLB | composition |
| `PageMisses` | what an L1 TLB promises of its misses, page by page | abstract |
| `DtlbMissProofs` | theorems about `DtlbMiss` | proofs |
| `L1Itlb` | `mmu_l1itlb.sv`, its entries and the choice of the one to replace | component |
| `ItlbFetch` | the same between IFU and L2 TLB, with entry 0 of `mmu_l2tlb_reqq*.sv` | composition |
| `ItlbFetchProofs` | theorems about `ItlbFetch` | proofs |
| `Launcher` | `codex.js` with its child and the signals sent to both | component |
| `LauncherProofs` | theorems about `Launcher` | proofs |
| `UsageOverlay` | `usage-monitor-inject.js`, its page and its host | component |
| `UsageOverlayProofs` | theorems about `UsageOverlay` | proofs |
| `MCPtwMbuf`, `MCL2Access`, `MCDtlbMiss`, `MCItlbFetch`, `MCLauncher` | | for TLC |

Definitions named in a comment as *mutant* are not part of a model: each is a
plausible mistake in the definition that follows it, kept to show that a property
would catch it.

### Page table read buffer (`PtwMbuf`)

`Entry` is `0 .. N`; entry `N` is the ITLB's. `job[i]` is the read an entry holds
(`mbuf_entry_vld` with address and id), `on` the entries whose request the LSU has
accepted, `got` the word buffered in an entry, `busErrOn` and `busErr` the error
path, `hold` the request presented and not granted, `drain` the registered abort,
`pdeUpd` the registered write-back with its PDE cache port. `inLsu` (the reads the
LSU holds) and `waiting` (the reads the walker waits for) belong to the environment.
A cycle is `AbortCycle` when `tlboper_ptw_abort` is high, else `RunCycle`. A page
table word is known by the read it answers and by whether it is a pointer.

The environment is as loose as the wires allow: the LSU grants or not, answers in
any order, with data or a bus error; the walker asks for a read whenever a slot of
the L2 miss buffer of that kind is free; an abort comes in any cycle.

### Access to the L2 TLB (`TlbOper`, `L2Arb`, `MissBuf`, `L2Access`)

`TlbOper` keeps the state of the seven machines in one function `st`; each
transition of the source is a line of `Move` or, from the idle state, of `Start`
and `First`. `L2Arb` keeps the kind of access in each stage (`raw`, `final`) with
the machines that asked for it. `MissBuf` has sets of entries: valid, sent, in the
request register (`pdeReq`), walking (`walks`). `Cycle` of `L2Access` evaluates the
signals in the order of the wires and updates all three. Accesses carry a mark `wr` that
the pipeline does not have: the operation writes, and the ways it wrote no longer hit. What
is an input: which
lookup the request queue or prefetcher offers, the hit of the second stage, which
walk reports a fault or asks for its refill, back-pressure of the walker, whether
the RRPV write buffer is full, what CP0 and the snoop queue ask for. CP0 asks for one
operation and waits for its end; the snoop queue holds its request until
`mmu_lsu_tlb_inv_done` and then takes at least a cycle, as in `ct_lsu_snoop_ctcq.v`.

### Misses of the L1 data TLB (`L1Dtlb`, `L2ReqQ`, `DtlbMiss`)

`L1Dtlb` has the two ports, 0 for loads and 1 for stores. `missq` is the miss in T1
of each port, `mb` the state machine of each miss buffer entry with the instruction
that missed, `cam` the exception CAM, `credits` and `ptr` the scheduler; `tlb` is the
set of pages with a valid entry, from which pages may disappear in any cycle
(replacement, invalidation). An instruction stands for its iid, so that a number
used again after a flush is an iid used again. Page and access faults are one kind.
`L2ReqQ` has the queue's entries and which of them are `sent`. In `DtlbMiss` the two
stages of the L2 TLB (`raw`, `fin`) and the walks in progress (`walks`, `ptw`) answer
as they like: hit, fault, walk, or back to the queue. A lookup that misses with
`mmu_lsu_tlb_busy` high puts its instruction in `frozen` a cycle later
(`ct_lsu_ld_dc.v`); a wakeup or a flush empties `frozen`. The LSIQ, where these
instructions wait, is not in the repository: the model lets a wakeup count that
comes in the very cycle in which the pipeline reports the instruction as busy.

### Fetches (`L1Itlb`, `ItlbFetch`)

The instruction TLB answers from four of its 32 slots, `Fast`; a fetch that hits another
one makes that slot and the fast slot `wen` exchange their entries and is answered in the
next cycle. `vld` and `vpn` are the entries, `victim` the slot a refill will write,
registered a cycle before, `st` the machine of the only miss and `credit` its credit.
`Swapped`, `Refilled` and `Cleared` are the three writes of an entry; `L1ItlbEdge`
joins them in the priority of the entry's registers: clear, refill, exchange. An
invalidation by address compares eight bits of the page number (`Low`), and compares them
with what a slot held before the edge. Which slot is replaced when all are valid is left
open: the PLRU tree is one such choice. Pages have 4K, the MMU is on and addresses are
legal; a fetch with an illegal address is answered at once from outside the slots.

`PageMisses` is the common promise of both L1 TLBs, which know an answer by the entry it names
or by nothing at all: seen from a page, a miss is asked for once, the page enters the TLB only
by the answer to it, and not once it was given up. `DtlbMiss` maps to it the entry that is for
the page (`MissOf`), `ItlbFetch` the state of its machine and the page its request carries.
The machine gives up later than it asks (an aborted miss in state WFG sends its request all
the same), which is the constant `Late`.

`ItlbFetch` adds the fetch unit, which holds an address until it is answered or until
`abort`, and is not in the repository (its protocol is that of `ifu_driver.svh`); entry 0
of the request queue (`que`, `sent`); the two stages of the L2 TLB (`raw`, `fin`), which
find the page, a fault, start a walk or turn the request back; the walk, whose end
(`ptw`) may be a page, a page fault or an access error at any time; and `inv`, what the
TLB operations invalidate in this cycle.

### Command line launcher (`Launcher`)

`pc` is the place in the script, which runs from its start to its `await` without
returning to the event loop; `Looping` are the places where callbacks run.
`SignalComes` may happen between any two steps: before `InstallHandlers` any signal
ends the launcher, after it the handled ones are noted in `received` until
`ForwardSignal` runs. `child` keeps apart that the binary has ended (`dead`) and that
the launcher has seen it (`reaped`), `toChild` is what has reached it. `monitor` has the
flags of the usage monitor's closure and `scripts` the scripts it has started; a script
may take any time. The machine it runs on is the constant record `host`, from which
the target, the installation and the environment of the child follow. After the
child's end `Mirror` ends the launcher, or leaves it `draining` its event loop when it
has sent itself a signal that it handles. A binary that can not be started is known by an
event (`failed`) or, for the errors that `spawn` throws, ends the launcher at once.

### Usage overlay (`UsageOverlay`)

Time is in seconds and passes only when no timer is due. `pending`, `timers` and
`waiting` are the entries of `pendingResponses`, their time-outs and the calls of
`refresh` that await them: three places that the code keeps equal by hand. `atHost` are
the scripts the host runs, one for each request, and `answers` what is on its way back,
in any order. The observer watches for children added or removed in the whole body, the
overlay's own texts included; while it has something to be told (`notify`) only microtasks
run. `Mutates` is what a render may give it: an overlay that is inserted or moved, and a text
replaced by another one. Writing the same text again is not a mutation in Chromium, which
shows the web view: its setter of `textContent` leaves an element alone that has just this
text. That is a fact of the browser and not of the code: the DOM standard replaces the text
node whatever it holds, and under it (`RenderSnapshotAnew`, a mutant) the first render that
is observed would be followed by others for ever and no time-out would fire again.

## Runs

| Run | Instance | Shows |
|---|---|---|
| `PtwMbuf` | N = 2, three DTLB reads, one ITLB read, with fairness | all safety of the buffer, that it implements `PteReads`, and `DrainEnds` |
| `L2Access` | 2 sets, 1 + 1 miss entries, CP0 reads, writes and invalidates | serial operations, excluded refills, one walk per miss, right completions |
| `L2AccessProbe` | 3 sets, CP0 probes and uses its invalidate-all wire, with fairness | misses are served as `WalkService` says also when operations overlap; `LsuInvDone` |
| `L2AccessSerial`, `L2AccessAsid` | small | two disagreements between code and documents |
| `DtlbMiss` | 2 loads, 1 store, 2 pages, 2 entries, 2 credits, flushes | safety of the miss path |
| `DtlbMissLive` | 1 load, 1 store, 2 pages, 2 entries, 1 credit, no flush, with fairness | `SleeperWakes`, also when misses wait for a credit |
| `DtlbMissWake` | 1 load, 1 store of one page, flushes, with fairness | violates `SleeperWakes` |
| `ItlbFetch` | 1 fast and 1 slow slot, 3 pages, invalidation of one page or all, aborts, with fairness | one request with the right answer, one entry a page, what an invalidation leaves, that it implements `PageMisses`, `FetchAnswered` |
| `Launcher` | 11 machines, 3 handled signals and a fatal one, codes 0 to 2, with fairness | scripts do not overlap or come late, ends and signals are passed on, the title is given back, `LauncherEnds` |
| `LauncherExit` | same | violates `MirrorsEverySignal` |
| `UsageOverlay` | 3 polls of 5 s with time-outs of 8 s, one anchor, with fairness | bounded and timed requests, order of snapshots, `RefreshSettles` |

**Bounds.** Two DTLB entries and an ITLB entry are enough for every relation
between entries of the buffer (lower, higher, ITLB) and one read more than entries
for reuse of an entry by another read while the LSU still holds the old one; the
proofs remove the bound. With `InvLast = 1` a counted invalidation has a first, a
last and so both kinds of set; the machines use the counter only through equality
with the last value. One DTLB entry beside the ITLB's gives bypass, retry and full
buffer; the order of several entries is only in `FirstRdy`. CP0's operations are
split over runs because operations of CP0 exclude one another.
For the misses, three instructions on two pages fill both entries, merge with an
entry, and leave a miss without one; two of them in one cycle are on one page or on
two. In the source miss buffer, credits and queue have 8 entries each, so that the
credits can not run out before the entries; the run with one credit shows that they
would do their work if they were fewer.
Two slots are the least that have something to exchange, and three pages more than fit:
slots are replaced, a page given up is asked for while another one is installed, and two
pages that differ only in the bits an invalidation does not compare are told from a third
one. With one fast slot the turn of `wen` is not seen; the proofs cover any number of slots of
each kind.
`MCHosts` has a machine that works and ten that differ from it in one or two
independent things (platform, package, local copy, PATH, package manager, arguments,
terminal); signals, scripts and the child's end interleave freely on each. In the
overlay the periods are those of the source; with three polls two requests overlap and
a third one begins after the time-out of the first, and the proofs remove the bound. The
anchor can come and go, the overlay be removed with it, and a snapshot read like the one
before or not, which is all that rendering asks of them.

**Fairness.** `PtwMbuf`: the clock runs, and the LSU answers each read it has
accepted. `L2AccessProbe`: the clock runs, and the arbiter is not stalled for ever:
a full RRPV write buffer drains in the cycles in which no lookup enters, and none
enters while it is full. `FairSpec` of `DtlbMiss`: the clock runs while anything is in
flight, the arbiter does not pass over a waiting request for ever, the pipeline does
not turn back every lookup, every walk ends; nothing is assumed of the LSU, which
need not start another instruction. No bound is assumed on walks, grants or competing misses.
`FairSpec` of `L2Access` says this with `[]<>`, since every cycle is enabled.
`ItlbFetch`: as `DtlbMiss`; that cycles which change something in flight go on is said with
the condition on which there is one (`Quiet`), and nothing is assumed of the fetch unit.
`FetchAnswered` excepts invalidations that never stop, since one may take away the page in
the cycle of each refill.
`Launcher`: the launcher's own steps and handlers run; nothing is assumed of the child,
of who sends signals, of the timer, nor that a script ends. `UsageOverlay`: timers and
queued tasks run even if the page's scripts keep interrupting them (strong fairness, as
the event loop is a queue); the host need not answer.

## Findings

1. `L2AccessSerial`: the probe tests `tlb_lsu_oper_flop` where the other operations
   test `tlb_lsu_oper`, so it can start in the same cycle as an LSU invalidation.
   `ProbeOverlaps` proves that this is the whole exception as long as CP0 does not use
   its invalidate-all wire. Where it happens `OperReleasesArbiter` and
   `WriteFollowsItsRead` fail too: the probe's completion ends the hold of the arbiter, and
   the last grant of the other sets `tlboper_on` as it ends. It stays set until the probe,
   whose bit in MCIR that completion has not cleared, has run again. `NoOrphanedMiss` and
   `Cp0DoneIsDone` hold (proved).
2. `L2AccessAsid`: an invalidation by ASID that found entries in a set takes the
   completion of its write for that of the next read, which it has been granted
   meanwhile, and passes over the next set without looking. The test that would tell the
   two apart is commented out in the source. `AsidSkips` proves that only this ends the
   wait too soon, so what is passed over is the set after one just written. The run has no operation of CP0. With
   `Cp0Ops = {"invasid"}` the same property fails in another way: a broadcast
   invalidation uses CP0's ASID for the sets scanned after CP0 writes `MCIR.invasid`.
3. `DtlbMissWake`: after a flush, an instruction on the page of an entry that is still
   waiting for its answer (ABT) is merged with that entry and put to sleep; the
   answer frees the entry without a wakeup. It sleeps until another miss, or another
   flush, happens to wake it.
4. `LauncherExit`: the launcher sends itself the signal that ended its child while its
   own handlers are still registered; the signal is caught and the launcher exits with
   code 0, where the comment above promises 128 + n.

Not a run: the PDE cache port of the read buffer is driven in the first cycle of an
abort, which the assertion `a_abort_drain_blocks_cache_update`
(`mmu_ptw_lsu_protocol_sva.sv:391-392`) excludes. Harmless: `PDE_cache.sv` clears in
that cycle, and the clear wins. An entry of the L2 miss buffer allocated with bypass in an
abort cycle is marked sent though its request is dropped; it waits for the closing
abort of the operation, and `NoOrphanedMiss` says that this always comes.

Not a run: an install is not held back by a flush in the same cycle, where
`l1dtlb_function_description.md` (A060) expects none; the assertions of
`mmu_l1dtlb_sva.sv` allow it, and the translation is a valid one. F2.18 of
`MMU_VerificationPlan.md` has `mmu_lsu_tlb_busy` high only with a full miss buffer,
the code with any valid entry.

Not a run: `cp0_mmu_tlb_all_inv` may also start together with an LSU operation. Then
the two share the counter and completion, and `OneOperAtATime`,
`OperReleasesArbiter` and `Cp0DoneIsDone` do not hold; no document says whether CP0
may do so, and the properties that `L2AccessProbe` checks hold nevertheless, as do
`OneWalkPerMiss`, `OperExcludesRefill` and `NoOrphanedMiss` (proved).

Not a run: a launcher that has caught the signal it sent to itself (finding 4) runs its
event loop until the script under way at `dispose` has answered. `tick` reads `disposed`
before its `await` and not after it (`codex.js:281-294`), so the answer overwrites the title
given back, and the launcher ends with code 0 and the title of a snapshot, or of none. `LateScript` is exactly
this in `TitleGivenBack`, which fails without it; no document speaks of the title.

Not a run, on the instruction TLB, each stated as the exact exception of a property that
holds:

- `InvClears`: an entry that is exchanged in the last cycle of an invalidation of its page
  is moved without being cleared, because both slots compare what they held before
  (`ct_mmu_iutlb_entry.v:121`). `MMU_VerificationPlan_final.md` (`ITLB_INV_002`) has the page
  invalidated. It takes a fetch of that page,
  or of the one it is exchanged with, in that cycle.
- `OneRequest` and `PaVld`: an access error is delivered to the fetch held, also when the
  miss it belongs to was given up (`mmu_l1itlb.sv:2254`); the comment at 497-499 says
  that only a hit may pass an earlier miss.
- In state WFG the credit is always there (`OneRequest`, proved), so that the transition
  WFG to IDLE and the wait in WFG can not be reached; `phase14_dut_quality_coverage_closure.md`
  asks for a test of it.

## Theorems

`PtwMbufProofs` proves for every `N` and all sets of reads that `Spec` implies the
type invariant and every safety and action property of the run `PtwMbuf`, and that
the buffer implements `PteReads`. The only assumptions are that `N` is a positive
natural, that the ITLB and DTLB reads are disjoint, and that "no read" and "no data"
differ from all reads and words. All results rest on one inductive invariant:

- `TypeOK`, `OutstandingTracked`, `ResponseReachesItsWalk` and `NoLostWalk` are not
  inductive. That an answer reaches its walk needs that `on` is exact, which needs
  that only an entry without an outstanding read is refilled or requested, which
  after an abort holds only because the drain keeps entries empty until `on` is. So
  the invariant adds that during a drain no entry is valid and nothing waits, and
  that `hold` is one entry and a pending one.
- That no read is lost needs that a free DTLB entry exists whenever the walker asks.
  This is a counting argument: at most `N` DTLB reads wait, each is in one entry or
  in the bus error register, no two entries hold one read.

The refinement maps `open` to `waiting` and `reply` to `pdeUpd`; its step theorem
uses the invariant in both states.

`DtlbMissProofs` proves every safety property of the run `DtlbMiss` for any number of
entries of the miss buffer and the queue, any instructions, pages and credits, with or
without flushes. The assumptions are that sizes are positive, that loads and stores
are distinct numbers from 1, and that there are no more credits than entries in the
queue (`CREDIT_MAX` and `DTLB_DEPTH`, both 8). The inductive invariant `IInv` adds to
the types:

- `CreditCount`: credits and occupied entries sum to `CreditMax`, and credits are in
  range. A request is sent only with a credit, so that an entry of the queue is free
  (`RoomForRequest`) and the sum is kept when a request comes and a credit goes in one
  cycle.
- `OneRequest`, the form of `OneRequestPerMiss` without counting: no two requests in the
  queue or among the walks have one entry, each is for an entry that waits, an entry
  that waits has one, and a walk that is reported is in progress. An entry waits after
  the cycle that sends its request, until it takes an answer (`WaitsStep`); an answer
  ends one request and is for no other (`AnswersOne`), which needs `ResultOfItsRequest`:
  a slot of the queue is not given away while its request is in the pipeline. That
  the queue has room is needed here as well: a request that found none would leave its
  entry waiting for ever.
- `FaultTracked` needs that the two answers of a cycle are never for one entry
  (`AnswersDiffer`), and `OneRequest` gives that.
- `NoDuplicateMiss` and `ResultOfItsRequest` are inductive with the types.

`Refinement` is that `DtlbMiss` implements `PageMisses`. The witnesses of a step are the page
of the request sent (`Ask`) and the page installed (`Come`). What an entry does in a cycle is a
move of `PageMisses` (`EntryGoes`, `IdleGoes`); `PageGoes` carries it over to the page, because
`NoDuplicateMiss` makes the entry of a page unique before and after the cycle, and a miss
allocated is of a page without one. That the page installed is the one asked for is
`InstalledOne`, and rests on `OneRequest`. The number of misses is bounded by the entries, by
the injection from pages to them (`MissLimit`).

`ItlbFetchProofs` proves the safety properties of the run `ItlbFetch` for any numbers of fast
and slow slots, any pages and bits compared, and any invalidations. The assumptions: slots are
numbers, there is a fast one, the two kinds are disjoint. The invariant follows the request:

- `Pipe` says where it is: in the queue, in one of the two stages as `sent` has it, or
  walked, and nowhere when there is no miss. `OneRequest` follows, and with it that the queue's
  entry 0 is free when it is written.
- `Absent` says that the page missed is not in the TLB from the cycle that saw the miss to the
  answer, and that the fetch is held meanwhile unless it is given up. An exchange moves
  entries but brings no page (`Exchange`), so a refill brings one that is new
  (`RefillIsNew`), and `NoDuplicateEntry` is kept. Because `NoDuplicateEntry` holds, a hit is
  one slot, and an exchange is between two.

`Refinement` is that `ItlbFetch` implements `PageMisses` with one miss at most: `PendingIsOne`
and `RequestStays` follow the page of the request through queue, pipeline and walk, and
`RefillIsNew` says that the answer is for it. `TypeOK` is proved and not part of the run.

`L2AccessProofs` proves every safety property of the run `L2Access`, and that `L2Access`
implements `WalkService`, for any number of sets (at least two) and of miss buffer entries.
There are three invariants:

- `IInv` holds whatever CP0 does: the types, the states each machine can be in,
  `OneWalkPerMiss`, `NoOrphanedMiss` and what they need. `OneWalkPerMiss` is inductive: an
  entry allocated is a free one, an entry issued has no walk, and a walk that completes is
  one of those under way. `Refill` ties `ptwOn` to the two accesses of a refill and to
  their places in the pipeline; that the operation unit is let in only while `ptwOn` is
  low, and a refill only while `tlboperOn` is, keeps the two apart. `NoOrphanedMiss` needs
  that no miss is allocated in the cycle of the closing abort, so that no lookup is two
  stages behind the end of the LSU's operation (`LsuPath`). That holds also where a
  probe or CP0's wire overlaps with it, for reasons found with TLC: machines that run together
  began in one cycle (`LsuTurn`) and so take the same first grant, a probe that ends by an
  access it shares with the other lets nobody in before that one has moved on, and an
  invalidate-all asks in every cycle.
- `Turns` holds if CP0 does not use its wire (`NoWire`): those that run are the one of
  the bit in MCIR or, with the flop set, the one asked for by the LSU and at most a probe.
  `Cp0Told` and `ProbeOverlaps` follow.
- `SInv` holds if CP0 does not probe either (`Cp0Serial`, an assumption of `Serial`,
  `Released`, `WritesFollow` and `AsidSkips`; the first three fail without it). `Turn` is `Turns` without the
  probe. `Holds` says that a machine past its first grant holds the arbiter and that
  no lookup is behind it in the pipeline. `Reads` follows the read of each machine that
  writes back through the two stages until its write (`WriteFollowsItsRead`). For the
  invalidation by ASID it has to allow that the write of the set before completes while
  the read is in the first stage, which is finding 2 (`AsidSkips`).

`LauncherProofs` proves `OneScriptAtATime`, `StatusMirrored`, `TitleGivenBack`,
`OwnToolsFirst`, `NoScriptAfterExit`, `OrphanOnlyByFatal` and the type invariant for all machines, sets of signals and codes.
The invariant ties the place in the script to the child's state (`Phases`): a child
that has been seen to end belongs to a launcher that is draining or has ended, and
whose interval is off. `EnvOfInstallation` says that from the spawn on the child's PATH is
the one made for the installation found. `PathIsFiltered` is what `NonEmpty` computes for a
PATH of any length: an order-preserving bijection to the positions that are not empty; `NonEmpty`
is written with ranks of positions instead of recursion for its sake. `Scripts` says that the in-flight flag counts the scripts as long
as the launcher runs, and that a launcher without a monitor has none and has not
touched the title. `TitleGivenBack` holds from the child's end on, in every state and so
however the launcher ends; `LateScript` is its one exception (Findings).

`UsageOverlayProofs` proves `WaitingIsTimed`, `PendingBounded`, `BackByOneAtMost` and the type invariant for
every interval, time-out and number of requests. The invariant `OnTime` says that the
last request is not of the future and that none that waits is overdue; so those that
wait are among the last `Timeout \div Poll + 1`, which bounds both their number and how
far back an answer can reach.

Only model-checked: the liveness properties, which are out of the prover's reach
(`DrainEnds`, `LsuInvDone`, `SleeperWakes`, `FetchAnswered`, `LauncherEnds`,
`RefreshSettles`). Only proved: the refinement of `PageMisses` by `DtlbMiss`. TLC finds it to
hold on the instance of the run `DtlbMiss`, but evaluating the abstract step on each of its 11
million transitions takes longer than a run should.

## Plan

1. The L2 miss buffer with VPNs, so that duplicate walks and the multi-hit they lead to
   can be stated; the two L1 TLBs together on the request queue.
2. `TlbCoherence`: one translation through L1, L2, PDE cache and walks, and an
   invalidation; the abstract specification is a map from addresses to the
   translations that may still be used. Walks that began before a clear and fill the PDE
   caches after it belong here.
3. Pure algorithms: the Sv39 walk of `twu.sv` with PDE cache hits and huge pages
   against a reference walk; skewed indices and page size prediction; RRPV
   replacement and its write buffer; PLRU trees; PMP and system map matching.

Not modelled and not planned: SRAM wrappers and clock gates (no behaviour the models
do not already have), debug and performance outputs, the UVM environment, and the
LSU and cache subsystems beyond their interface to the MMU. Of the tools: the texts,
colours and style sheet they show, Windows' forms of signals, the page's own scripts
beyond what they do to the anchor, and the third-party bundle that `extension.js` is,
except the handler of the overlay's requests.
