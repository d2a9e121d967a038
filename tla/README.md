# TLA+ models of the video_processing verification harness

The Python code of this repository is a cocotb verification harness for an
FPGA memory-to-display pipeline: an Avalon-MM DMA master reads frames from
memory into a dual-clock FIFO, and an HDMI sync generator streams them out.
The RTL itself (`RTL/*.v`) is not among the sources; it is the device under
test (DUT), reached only through signal handles. The harness is what these
modules model: its coroutines, the order cocotb runs them in, and the
checks they make. Where a check depends on what the DUT does, the DUT is
modelled from `spec.md` and marked so in `PROJECT.json` (`spec_modelled`).

## 1. Inventory

### Components

| Component | Source | State | Operations |
|---|---|---|---|
| Bus responder `AvalonMemory` | `tb_dma_master.py:7-72` (copy in `tb_video_integration.py:9-61`) | `mem` (address → word), `req_queue`, the driver's current request, latency and burst index, the signals `m_readdatavalid`, `m_readdata`, `m_waitrequest` | `run()` samples `m_read`/`m_address`/`m_burstcount` after every edge and enqueues; `response_driver()` dequeues, waits `randint` edges, drives one beat per burst word, one idle edge |
| DMA exerciser tests | `tb_dma_master.py:74-190` | `expected_count`, `timeout_counter`, `read_commands`, the DUT inputs `reset_n`, `dma_start`, `fifo_used` | reset, start pulse, monitor FIFO writes; backpressure: hold `fifo_used` at 450, count `m_read` over two 200-edge windows |
| DMA control tests | `tb_video_dma_master.py`, `tb_video_pipeline.py`, `tb_hdmi_sync_gen.py` (`DmaControlTestbench`, `RegisterTests`, `CtrlRegs`) | start/continuous inputs, the slave register interface | start pulse → busy; continuous mode on `vsync_edge`; register writes across the 50 MHz / pixel-clock crossing |
| Dual-clock FIFO validator | `tb_fifo.py` | write and read clocks, `FIFO_Driver.queue`, the values written | write while not full, read with one-cycle registered latency, flag propagation checks, `wrusedw` saturation |
| Frame capture | `tb_video_integration.py:63-219` | memory image, `pixel_count`, output file | configure registers, prime the FIFO, fast-forward the sync counters, wait for vsync, capture `hdmi_d` on every `hdmi_de` edge up to 3 frames or 5 M cycles |
| Frame verifier | `bin2bmp.py:38-97` | captured words, reference raster | split into 960×540 frames, `verify_chunk` with a wraparound offset, count and print mismatches |
| Image-to-raw packer | `src/linux_software/image_converter/img2raw.py` | the output file `image.raw` | resize to 960×540 RGB (PIL), write each pixel row by row as bytes b, g, r, 0; print and swallow any exception; exit 1 without arguments |
| Bitmap dump | `bin2bmp.py:5-36` (`write_bmp`) | the `.bmp` files | split each word into r, g, b by shifts, write b, g, r |
| Raw inspector, runner shims | `check_raw.py`, `tests/test_*.py` | none | print five words; `cocotb_test.simulator.run` |

### How they interact

Everything runs as cocotb coroutines on one simulator thread. A coroutine
runs until it awaits a trigger (`RisingEdge(clk)`, `Timer`, `ReadOnly`,
`Queue.get`); at each rising edge the simulator updates the DUT's
registers and resumes every coroutine waiting for that edge, one at a time,
in an order that is fixed for a build but unspecified. The test coroutine
drives the DUT's inputs; the responder's sampler reads the DUT's bus
outputs and hands requests to the response driver through `req_queue`
(single producer, single consumer); the driver drives the DUT's
`readdatavalid`/`readdata` inputs; the test observes the DUT's FIFO-write
port or `m_read`.

### What is hard

* Two coroutines per responder share a queue and wake on the same edge.
* Latency is drawn by an unseeded `random.randint`: a test passes or fails
  depending on the draw, and a failure cannot be replayed.
* Signals are read right after `RisingEdge` (pre-edge values) except where
  `ReadOnly()` is awaited. The runners fix `sim="iverilog"`, which
  resumes the coroutine before the edge's nonblocking updates, so every
  model reads pre-edge values there. `Timer` expiries coincide with clock
  edges.
* Bursts in flight, backpressure and observation windows interact: a check
  holds only if windows outlast the responder's turnaround.
* The FIFO test runs two unrelated clocks; the capture test runs two
  clocks and waits on signals with and without budgets.
* X values before reset: `int()` raises and the harness skips the cycle.

### What makes each component correct

* Responder: every accepted command is answered by exactly `burst` beats,
  in enqueue order, with `mem[addr + 4i]`; nothing is answered that was
  not requested.
* DMA exerciser: the words written to the FIFO are 0,1,2,... ; no `m_read`
  while `fifo_used` is near full; reads resume after release; the test
  ends with a verdict for every latency draw.
* FIFO validator: data order, empty/full flags within their propagation
  budgets, `wrusedw` saturating at `2^W-1`.
* Capture & verify: a run that did not capture the target pixel count, or
  whose frames differ from the reference, is reported as failed; every
  blocking wait is bounded.

The hazards, each at the line where it bites, are listed in
`PROJECT.json` under `hazards`.

## 2. Plan

In order of importance:

1. **Done** `AvalonMemory` (responder), `VideoDmaMaster` (DUT, from the
   spec), `DmaTestbench` (clock, cocotb resume order, the two tests of
   `tb_dma_master.py`), `MCDmaTestbench` with run `dma_tests`.
2. **Done** `FrameVerify`: `verify_chunk` and the frame loop of
   `bin2bmp.main` as operators, checked against a reference definition
   (equality with the image, count of differing pixels).
3. **Done** `FrameCapture` with `HdmiDisplay` (sync counters, DE, vsync,
   pixel words; correct or faulty): the capture coroutine of
   `tb_video_integration.py` composed with `bin2bmp`, runs
   `frame_roundtrip`, `frame_bad_data` and three violation runs.
   Left: composing the display with `VideoDmaMaster`, a FIFO and the
   integration copy of the responder, so that underflow comes from the
   model instead of a fault choice.
4. **Done** `DcFifo` (the FIFO, from the spec), `AbstractFifo` and
   `DcFifoTestbench` with the three tests of `tb_fifo.py` run in sequence;
   run `fifo_any_ratio`.
5. **Done** `DmaControlTestbench`: the start/busy and continuous-mode tests
   of `tb_video_dma_master.py` with the inline one-beat responder; runs
   `dma_control_session` and `dma_stale_valid`.
   **Done** the register tests of `tb_hdmi_sync_gen.py` and
   `tb_video_pipeline.py` (`CtrlRegs`, `RegisterTests`), run
   `register_tests`.
6. **Done** `AvalonSlave`, the abstract responder (requests in, beats out,
   in order), refined by `AvalonMemory` under a mapping that hides the
   queue, the coroutines and the latency; checked in `dma_tests`.

## 3. Modules and runs

### `AvalonMemory` — the responder

State: `reqQueue` (`self.req_queue`), `drv` (the driver's locals and where
it is suspended: `get`, `latency`, `beat`, `end`), `m_readdatavalid`,
`m_readdata`. It reads `seen` (the DUT's outputs as read after the edge)
and `awake` (coroutines resumed by the last edge that have not run yet).
Actions: `SampleAccept`, `SampleUndefined` (X address/burst: warning and
skip), `SampleIdle` — the three outcomes of one iteration of `run()`;
`DriverGet` (queue non-empty, same time step, draws the latency),
`DriverLatency`, `DriverBeat`, `DriverEnd` — one per `await RisingEdge` of
`response_driver()`. `Mem(a)` is `__init__`'s fill plus the `mem.get`
default.

### `AvalonSlave` — what the responder promises

The abstract read slave has no queue, no coroutines and no latency. It
owes each accepted command its burst words, `Word(addr)`,
`Word(addr + 4)` and so on, after the words owed before them. A cycle
either delivers the oldest owed word or drops `readdatavalid`.
A slave lives as long as the test that created it. `Restart` starts
the next test's slave (`session` + 1): it owes nothing and drives both
signals to 0. `DmaTestbench` instantiates it with `AvalonMemory`'s memory
and checks the refinement as `ResponderRefinement`.

### `VideoDmaMaster` — the DUT (from the spec)

One synchronous update per edge (`DmaEdge`): reset, start on `dma_start`
or on `vsync_edge` in continuous mode, issue a burst when
`IssueAllowed` (busy, words left, `fifo_used` below the threshold, room
among words in flight), one FIFO write per `readdatavalid` beat, idle
once all words arrived. Power-up registers are X, the read strobe 0, 1 or X.

### `DmaTestbench` — composition

`Edge` is the rising edge: the DUT updates from the inputs as the
coroutines left them, `seen` records its outputs from before the edge, and
every edge-waiting coroutine is put in `awake`. An edge happens only when
`awake` is empty and the driver is not about to return from `get()`, which
is how cocotb finishes a time step before advancing. The test coroutine
(`Test`, `"basic"` or `"backpressure"`) counts `Timer` waits in edges. A
`Timer` ends at a multiple of the 10 ns period, in the time step of an
edge, so `TimerEnds` lets the step after it happen at that edge or the
next.

The constant `Tests` is the sequence of tests of the file, and they run
one after the other in one simulation, as cocotb runs them. `Init`
starts the first test from power-up. `NextTest` is cocotb ending a test
and starting the next one. It records the verdict in `results`. It kills
the forked coroutines: the responder's queue, driver and bus signals
restart, and the clock stops until the next test starts a new one. The
test restarts at `reset_dut`, with all inputs driven to 0. The DUT keeps
its registers (`dut`, `seen`) until the new test's first edge with
`reset_n = 0`. So the backpressure test starts against a DMA that the
basic test left with bursts still owed (`tb_dma_master.py:134-152`).
`resetDone` is a ghost that records that edge.

Runs (`MCDmaTestbench`):

| run | cfg | checks | shows |
|---|---|---|---|
| `dma_tests` | `MCDmaTests.cfg` | `TypeOK`, `BeatAccounting`, `NoDataMismatch`, `AllTestsPass`, `ResponderRefinement` | for the two tests run in sequence, every latency draw, resume order and Timer/edge race, the responder owes the DMA exactly its outstanding words; `test_dma_basic_transfer` sees 0,1,2,... and passes; `test_dma_fifo_backpressure` sees silence while `fifo_used` is near full and reads again after release; the responder refines `AvalonSlave` |

`BeatAccounting` relates four actors: the DUT's count of words requested
and not received equals the words of the command on the wire, of the
command the sampler has read and not yet enqueued, of the queued
requests, of the current burst's undriven beats and of a beat driven but
not yet taken. It is required from the current test's first reset edge
on. Between `NextTest` and that edge, the DMA still counts the words the
killed responder owed, and the new responder owes nothing. That is the
hazard at `tb_dma_master.py:92`: a DMA left `read = 1` would have its
stale command sampled by the new responder. At these bounds the basic
test always ends with the DMA saturated (`pending` = `MaxPending`,
`read` = 0), and the code's 512 words = 8 full bursts lead to the same
state. So no stale command reaches the new responder, and every later
state satisfies `BeatAccounting`. `AllTestsPass` requires that the last
test ends with PASS and that every earlier verdict is PASS.

Bounds: bursts of 2 words, at most 6 words in flight (three bursts, so
two requests wait in the queue behind the one being served; with two
bursts the queue never holds two and a driver serving the newest
request first goes unnoticed), latency 2..4 (the code draws 5..20;
three values exercise the ordering), a frame of 16 words, memory of 16 words, 2 reset edges. The basic test
stops after 6 words (three bursts, like the 512 words = 8 bursts of the
code); its timeout is 12 edges. The backpressure windows are 3 (run),
4 (hold), 8 (observe), 2 (release) edges: like the code's 50/200/200/50,
the observe window outlasts one burst's worst turnaround (4+2+1 edges).
With an observe window of 4 edges TLC finds the test failing, which is
the hazard recorded at `tb_dma_master.py:185`.

`ResponderRefinement` checks that `AvalonMemory` implements the abstract
read slave `AvalonSlave`. `AvalonSlave`'s variables are `owed`, the
words owed, oldest first, and `session`, the test whose slave answers. Its actions are `Accept(addr, b)`, which
appends the command's words, `Beat`, which drives the oldest owed word
with `readdatavalid` = 1, and `Pause`, which drops `readdatavalid`. `Restart` starts
the next test's slave. The refinement mapping sends `owed` to `Unserved`:
the undriven rest of the burst the driver serves, then the words of the
queued requests. It sends `session` to `Len(results)`, the number of tests
that have ended. `NextTest` is `Restart`. Sampling and
enqueueing a command is `Accept`. A burst beat is `Beat`. The latency
edges and the end edge are `Pause`. Everything else is a stutter.
A driver that serves the newest request first breaks it.

Fairness: `WF_vars(Next)`. The clock coroutine never stops while a test
runs, cocotb resumes every coroutine whose trigger fired, and it starts
the next test when one ends. So an enabled step is never postponed
forever. `CHECK_DEADLOCK FALSE`: when the last test returns, cocotb ends
the simulation, and the model stops there.

### `FrameVerify` — bin2bmp's verifier

Pure operators, no state. `Compare(pixels, offset, i, acc)` is the `for i
in range(len(pixels))` loop of `verify_chunk` (0-based `i`, `ref_idx = (i +
offset) % len(ref)`, `match` and `err_count` in `acc`), declared
`RECURSIVE`. `VerifyChunk` returns the printed verdict (`PASS`, `FAIL` with
the count, or `none` when `image.raw` is missing). `Bin2Bmp(file)` is the
frame loop: frame `f` of the first three is verified at offset 0 only if
`total_pixels >= start_px + FRAME_SIZE`. The listing of the first four
mismatching pixels and `write_bmp` are output only.

### `HdmiDisplay` — the display side of the integration DUT (from the spec)

Counters `h`, `v` (`u_hdmi_sync.h_cnt`, `v_cnt`) over a line of `HTotal`
clocks and a frame of `VTotal` lines; `hdmi_de` on the first `HActive`
pixels of the first `VActive` lines, `hdmi_vs` 0 on `VSyncLines`, `hdmi_d`
the image word of the pixel. `Fault`: `"none"`; `"data"`, an active pixel
may carry any word of `BadWords`, `X` included; `"halt"`, the generator may
stop for good at any edge (`on` becomes FALSE).

### `FrameCapture` — test_full_integration with bin2bmp

State: `gen` and `out` (counters and outputs of the current clock cycle),
`phase` (where the test is), `cycle`, `captured` (the file; `pixel_count`
is its length), `report` (bin2bmp's lines), `image` (`image.raw`, any
raster of `Images`, read both by the memory model and by bin2bmp). Only the
test coroutine touches the display side, so each of its loop iterations is
one action together with the clock edge (`Tick`). Reads right after the
edge see the value before it (`out`), reads after `ReadOnly()` the value
after it (`out'`). Actions: `Prime` (the prime loop; it ends silently
either way and the counters are then any), `FastForward` (`v_cnt`,
`h_cnt` deposit), `WaitVsLow`, `WaitVsHigh` (the two `while True` loops;
the second opens the file), `CaptureSample` (one capture iteration: write
on DE, break at the target, end of `range(5000000)`), `CaptureAbort`
(`int()` of an X raises), `RunBin2Bmp`.

Runs (`MCFrameCapture`):

| run | cfg | expect | checks | shows |
|---|---|---|---|---|
| `frame_roundtrip` | `MCFrameRoundTrip.cfg` | pass | `TypeOK`, `RoundTrip` | for every image of 4 words over 2 values, a correct display is captured from a frame boundary for exactly three frames and bin2bmp prints PASS three times |
| `frame_bad_data` | `MCFrameBadData.cfg` | pass | `VerifyAgreesWithReference` | whatever words a faulty display shows, each complete frame's verdict is PASS exactly when it equals the image, with the exact mismatch count |
| `capture_budget_silent` | `MCFrameShortCapture.cfg` | violation | `ShortCaptureFails` | a display that stops in blanking exhausts the budget; the test returns successfully and bin2bmp prints nothing for the missing frames |
| `vsync_wait_unbounded` | `MCFrameVsyncHang.cfg` | violation | `HarnessTerminates` | a display that stops before the vertical sync hangs the test in its vsync wait |
| `capture_x_fatal` | `MCFrameXSample.cfg` | violation | `SampleXNotFatal` | an X on `hdmi_d` fails the test through `int()` |

The three violations are disagreements with the spec, listed under
`findings` in `PROJECT.json`: spec 4.4 calls an exhausted budget a timeout
failure, spec 5 bounds every blocking wait, spec 6 (d) skips a cycle with
an undefined value.

Bounds: lines of 3 clocks with 2 active pixels. The round trip uses frames
of 5 lines (2 active, 1 front porch, 1 sync, 1 back porch; 4-pixel frames,
16 images); the fault runs use 4 lines with one active line (2-pixel
frames, 4 images) to keep the faulty data streams small. The fast-forward
puts the counters one line before the sync line, as 542/1110 does before
line 543. The cycle budget keeps the code's ratio: 5,000,000 cycles is
about 2.7 times three qHD frames (about 1.9 M cycles), so 120 cycles for
three 15-cycle frames and 96 for three 12-cycle frames. With a budget of 24
the round trip fails, so the budget is a real bound. With no vertical back
porch (sync line followed by the active lines) TLC finds `RoundTrip`
violated: the two clock cycles between the vsync wait's last read and the
capture loop's first `ReadOnly` sample are never sampled (hazard at
`tb_video_integration.py:181`); the display the code targets has a back
porch, so the checked configuration has one.

Fairness: `WF_vars(Next)`: the pixel clock never stops and the test
coroutine is resumed at every edge it awaits. A halted generator makes
the vsync wait's steps stutter, so fairness does not force it on; that is
the hang `vsync_wait_unbounded` shows. `CHECK_DEADLOCK FALSE`: the system
stops once the test has raised, or has returned and bin2bmp has run.

### `Img2Raw`, `RawWords`, `RasterFlow` — the raster files across programs

`img2raw.py` is the only program outside the test tree. `Img2Raw` holds it
as operators: `PixelBytes` (`bytearray([b, g, r, 0x00])`), `WriteOrder`
(rows outside, columns inside), `ConvertBytes` (the bytes written, in
order) and `Img2RawMain` (the argument check with exit 1, the swallowed
exception that leaves the output file as it was, exit 0 otherwise). PIL's
open, resize and RGB conversion are library steps; the model starts from
their result, an RGB raster of `Width × Height`. `RawWords!UnpackWords` is
`struct.unpack('<nI')` as the test and bin2bmp use it. `FrameVerify` gained
`write_bmp`'s pixel loop (`BmpPixelBytes`, with Bitwise's `shiftR` and `&`
for `>>` and `&`) and `BmpFiles`, the bitmap per complete frame.

`RasterFlow` composes the three programs through their files: `source`
(the image img2raw is pointed at, or `Unreadable`), `raw` (`image.raw`,
absent or left by an earlier conversion of any image), `mem`, `captured`,
`report`, `bmp`, and `step`. Actions: `RunImg2Raw` (with or without
arguments), `RunIntegrationTest` (loading `image.raw` into the memory
model over the `(i // 4) & 0xFFFFFF` pattern, then the capture of
`Frames` displayed frames, which `frame_roundtrip` shows the capture
delivers for a correct display), `RunBin2Bmp`.

| run | cfg | expect | checks | shows |
|---|---|---|---|---|
| `raster_roundtrip` | `MCRasterFlow.cfg` | pass | `TypeOK`, `LoadedWordsAreXRGB`, `BmpShowsSource` | after a successful conversion the memory holds every pixel as `0x00RRGGBB` in row-major order, and bin2bmp's bitmaps show the source colours, whatever `image.raw` held before |
| `raster_stale_reference` | `MCRasterStale.cfg` | violation | `PassMeansSourceShown` | after an img2raw that exits 0, a PASS must mean the source is shown; an unreadable input breaks this: img2raw prints an error and exits 0, the old `image.raw` stays, and bin2bmp prints PASS for an image that is not the source |

`TypeOK` includes that `image.raw` is a whole number of 32-bit words.
Bounds: 3×2 images (not square, so a transposed loop shows) over two
colours whose red and blue differ (so a swapped byte order shows): 64
images, each also possible as the earlier `image.raw`. Channel values are
small: a pad byte of 255 would make a word of 2^32 scale, beyond TLC's
integers, and the code writes 0 there. The stale reference is a
`spec_gap` finding: the spec leaves the converter out of scope.

### `DcFifo`, `AbstractFifo`, `DcFifoTestbench` — the dual-clock FIFO validator

`DcFifo` is `simple_dcfifo` as spec 4.2 and the lines of `tb_fifo.py`
that quote it describe it (its RTL is not among the sources). The state is a
record: the memory, the binary write and read pointers (`AddrWidth + 1`
bits), the registered read data `q`, and the two-flop synchronisers of
each pointer's gray code into the other clock domain. `RdEmpty` is
`rd_ptr_gray == wr_ptr_gray_sync2`. `WrFull` compares the gray pointers
with the top two bits inverted. `WrUsedW` is the write side's count,
clamped to `2^AddrWidth - 1`. `WrSide` and `RdSide` are the two
`always @(posedge ...)` blocks. `q` is loaded whenever `rdreq` is sampled,
and the pointer advances unless the FIFO is empty. `BothSides` is a time
step in which both clocks rise: each side samples the other's registers
from before the edge.

`AbstractFifo` is what a FIFO of `Capacity` words promises: `Put` (room
left), `Take` (the head goes to the data register) and `PutTake` (both at
once, because the memory is dual-ported). The refinement mapping sends
`queue` to the words between the read and write pointers (`Contents`)
and `out` to `q`.

`DcFifoTestbench` runs the three tests of `tb_fifo.py` as cocotb runs
them: in source order, in one simulation, on one FIFO that is never reset.
Each test starts its own clocks. The clocks interleave arbitrarily,
subject to two bounds from the test's periods: at most `MaxWrPerRd` write
edges between two read edges, and at most `MaxRdPerWr` read edges between
two write edges. They may also rise together (`BothEdges`). Each test step
is one action with the edge it awaits. Reads right after an edge see
`fifo`; reads after `ReadOnly()` see `fifo'`. A `Timer` counts 10 ns
write edges. `NextTest` is cocotb's regression manager: it records the
verdict and starts the next test, keeping the FIFO and its inputs.
The `while dut.rdempty.value` loop and the end of the read loop's body
are one action, `RdLoopHead`. In no run does that loop spin: `Timer(50)`
always outlasts the two-flop synchronisation.

| run | cfg | expect | checks | shows |
|---|---|---|---|---|
| `fifo_any_ratio` | `MCFifoAnyRatio.cfg` | pass | `TypeOK`, `AllTestsPass`, `FifoRefinement` | the three tests pass on an 8-word FIFO whose pointers wrap during the third test, at any clock ratio from 1:4 to 4:1 (which includes the tests' own ratios); the FIFO refines `AbstractFifo` throughout, so nothing is overrun and `q` only ever receives the head word |

The comment above line 61 says `q` is loaded one edge after the edge that
samples `rdreq`. The register it quotes (`RdSide`) is loaded at that
edge, so the extra wait is one edge more than the latency. The read is
still correct, which `AllTestsPass` shows.

`TypeOK` includes that `wrusedw` fits its `AddrWidth` bits. It is
violated when the count is not clamped.

`AllTestsPass` covers the test assertions: the data order at line 65, the
five-edge CDC budget at 102–105, the empty flag re-asserting at 120, and
full with the saturated count at 151–155. It is violated when `q` is
read without the extra edge and `ReadOnly`.

`FifoRefinement` is violated when the data register loads the word after
the head.

Bounds: `Items` = 7 of an 8-word FIFO. The code writes 10 words into
512, so `Items` stays below the depth. The overflow test writes
`Depth - 1` words and then one more, as the code does; 7 + 1 + 8 words
are written in all, so both pointers wrap once. The timers are 5 and 10
write edges, as in the code. The tests' own ratios (basic 13.46 ns /
10 ns, at most 2 write edges per read edge; flags 23 ns / 10 ns, at most
3; overflow equal periods; never more than 1 read edge per write edge)
lie inside the 1:4 to 4:1 range checked. `MCDcFifo` also defines them as
`MCMaxWrPerRd` and `MCMaxRdPerWr`.

Fairness: weak fairness on each clock edge and on `NextTest`. Both clocks
run for as long as a test does, and cocotb always starts the next test.
`CHECK_DEADLOCK FALSE`: the simulation ends after the last test.

### `DmaControlTestbench` — the start and continuous-mode tests

`DmaControlTestbench` runs `test_dma_single_frame` and
`test_dma_continuous_mode` of `tb_video_dma_master.py` against
`VideoDmaMaster`, in one simulation as cocotb runs them. The only
coroutine besides the clock is the test, and it awaits every edge, so
each test step is one action together with the edge (`Edge` =
`DmaEdge` from the inputs the test left, then `TestStep`). `busy` and
`m_read` are read right after `await RisingEdge`, so the model reads
them from before the edge.

* `TimerTick`, `ResetRelease`: `reset_dut`. `Timer(100 ns)` is 5 periods
  of the 20 ns clock and expires in the same time step as an edge, so the
  write that follows it reaches the DUT at that edge or the next
  (`TimerExpires` allows both).
* `SingleSetup`, `SingleArm`, `SingleStart`, `SingleBusy`, `SingleLoop`:
  test 1. `SingleLoop` is the inline responder: `m_readdatavalid` is set
  to 1 for one edge whenever `m_read` was 1, i.e. one beat per burst
  command.
* `ContSetup`, `ContVsync`, `ContCheck`: test 2, which drives only
  `dma_start`, `dma_cont_en` and `vsync_edge`; every other input keeps the
  value test 1 left.
* `NextTest`: cocotb's regression manager records the verdict; the next
  test's `reset_dut` drives `reset_n = 0` at once.
* `owed` is a ghost: words the DMA master has requested since its last
  reset and not yet received, counted from the bus signals.

The DMA master's burst length and words-in-flight limit are not in the
sources. They are constants `Burst` and `MaxPending` of each cfg.

| run | cfg | expect | checks | shows |
|---|---|---|---|---|
| `dma_control_session` | `MCDmaControl.cfg` | pass | `TypeOK`, `NoUnrequestedBeat`, `AllTestsPass` | with 64-word bursts, both tests pass whichever way each Timer races its edge, and the DMA master never takes a beat it did not request |
| `dma_stale_valid` | `MCDmaStaleValid.cfg` | violation | `NoUnrequestedBeat` | with single-word bursts the DMA issues on the loop's last edge, test 1 ends with `m_readdatavalid` = 1, and after test 2's reset the DMA takes a beat it never requested (a `code_bug` finding at line 41, which depends on the RTL's burst length) |

`AllTestsPass` is violated when busy is asserted without the extra edge
at line 35. `NoUnrequestedBeat` is violated when the loop's else branch
is missing, so valid stays high. `TypeOK` is violated when a Timer may
run out one period early.

Bounds: none are scaled. The run uses the code's own 5-edge timers, 100
loop edges, the 518400-word frame and the start address 0x30000000. The
frame cannot end within the loop, so the docstring's "stops after one
frame" is never exercised, by the code or by the model. Fairness: weak
fairness on `Edge` (the clock runs while a test does) and on `NextTest`.
`CHECK_DEADLOCK FALSE`: the simulation ends after the last test.

### `CtrlRegs`, `RegisterTests` — the register tests

`CtrlRegs` is the control-register slave these tests drive. Its RTL is
not among the sources, so it is modelled from what the tests expect
(spec_modelled). Address 0 is the mode register (`reg_mode_out`).
Address 1 is control: bit 1 is `dma_enable_out`, and bit 2 is a start
command that is not stored. A read loads a registered `readdata`, with the
DMA's `busy` in bit 31 after two pixel-clock flops. Bit 31 does not fit
TLC's integers, so read data is a record `[busy, low]`. The start command
crosses into clk_50 as a toggle (`startTgl`), through two flops and an
edge detector (`DmaStartPulse`). Bit 1 crosses through two flops. Neither
the source nor the spec says how the pipeline crosses the two clock
domains, so this synchroniser is an assumption of the model. No property
is stated about the crossing itself. It only carries the start command
and busy to where `AllTestsPass` observes them.

`RegisterTests` is the test coroutine of both files; `Init` chooses the
simulation:

* `"sync_gen"`: `test_dma_control_registers`, then
  `test_mode_out_connection`, on one clock. Each test step is one
  `HdmiEdge` together with the edge it awaits. Outputs are read right
  after `await RisingEdge`, so they are read from before that edge.
* `"pipeline"`: `test_pipeline_dma_control`, with `CtrlRegs` on
  `clk_hdmi` (`HdmiEdge`) and `VideoDmaMaster` on `clk_50` (`Clk50Edge`).
  The DMA is instantiated with its inputs wired from the synchronisers,
  and nothing answers its bus reads. The `Timer`s of `reset_pipeline`
  are 5 clk_50 periods, so they end at 50 MHz edges; the mode write at
  line 21 follows the Timer in that step. The clocks interleave as their
  periods allow (13.468 ns against 20 ns). `hSince` counts pixel edges
  since the last 50 MHz edge: there are at most two, and at least one
  pixel edge between two 50 MHz edges.

| run | cfg | expect | checks | shows |
|---|---|---|---|---|
| `register_tests` | `MCRegisterTests.cfg` | pass | `TypeOK`, `AllTestsPass` | all three tests pass under every Timer/edge race and clock phase, and busy comes back within the 20-iteration poll |

Mutants:

* A control register that keeps bit 0 only breaks `AllTestsPass`.
* A Timer that runs out early breaks `TypeOK`.

Bounds: the run uses the pipeline's 5-period Timers
(`reset_pipeline(100)` at 20 ns), the 20 poll iterations and the DMA
constants of `dma_control_session`. The same `ResetEdges = 5` is used for
sync_gen's `reset_dut(50)`, which lasts 50 / 13.468 ns: 3 or 4 pixel
edges, depending on the phase at which the Timer starts. The model can
hold sync_gen's reset for an edge longer than the code does. This does not
change what is checked: every edge with `reset_n = 0` loads the same reset
values, so one edge or five leave the same state.
Fairness: weak fairness on both clocks (each runs while a test does)
and on `NextTest`. `CHECK_DEADLOCK FALSE`: the simulation ends.

## 4. Not modelled

* The RTL: only the DMA master's contract, from the spec.
* `check_raw.py` and the runner shims: prints and a simulator call, no state.
* PIL's open, resize and RGB conversion in img2raw; the bitmap header.
* The reset sequence, `configure_pipeline` and the loading of `image.raw`
  in `test_full_integration`: their effect is that the display shows the
  image, which `HdmiDisplay` assumes.
* What bin2bmp reads from a capture file left unflushed by a raised test.
* `FIFO_Driver.write` in `tb_fifo.py`, the writer that spins while the
  FIFO is full: no test calls it. Also the FIFO's metastability (a
  synchroniser flop resolving to the old or new gray value; only one
  bit of a gray code changes, so either is a pointer value the model
  already takes one edge earlier or later) and the read-side
  `usedWordCount` of spec 6, which the tests never read.
* The control-register slave's gamma bit and the video path behind
  `tb_video_pipeline.py`'s DUT: no test observes them.
* Logging, debug files, BMP layout.
