---------------------------- MODULE FrameCapture ----------------------------
(***************************************************************************)
(* test_full_integration of src/tests/cocotb/tb_video_integration.py from  *)
(* the end of configure_pipeline, composed with the display side of the   *)
(* DUT (HdmiDisplay) and with bin2bmp.py run on the file it writes         *)
(* (FrameVerify).  The test coroutine is the only one that reads or       *)
(* drives the display side, so each of its steps after `await             *)
(* RisingEdge(clk_hdmi)` is one action together with that edge (Tick).    *)
(* A value read right after the edge is the one from before it (out); one *)
(* read after `await ReadOnly()` is the one after it (out').               *)
(***************************************************************************)
EXTENDS Naturals, Sequences, FiniteSets

CONSTANTS
    HActive, HTotal, VActive, VTotal, VSyncLines, Fault, BadWords, X,
    FFH, FFV,       \* the fast-forward: h_cnt := 1110, v_cnt := 542
    CycleBudget,    \* for cycle in range(5000000)
    Frames,         \* target_pixels = frame_size * 3; bin2bmp's range(3)
    Images,         \* the rasters image.raw may hold
    RefLoaded

VARIABLES
    gen,       \* u_hdmi_sync's h_cnt and v_cnt
    out,       \* hdmi_de, hdmi_vs, hdmi_d during the current clock cycle
    phase,     \* where the test is: "prime", "sync", "vs_low", "vs_high",
               \* "capture", "finished" (returned), "error" (raised);
               \* "verified" once bin2bmp has run on the file
    cycle,     \* the capture loop's cycle
    captured,  \* the words written to hdmi_output.bin; pixel_count = Len
    report,    \* what bin2bmp printed for each frame
    image      \* image.raw: loaded into the memory model and read by bin2bmp

vars == <<gen, out, phase, cycle, captured, report, image>>

FrameSize == HActive * VActive

ASSUME Images \subseteq [1..FrameSize -> Nat]

Disp   == INSTANCE HdmiDisplay WITH Ref <- image
Verify == INSTANCE FrameVerify WITH Ref <- image

Target == FrameSize * Frames

Phases == {"prime", "sync", "vs_low", "vs_high", "capture", "finished", "error", "verified"}

(* One rising edge of clk_hdmi.                                            *)
Tick ==
    /\ gen' \in Disp!NextCounters(gen)
    /\ out' \in Disp!Outputs(gen')

-----------------------------------------------------------------------------
(* The prime loop waits up to 1000 clk_50 edges for wrusedw > 32 and goes *)
(* on either way (int() errors are swallowed).  Meanwhile the sync         *)
(* generator runs: its counters afterwards are any.                        *)
Prime ==
    /\ phase = "prime"
    /\ gen' \in {g \in Disp!Counters : g.on}
    /\ out' \in Disp!Outputs(gen')
    /\ phase' = "sync"
    /\ UNCHANGED <<cycle, captured, report, image>>

(* v_cnt := 542, h_cnt := 1110: just before the vertical sync lines.      *)
FastForward ==
    /\ phase = "sync"
    /\ gen' = [gen EXCEPT !.h = FFH, !.v = FFV]
    /\ out' \in Disp!Outputs(gen')
    /\ phase' = "vs_low"
    /\ UNCHANGED <<cycle, captured, report, image>>

(* while True: await RisingEdge(clk_hdmi); break once hdmi_vs == 0.        *)
WaitVsLow ==
    /\ phase = "vs_low"
    /\ Tick
    /\ phase' = IF out.vs = 0 THEN "vs_high" ELSE "vs_low"
    /\ UNCHANGED <<cycle, captured, report, image>>

(* while True: await RisingEdge(clk_hdmi); break once hdmi_vs == 1; then  *)
(* the output file is opened and pixel_count = 0.                          *)
WaitVsHigh ==
    /\ phase = "vs_high"
    /\ Tick
    /\ phase' = IF out.vs = 1 THEN "capture" ELSE "vs_high"
    /\ cycle' = 0
    /\ captured' = <<>>
    /\ UNCHANGED <<report, image>>

(* Mutant: no break at target_pixels; only the cycle budget ends the loop.*)
CaptureSampleNoBreak ==
    /\ phase = "capture"
    /\ Tick
    /\ out'.d # X
    /\ captured' = IF out'.de = 1 THEN Append(captured, out'.d) ELSE captured
    /\ cycle' = cycle + 1
    /\ phase' = IF cycle + 1 = CycleBudget THEN "finished" ELSE "capture"
    /\ UNCHANGED <<report, image>>

(* One iteration of the capture loop: edge, ReadOnly, int() of the sampled *)
(* signals; on hdmi_de the word is written and pixel_count incremented,   *)
(* with a break at target_pixels.  The loop also ends when range(5000000)  *)
(* is exhausted; either way the file is closed and the test returns.      *)
CaptureSample ==
    /\ phase = "capture"
    /\ Tick
    /\ out'.d # X
    /\ captured' = IF out'.de = 1 THEN Append(captured, out'.d) ELSE captured
    /\ cycle' = cycle + 1
    /\ phase' = IF Len(captured') >= Target \/ cycle + 1 = CycleBudget
                THEN "finished" ELSE "capture"
    /\ UNCHANGED <<report, image>>

(* int(dut.hdmi_d.value) of an X word raises ValueError: the test fails.   *)
CaptureAbort ==
    /\ phase = "capture"
    /\ Tick
    /\ out'.d = X
    /\ phase' = "error"
    /\ UNCHANGED <<cycle, captured, report, image>>

(* python bin2bmp.py on the closed file.                                   *)
RunBin2Bmp ==
    /\ phase = "finished"
    /\ report' = Verify!Bin2Bmp(captured)
    /\ phase' = "verified"
    /\ UNCHANGED <<gen, out, cycle, captured, image>>

-----------------------------------------------------------------------------
(* Reset and configure_pipeline have run; the counters start at 0.         *)
Init ==
    /\ image \in Images
    /\ gen = [h |-> 0, v |-> 0, on |-> TRUE]
    /\ out \in Disp!Outputs(gen)
    /\ phase = "prime"
    /\ cycle = 0
    /\ captured = <<>>
    /\ report = [f \in 0..Frames - 1 |-> Verify!Unverified]

(* The system stops once the test has returned or raised and bin2bmp has  *)
(* run.                                                                    *)
Next ==
    \/ Prime \/ FastForward \/ WaitVsLow \/ WaitVsHigh
    \/ CaptureSample \/ CaptureAbort \/ RunBin2Bmp

(* The clocks never stop and the test coroutine is resumed at every edge  *)
(* it awaits.                                                              *)
Spec == Init /\ [][Next]_vars /\ WF_vars(Next)

-----------------------------------------------------------------------------
TypeOK ==
    /\ gen \in Disp!Counters
    /\ phase \in Phases
    /\ cycle \in 0..CycleBudget
    /\ Len(captured) <= Target
    /\ report \in [0..Frames - 1 -> Verify!Reports]

(* For every image, with a DUT that shows it, the test ends and bin2bmp   *)
(* prints [PASS] for all three frames (spec 8, round trip): the capture    *)
(* starts on a frame boundary, stops at exactly three frames, and main()  *)
(* cuts the file where the frames begin.                                   *)
RoundTrip ==
    <>(phase = "verified" /\ \A f \in 0..Frames - 1 : report[f].verdict = "PASS")

(* Frame f of the file as bin2bmp cuts it.                                 *)
Chunk(f) == SubSeq(captured, f * FrameSize + 1, f * FrameSize + FrameSize)

(* Whatever words a broken DUT shows, bin2bmp's verdict on each complete   *)
(* frame is PASS exactly when the frame equals the reference, and its     *)
(* mismatch count is the number of differing pixels (verify_chunk's loop).*)
VerifyAgreesWithReference ==
    phase = "verified" =>
        \A f \in 0..Frames - 1 :
            Len(captured) >= (f + 1) * FrameSize =>
                /\ report[f].verdict = IF Chunk(f) = image THEN "PASS" ELSE "FAIL"
                /\ report[f].errors = Cardinality({i \in 1..FrameSize : Chunk(f)[i] # image[i]})

(* Spec 4.4: a capture that exhausts its cycle budget before the target   *)
(* pixel count is a timeout failure.  Stated for the code: if the test    *)
(* returned and bin2bmp ran on fewer than target_pixels words, some frame *)
(* is reported FAIL.                                                       *)
ShortCaptureFails ==
    (phase = "verified" /\ Len(captured) < Target) =>
        \E f \in 0..Frames - 1 : report[f].verdict = "FAIL"

(* Spec 5: every blocking wait of the harness is bounded, so the test      *)
(* always ends (returns or raises), whatever the DUT does.                 *)
HarnessTerminates == <>(phase \in {"verified", "error"})

(* Spec 6 (d): an undefined value on a sampled signal skips the cycle with *)
(* a warning and is not fatal.  Stated for the capture loop's int() reads.*)
SampleXNotFatal == phase # "error"

=============================================================================
