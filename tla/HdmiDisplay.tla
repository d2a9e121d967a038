---------------------------- MODULE HdmiDisplay -----------------------------
(***************************************************************************)
(* The display side of the integration DUT as the capture test sees it     *)
(* (RTL not among the sources; from spec 4.4 and the counters the test    *)
(* names): the sync generator u_hdmi_sync counts h_cnt across a line of   *)
(* HTotal pixel clocks and v_cnt across VTotal lines; hdmi_de is high on   *)
(* the first HActive pixels of the first VActive lines, hdmi_vs is low     *)
(* (active) on the lines of VSyncLines.  During active video hdmi_d is    *)
(* the word the DMA fetched for that pixel from the memory image, which   *)
(* holds the reference raster Ref; in blanking it is 0.                    *)
(*                                                                         *)
(* Fault selects a broken DUT, so that what the harness reports about one *)
(* can be checked:  "data" - an active pixel may carry any word of        *)
(* BadWords, X included (FIFO underflow, wrong fetch);  "halt" - the      *)
(* generator may stop counting at any edge, for good (pixel clock gated,  *)
(* held in reset); on is FALSE once it has.                               *)
(***************************************************************************)
EXTENDS Naturals, Sequences

CONSTANTS HActive, HTotal, VActive, VTotal, VSyncLines, Fault, BadWords, X,
          Ref   \* the memory image: HActive * VActive words

ASSUME /\ 0 < HActive /\ HActive < HTotal /\ 0 < VActive /\ VActive < VTotal
       /\ VSyncLines \subseteq VActive..VTotal - 1
       /\ Fault \in {"none", "data", "halt"}

Counters == [h : 0..HTotal - 1, v : 0..VTotal - 1, on : BOOLEAN]

(* The counters at the next pixel-clock edge.                              *)
Advance(g) ==
    IF g.h < HTotal - 1 THEN [g EXCEPT !.h = @ + 1]
    ELSE [g EXCEPT !.h = 0, !.v = (@ + 1) % VTotal]

NextCounters(g) ==
    IF ~g.on THEN {g}
    ELSE IF Fault = "halt" THEN {Advance(g), [g EXCEPT !.on = FALSE]}
    ELSE {Advance(g)}

Active(g) == g.h < HActive /\ g.v < VActive

(* hdmi_de, hdmi_vs, hdmi_d while the counters are g.                      *)
Outputs(g) ==
    LET words == IF ~Active(g) THEN {0}
                 ELSE IF Fault = "data" THEN BadWords
                 ELSE {Ref[g.v * HActive + g.h + 1]}
    IN [de : {IF Active(g) THEN 1 ELSE 0},
        vs : {IF g.v \in VSyncLines THEN 0 ELSE 1},
        d  : words]

=============================================================================
