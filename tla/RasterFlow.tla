----------------------------- MODULE RasterFlow ------------------------------
(***************************************************************************)
(* The files that tie the converter, the integration test and bin2bmp     *)
(* together.  img2raw.py writes image.raw from a source image;            *)
(* test_full_integration loads image.raw into the memory model             *)
(* (tb_video_integration.py) and the display shows the memory; bin2bmp.py *)
(* reads the capture and image.raw, verifies the frames and dumps them as *)
(* bitmaps.  That a correct display is captured frame for frame is what   *)
(* FrameCapture's round trip shows; here the capture is the displayed     *)
(* frame Frames times.                                                    *)
(***************************************************************************)
EXTENDS Naturals, Sequences, SequencesExt, RawWords

CONSTANTS
    Width, Height, Unreadable,
    Colors,    \* the RGB values a pixel of the resized image may have
    Absent,    \* image.raw does not exist
    Frames

VARIABLES
    source,    \* the image img2raw is pointed at: a raster, or Unreadable
    raw,       \* image.raw: a byte sequence, or Absent
    exit,      \* img2raw's exit status
    mem,       \* the memory model's words of the frame region
    captured,  \* hdmi_output.bin
    report,    \* bin2bmp's verdict per frame
    bmp,       \* the pixel bytes of frame_<f>_full.bmp
    step       \* "convert", "simulate", "verify", "done"

vars == <<source, raw, exit, mem, captured, report, bmp, step>>

FrameSize == Width * Height

Conv == INSTANCE Img2Raw

(* bin2bmp's reference: image.raw if it exists (ref_image_path).           *)
Verify == INSTANCE FrameVerify
              WITH Ref <- IF raw = Absent THEN <<>> ELSE UnpackWords(raw),
                   RefLoaded <- raw # Absent

Images == [Conv!Positions -> Colors]

(* AvalonMemory.__init__ of the integration test: word i holds            *)
(* (i // 4) & 0x00FFFFFF, which is i for a frame this small.               *)
Pattern == [k \in 1..FrameSize |-> k - 1]

(* mem[i*4] = word for every word of image.raw; the rest keeps the pattern.*)
LoadWords(words) == [k \in 1..FrameSize |-> IF k <= Len(words) THEN words[k] ELSE Pattern[k]]

-----------------------------------------------------------------------------
(* python img2raw.py <source> image.raw, with or without its arguments.    *)
RunImg2Raw ==
    /\ step = "convert"
    /\ \E argsGiven \in BOOLEAN :
          LET r == Conv!Img2RawMain(argsGiven, source, raw)
          IN raw' = r.file /\ exit' = r.exit
    /\ step' = "simulate"
    /\ UNCHANGED <<source, mem, captured, report, bmp>>

(* test_full_integration: image.raw is loaded if it exists, then the       *)
(* display shows the memory and Frames frames are captured.                *)
RunIntegrationTest ==
    /\ step = "simulate"
    /\ mem' = IF raw = Absent THEN Pattern ELSE LoadWords(UnpackWords(raw))
    /\ captured' = FlattenSeq([f \in 1..Frames |-> mem'])
    /\ step' = "verify"
    /\ UNCHANGED <<source, raw, exit, report, bmp>>

(* python bin2bmp.py.                                                      *)
RunBin2Bmp ==
    /\ step = "verify"
    /\ report' = Verify!Bin2Bmp(captured)
    /\ bmp' = Verify!BmpFiles(captured)
    /\ step' = "done"
    /\ UNCHANGED <<source, raw, exit, mem, captured>>

-----------------------------------------------------------------------------
(* image.raw is absent or left by an earlier conversion of some image.    *)
Init ==
    /\ source \in Images \cup {Unreadable}
    /\ raw \in {Absent} \cup {Conv!ConvertBytes(old) : old \in Images}
    /\ exit = 0
    /\ mem = Pattern
    /\ captured = <<>>
    /\ report = [f \in 0..Frames - 1 |-> Verify!Unverified]
    /\ bmp = [f \in 0..Frames - 1 |-> <<>>]
    /\ step = "convert"

Next == RunImg2Raw \/ RunIntegrationTest \/ RunBin2Bmp

Spec == Init /\ [][Next]_vars /\ WF_vars(Next)

-----------------------------------------------------------------------------
TypeOK ==
    /\ source \in Images \cup {Unreadable}
    /\ raw = Absent \/ (raw \in Seq(0..255) /\ Len(raw) % 4 = 0)
    /\ exit \in {0, 1}
    /\ step \in {"convert", "simulate", "verify", "done"}
    /\ report \in [0..Frames - 1 -> Verify!Reports]

(* img2raw ran with its arguments on a readable image.                     *)
Converted == step # "convert" /\ exit = 0 /\ source # Unreadable /\ raw # Absent

(* The pixel (x, y) of a raster as the display carries it, 0x00RRGGBB.     *)
XRGB(img, xy) == 65536 * img[xy].r + 256 * img[xy].g + img[xy].b

(* The pixel array of a top-down 24-bit bitmap of img: rows from the top, *)
(* left to right, each pixel as b, g, r.                                   *)
BmpOf(img) ==
    FlattenSeq([k \in 1..FrameSize |->
                   LET xy == <<(k - 1) % Width, (k - 1) \div Width>>
                   IN <<img[xy].b, img[xy].g, img[xy].r>>])

(* After a conversion, the memory model holds the source image as the     *)
(* display expects it (spec 7: one 0x00RRGGBB word per pixel, row-major): *)
(* img2raw's byte order and loop order agree with the test's '<I' unpack  *)
(* and mem[i*4] placement.                                                 *)
LoadedWordsAreXRGB ==
    (Converted /\ step \in {"verify", "done"}) =>
        \A k \in 1..FrameSize : mem[k] = XRGB(source, <<(k - 1) % Width, (k - 1) \div Width>>)

(* After a conversion, every bitmap bin2bmp dumps shows the source image  *)
(* with its colours: img2raw's b, g, r, 0 bytes, the '<I' unpacks and      *)
(* write_bmp's shifts agree on where red and blue are.                     *)
BmpShowsSource ==
    (Converted /\ step = "done") =>
        \A f \in 0..Frames - 1 : bmp[f] = BmpOf(source)

(* When img2raw exits 0, a frame bin2bmp reports as PASS is the image     *)
(* img2raw was pointed at: a conversion that reports success is the one   *)
(* the verification is about.                                              *)
PassMeansSourceShown ==
    \A f \in 0..Frames - 1 :
        (exit = 0 /\ report[f].verdict = "PASS") =>
            /\ source # Unreadable
            /\ \A k \in 1..FrameSize : mem[k] = XRGB(source, <<(k - 1) % Width, (k - 1) \div Width>>)

=============================================================================
