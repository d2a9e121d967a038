---------------------------- MODULE FrameVerify -----------------------------
(***************************************************************************)
(* The frame verifier of src/tests/cocotb/bin2bmp.py, main(): the captured *)
(* words of hdmi_output.bin are cut into frames of FRAME_SIZE pixels, the  *)
(* first three complete ones are each compared by verify_chunk() with the  *)
(* reference raster image.raw, and a [PASS] or [FAIL] line is printed per  *)
(* frame.  A frame that is not complete is skipped without a line.  Pure  *)
(* operators: main() reads two files and prints; it keeps no state.        *)
(***************************************************************************)
EXTENDS Naturals, Sequences, SequencesExt, Bitwise

CONSTANTS
    FrameSize,   \* FRAME_SIZE = 960 * 540
    Frames,      \* for f_idx in range(3)
    Ref,         \* ref_pixels, the words of image.raw (not empty)
    RefLoaded    \* os.path.exists(ref_image_path), a Boolean

ASSUME FrameSize \in Nat \ {0} /\ Frames \in Nat

(* What main() prints about one frame: "PASS", "FAIL" with the mismatch    *)
(* count, or nothing ("none": frame incomplete, or no reference).          *)
Unverified == [verdict |-> "none", errors |-> 0]

Reports == [verdict : {"PASS", "FAIL", "none"}, errors : Nat]

(* Mutant: the loop runs range(len(pixels) - 1), missing the last pixel.  *)
RECURSIVE CompareSkipLast(_, _, _, _)
CompareSkipLast(pixels, offset, i, acc) ==
    IF i >= Len(pixels) - 1 THEN acc
    ELSE LET miss == pixels[i + 1] # Ref[((i + offset) % Len(Ref)) + 1]
         IN CompareSkipLast(pixels, offset, i + 1,
                            [match |-> acc.match /\ ~miss,
                             errors |-> acc.errors + (IF miss THEN 1 ELSE 0)])

(* verify_chunk's loop from index i (0-based, as in the code):             *)
(* ref_idx = (i + start_offset_in_ref) % len(ref_pixels); a differing     *)
(* pixel clears match and increments err_count.                           *)
RECURSIVE Compare(_, _, _, _)
Compare(pixels, offset, i, acc) ==
    IF i >= Len(pixels) THEN acc
    ELSE LET miss == pixels[i + 1] # Ref[((i + offset) % Len(Ref)) + 1]
         IN Compare(pixels, offset, i + 1,
                    [match |-> acc.match /\ ~miss,
                     errors |-> acc.errors + (IF miss THEN 1 ELSE 0)])

(* verify_chunk(frame_name, pixels, start_offset_in_ref): returns at once  *)
(* without a reference, else compares and prints the verdict.  The first  *)
(* four mismatching pixels are also printed; that listing is not modelled.*)
VerifyChunk(pixels, offset) ==
    IF ~RefLoaded THEN Unverified
    ELSE LET r == Compare(pixels, offset, 0, [match |-> TRUE, errors |-> 0])
         IN [verdict |-> IF r.match THEN "PASS" ELSE "FAIL", errors |-> r.errors]

(* Mutant: a frame is verified only if strictly more pixels were captured  *)
(* than it needs.                                                          *)
Bin2BmpStrict(file) ==
    [f \in 0..Frames - 1 |->
        IF Len(file) > f * FrameSize + FrameSize
        THEN VerifyChunk(SubSeq(file, f * FrameSize + 1, f * FrameSize + FrameSize), 0)
        ELSE Unverified]

(* main(): frame f_idx is verified, at offset 0, only if total_pixels >=   *)
(* start_px + FRAME_SIZE.                                                  *)
Bin2Bmp(file) ==
    [f \in 0..Frames - 1 |->
        IF Len(file) >= f * FrameSize + FrameSize
        THEN VerifyChunk(SubSeq(file, f * FrameSize + 1, f * FrameSize + FrameSize), 0)
        ELSE Unverified]

-----------------------------------------------------------------------------
(* write_bmp's pixel loop: r = (p >> 16) & 0xFF, g = (p >> 8) & 0xFF,      *)
(* b = p & 0xFF, written as the bytes b, g, r.  The 54-byte header is      *)
(* layout and left out.                                                    *)
(* Mutant: the bytes are written as r, g, b.                               *)
BmpPixelBytesRGB(p) == <<shiftR(p, 16) & 255, shiftR(p, 8) & 255, p & 255>>

BmpPixelBytes(p) == <<p & 255, shiftR(p, 8) & 255, shiftR(p, 16) & 255>>

WriteBmpPixels(pixels) == FlattenSeq([k \in 1..Len(pixels) |-> BmpPixelBytes(pixels[k])])

(* main(): frame_<f>_full.bmp is written for the same complete frames that *)
(* are verified; <<>> stands for no file.                                  *)
BmpFiles(file) ==
    [f \in 0..Frames - 1 |->
        IF Len(file) >= f * FrameSize + FrameSize
        THEN WriteBmpPixels(SubSeq(file, f * FrameSize + 1, f * FrameSize + FrameSize))
        ELSE <<>>]

=============================================================================
