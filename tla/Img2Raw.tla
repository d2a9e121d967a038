------------------------------ MODULE Img2Raw -------------------------------
(***************************************************************************)
(* The image-to-raw packer, src/linux_software/image_converter/img2raw.py. *)
(* convert_image_to_raw opens the input with PIL, resizes it to           *)
(* WIDTH x HEIGHT and converts it to RGB (library steps: the model starts *)
(* from their result, an RGB raster), then writes every pixel, row by row *)
(* and left to right in a row, as the four bytes b, g, r, 0.  Any         *)
(* exception is printed and swallowed; the output file is then not        *)
(* (re)written.  The script exits 1 on missing arguments, else 0.         *)
(***************************************************************************)
EXTENDS Naturals, Sequences, SequencesExt

CONSTANTS
    Width, Height,   \* WIDTH = 960, HEIGHT = 540
    Unreadable       \* an input PIL cannot open, or an output that cannot be written

ASSUME Width \in Nat \ {0} /\ Height \in Nat \ {0}

(* img.getpixel((x, y)) of the resized RGB image.                          *)
Positions == (0..Width - 1) \X (0..Height - 1)

(* The (x, y) of the k-th pixel written: `for y in range(HEIGHT)` outside,*)
(* `for x in range(WIDTH)` inside.                                         *)
WriteOrder(k) == <<(k - 1) % Width, (k - 1) \div Width>>

(* Mutant: packed 24-bit, bytearray([b, g, r]) without the pad byte.     *)
PixelBytesPacked(p) == <<p.b, p.g, p.r>>

(* pixel_data = bytearray([b, g, r, 0x00]).                                *)
PixelBytes(p) == <<p.b, p.g, p.r, 0>>

(* Mutant: the loops are nested the other way round (x outside).          *)
ConvertBytesColumns(img) ==
    FlattenSeq([k \in 1..Width * Height |->
                    PixelBytes(img[<<(k - 1) \div Height, (k - 1) % Height>>])])

(* The bytes f.write puts in output_path, in order.                        *)
ConvertBytes(img) ==
    FlattenSeq([k \in 1..Width * Height |-> PixelBytes(img[WriteOrder(k)])])

(* The script: the argument check, then convert_image_to_raw.  out is the *)
(* output file before the run (a byte sequence, or absent); the result is *)
(* the file after it and the exit status.                                  *)
Img2RawMain(argsGiven, input, out) ==
    IF ~argsGiven THEN [file |-> out, exit |-> 1]
    ELSE IF input = Unreadable THEN [file |-> out, exit |-> 0]
    ELSE [file |-> ConvertBytes(input), exit |-> 0]

=============================================================================
