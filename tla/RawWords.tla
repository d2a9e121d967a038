------------------------------ MODULE RawWords -------------------------------
(***************************************************************************)
(* The raw pixel file as its readers decode it: struct.unpack with the    *)
(* format '<' + str(n) + 'I', n = len(data) // 4 (tb_video_integration.py *)
(* when it loads image.raw, bin2bmp.py for the capture and the reference). *)
(***************************************************************************)
EXTENDS Naturals, Sequences

(* Little-endian 32-bit words; trailing bytes short of a word are ignored. *)
UnpackWords(bytes) ==
    [k \in 1..Len(bytes) \div 4 |->
        bytes[4 * k - 3] + 256 * bytes[4 * k - 2]
        + 65536 * bytes[4 * k - 1] + 16777216 * bytes[4 * k]]

=============================================================================
