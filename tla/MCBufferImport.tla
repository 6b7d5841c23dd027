--------------------------- MODULE MCBufferImport ---------------------------
(***************************************************************************)
(* A buffer in one dma-buf, and one whose chroma planes are in another     *)
(* dma-buf than its luma plane, on a device with two displays.             *)
(***************************************************************************)
EXTENDS BufferImport, TLC

CONSTANTS rgb, yuv

MCPlanes == (rgb :> <<"rgb">>) @@ (yuv :> <<"y", "uv", "uv">>)

MCSymmetry == Permutations(Slots) \cup Permutations(Handles) \cup Permutations(Fbs)

\* After the race that FbOfBuffer excepts, anything may happen: it is not
\* followed any further.
BeforeRace == ~raced
=============================================================================
