-------------------------- MODULE VFS495Descramble --------------------------
(* driver/vfs495_proto.h and driver/vfs495_descramble.inc: the geometry of *)
(* a scan line and the column each of its pixels belongs in.  The table's  *)
(* 264 literals are four runs of descending columns.                       *)
EXTENDS Integers

VFS495_LINE_WIDTH == 264
VFS495_IMAGE_WIDTH == 200

vfs495_descramble ==
  [i \in 0 .. VFS495_LINE_WIDTH - 1 |->
     IF i < 200 THEN 199 - i                  \* the main image, mirrored
     ELSE IF i < 242 THEN 462 - i
     ELSE IF i = 242 THEN 263
     ELSE 463 - i]
=============================================================================
