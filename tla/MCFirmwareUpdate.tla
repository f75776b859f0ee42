--------------------------- MODULE MCFirmwareUpdate ---------------------------
(* Instances of FirmwareUpdate for TLC: images of two and three cells in     *)
(* regions of two sectors of two cells.  Two images have a body word in      *)
(* common, one has padding where the others have code.                       *)
EXTENDS FirmwareUpdate

CONSTANT Padded     \* the image with padding

MCSector == [c \in Cells |-> (c + 1) \div 2]

MCSize == [v \in Images |-> IF v = Factory THEN 2 ELSE 3]

MCContent ==
    [v \in Images |-> [c \in Cells |->
        IF c # 2 THEN <<v, c>> ELSE IF v = Padded THEN Blank ELSE <<Factory, 2>>]]
===============================================================================
