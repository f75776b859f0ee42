------------------------------- MODULE Firmware -------------------------------
(***************************************************************************)
(* What the firmware update path of the device promises to its owner,      *)
(* with flash, records and bootloader left out: at every moment exactly    *)
(* one complete image is committed, a start runs the committed image, and  *)
(* only an image that a client offered can become committed.  The          *)
(* committed image may change while one is running, up to the reset that   *)
(* ends it, and not between a reset and the next start.  A flash that      *)
(* fails can bring an earlier image back, but never leaves the device      *)
(* without one.                                                            *)
(***************************************************************************)

CONSTANTS
    Images,     \* firmware images
    Factory,    \* the image programmed at production
    None        \* no image

VARIABLES
    committed,  \* the image the next start runs
    offered,    \* the images a client has begun to upload, and Factory
    running,    \* the image being executed, None between reset and start
    faulty      \* an erase or a write of the flash has failed since the last reset

fwVars == <<committed, offered, running, faulty>>

Init ==
    /\ committed = Factory
    /\ offered = {Factory}
    /\ running = None
    /\ faulty = FALSE

Start ==
    /\ running = None
    /\ running' \in IF faulty THEN offered ELSE {committed}
    /\ UNCHANGED <<committed, offered, faulty>>

Offer(img) ==
    /\ running # None
    /\ offered' = offered \cup {img}
    /\ UNCHANGED <<committed, running, faulty>>

\* The upload of an image becomes complete, or a later one or a failure spoils it.
Commit(img) ==
    /\ running # None \/ faulty
    /\ img \in offered
    /\ committed' = img
    /\ faulty' \in {faulty, TRUE}
    /\ UNCHANGED <<offered, running>>

Fail ==
    /\ faulty' = TRUE
    /\ UNCHANGED <<committed, offered, running>>

\* A reset; it may also end a start.
Stop ==
    /\ committed' \in IF running # None \/ faulty THEN {committed} \cup offered ELSE {committed}
    /\ running' = None
    /\ faulty' = FALSE
    /\ UNCHANGED offered

Next ==
    \/ Start
    \/ Fail
    \/ Stop
    \/ \E img \in Images : Offer(img) \/ Commit(img)

Spec == Init /\ [][Next]_fwVars
===============================================================================
