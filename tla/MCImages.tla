------------------------------ MODULE MCImages ------------------------------
(***************************************************************************)
(* magiskboot: boot images that are unpacked, edited and repacked          *)
(* (BootImage), and the ramdisk in them (Cpio).  A behaviour is one of     *)
(* one of the two.                                                         *)
(***************************************************************************)
EXTENDS MCCpio, MCBootImage

VARIABLE machine

ImageOff == ImageInit /\ img = CHOOSE i \in Images : TRUE

ImagesInit ==
  \/ machine = "image" /\ Init /\ ImageInit
  \/ machine = "ramdisk" /\ Init /\ ImageOff

ImagesNext ==
  /\ UNCHANGED machine
  /\ \/ machine = "image" /\ ImageNext /\ UNCHANGED vars
     \/ machine = "ramdisk" /\ Next /\ UNCHANGED imgVars

ImagesSpec == ImagesInit /\ [][ImagesNext]_<<machine, vars, imgVars>>
=============================================================================
