\* Images of five header versions, two skip flags, one edit and one repack of what was
\* repacked; or three commands in any number of processes on a ramdisk of seven entries.
SPECIFICATION ImagesSpec
CONSTANTS
  Images <- mc_Images
  Data <- mc_Data
  Editable = {"kernel", "ramdisk", "vnd", "header"}
  Removable = {"kernel", "kernel_dtb", "ramdisk", "dtb"}
  Flags = {TRUE, FALSE}
  MaxEdits = 1
  MaxFlashes = 1
  Stock <- StockRamdisk
  Paths <- Arguments
  Contents <- NewInit
  MaxCommands = 3
ACTION_CONSTRAINTS AboutBackup KernelAgain
CHECK_DEADLOCK FALSE
INVARIANTS RoundTrip Restorable Readable 
