---------------------------- MODULE MCBootImage ----------------------------
(* Images of five header versions, with the wrappings that go with them. *)
EXTENDS BootImage

Stored(d, f) == [data |-> d, fmt |-> f, len |-> IF f = "raw" THEN Raw(d).len ELSE d + 2]
Sized(ver, parts) == [b \in Blocks |-> IF b \in DOMAIN parts THEN Length(parts[b]) ELSE 0]
Laid(ver, parts) ==
  LET h == Sized(ver, parts) IN
  [o \in {Offset(h, b) : b \in DOMAIN parts} |->
     parts[CHOOSE b \in DOMAIN parts : Offset(h, b) = o]]

Image(ver, parts, table, mark, avb, cros) ==
  LET h == Sized(ver, parts)
      end == PayloadLen(h)
      meta == align_to(end + MagicLen, PageSize) IN
  [ver |-> ver, chromeos |-> cros, hdr |-> h, at |-> Laid(ver, parts), os |-> 6, table |-> table,
   id |-> [b \in Hashed(ver) |-> IF b \in DOMAIN parts THEN parts[b] ELSE <<>>],
   tail |-> [kind |-> mark, at |-> IF mark = "none" THEN 0 ELSE end, len |-> IF mark = "AVB1" THEN end ELSE 0],
   vbmeta |-> IF avb THEN meta ELSE 0, footer |-> [vbmeta |-> IF avb THEN meta ELSE 0, fits |-> TRUE],
   size |-> meta + 2 * PageSize]

ZKernel == <<Fixed("zhdr", WordLen), Part("main", Stored(2, "gzip")), Fixed("ztail", WordLen),
             Part("dtb", Stored(1, "raw"))>>

mc_Images ==
  {Image("v0", [kernel |-> ZKernel, ramdisk |-> <<Part("main", Stored(1, "gzip"))>>,
                second |-> <<Part("main", Stored(1, "raw"))>>], <<>>, m, FALSE, FALSE)
     : m \in {"SEANDROID", "AVB1"}}
  \union
  {Image("v0", [kernel |-> <<Fixed("mtk", MtkLen), Part("main", Stored(1, "raw"))>>,
                ramdisk |-> <<Fixed("mtk", MtkLen), Part("main", Stored(1, "xz"))>>,
                extra |-> <<Part("main", Stored(1, "gzip"))>>], <<>>, "LG_BUMP", FALSE, c)
     : c \in BOOLEAN}
  \union
  {Image("v2", [kernel |-> <<Part("main", Stored(2, "gzip")), Part("dtb", Stored(1, "raw"))>>,
                ramdisk |-> <<Part("main", Stored(1, "gzip"))>>,
                recovery_dtbo |-> <<Part("main", Stored(1, "raw"))>>,
                dtb |-> <<Part("main", Stored(2, "raw"))>>], <<>>, "none", TRUE, FALSE),
   Image("v4", [kernel |-> <<Part("main", Stored(2, "raw"))>>,
                ramdisk |-> <<Part("main", Stored(1, "xz"))>>,
                signature |-> <<Part("main", Stored(1, "raw"))>>], <<>>, "none", TRUE, FALSE),
   Image("vnd_v4", [ramdisk |-> <<Part("main", Stored(1, "gzip")), Part("main", Stored(2, "lz4_legacy"))>>,
                    dtb |-> <<Part("main", Stored(1, "raw"))>>, table |-> <<Fixed("main", 2)>>,
                    bootconfig |-> <<Part("main", Stored(1, "raw"))>>],
         <<[off |-> 0, len |-> 3], [off |-> 3, len |-> 4]>>, "none", FALSE, FALSE)}

mc_Data == {Raw(1), Raw(3), compress_len("xz", Raw(2))}

\* Of a repacked image only the kernel is edited again: it is the block in which a repack
\* leaves something, the padding of a zImage, to the next.
KernelAgain == flashes > 0 /\ edits' > edits => dir'.kernel # dir.kernel
=============================================================================
