----------------------------- MODULE BootImage -----------------------------
(***************************************************************************)
(* magiskboot unpack, repack and cleanup (boot/bootimg.cpp, bootimg.hpp).  *)
(* An image is a header with the sizes of its blocks, and the blocks where *)
(* they were written; parse_image finds a block again only by adding up    *)
(* the aligned sizes of the ones before it.  Lengths are in small units,   *)
(* a file is what it holds, how that is compressed, and how long that is.  *)
(***************************************************************************)
EXTENDS Naturals, Integers, Sequences, SequencesExt, FiniteSets, FiniteSetsExt, TLC

CONSTANTS
  Images,     \* the images there are to begin with
  Data,       \* what a file the user edits may hold
  Editable,   \* the files the user replaces, and removes
  Removable,
  Flags,      \* the values of skip_decomp and skip_comp the user mixes
  MaxEdits,   \* bound: files touched between unpack and repack
  MaxFlashes  \* bound: images repacked from repacked ones

PageSize == 4
SizeMod == 1000  \* 2^64, scaled down
MtkLen == 1
MagicLen == 2
WordLen == 1
VbmetaLen == 3
FooterLen == 2

VARIABLES
  img,   \* the image that is unpacked and repacked
  dir,   \* the working directory
  out,   \* what the last repack wrote, and what it was given
  edits, flashes

imgVars == <<img, dir, out, edits, flashes>>

Compressed == {"gzip", "lz4_legacy", "xz"}
Raw(d) == [data |-> d, fmt |-> "raw", len |-> 3 * d + 2]
\* What a compressor writes depends on the data and the format.
compress_len(f, c) == [data |-> c.data, fmt |-> f, len |-> IF f = "xz" THEN c.data ELSE c.data + 1]
Missing == [data |-> 0, fmt |-> "none", len |-> 0]

Part(kind, c) == [kind |-> kind, c |-> c, len |-> c.len]
Fixed(kind, n) == [kind |-> kind, c |-> Missing, len |-> n]
Length(parts) ==
  LET upto[n \in 0..Len(parts)] == IF n = 0 THEN 0 ELSE upto[n - 1] + parts[n].len IN upto[Len(parts)]
Main(parts, kind) ==
  LET s == SelectSeq(parts, LAMBDA p : p.kind = kind) IN IF s = <<>> THEN Missing ELSE s[1].c
Has(parts, kind) == \E i \in DOMAIN parts : parts[i].kind = kind

---------------------------------------------------------------------------
(* bootimg.hpp *)

align_to(v, a) == ((v + a - 1) \div a) * a

Order == <<"kernel", "ramdisk", "second", "extra", "recovery_dtbo", "dtb", "signature",
           "table", "bootconfig">>
Blocks == Range(Order)

\* The sizes a version of the header has.
Fields(ver) ==
  CASE ver = "v0" -> {"kernel", "ramdisk", "second", "extra"}
    [] ver = "v1" -> {"kernel", "ramdisk", "second", "recovery_dtbo"}
    [] ver = "v2" -> {"kernel", "ramdisk", "second", "recovery_dtbo", "dtb"}
    [] ver = "v4" -> {"kernel", "ramdisk", "signature"}
    [] ver = "vnd_v4" -> {"ramdisk", "dtb", "table", "bootconfig"}

\* A field the version lacks reads as zero, and what is written is junk.
set_size(ver, h, b, n) == IF b \in Fields(ver) THEN [h EXCEPT ![b] = n] ELSE h

---------------------------------------------------------------------------
(* parse_image *)

Index == [b \in Blocks |-> CHOOSE n \in DOMAIN Order : Order[n] = b]
End(h, m) ==
  LET end[n \in 0..Len(Order)] ==
        IF n = 0 THEN PageSize ELSE end[n - 1] + align_to(h[Order[n]], PageSize) IN end[m]

Offset(h, b) == End(h, Index[b] - 1)
PayloadLen(h) == End(h, Len(Order))

\* get_block: whatever is at the offset, which is the block only when it was
\* written there with that size.
Garbage == <<Fixed("garbage", 0)>>
get_block(i, b) ==
  LET off == Offset(i.hdr, b) IN
  IF i.hdr[b] = 0 THEN <<>>
  ELSE IF off \in DOMAIN i.at /\ Length(i.at[off]) = i.hdr[b] THEN i.at[off] ELSE Garbage

\* parse_zimage: the piggy, with its padding, between the code around it.
parse_zimage(parts) ==
  [Main(parts, "main") EXCEPT
     !.len = Length(SelectSeq(parts, LAMBDA p : p.kind \in {"main", "pad", "size"}))]

\* The marks behind the payload: Samsung's, LG's, the signature of AVB 1.0
\* (which has the length it was made for), and the AVB footer, which leads to
\* vbmeta if that is where it says.
tail_flags(i) ==
  {f \in {"SEANDROID", "LG_BUMP", "AVB1"} :
     i.tail.kind = f /\ i.tail.at = PayloadLen(i.hdr) /\ (f = "AVB1" => i.tail.at = i.tail.len)}
  \union (IF i.footer.vbmeta # 0 /\ i.footer.vbmeta = i.vbmeta THEN {"AVB"} ELSE {})

boot_img(i) ==
  LET k == get_block(i, "kernel")
      r == get_block(i, "ramdisk")
      body == SelectSeq(r, LAMBDA p : p.kind = "main") IN
  [ver |-> i.ver, os |-> i.os,
   flags |-> tail_flags(i) \union (IF i.chromeos THEN {"CHROMEOS"} ELSE {})
             \union (IF Has(k, "mtk") THEN {"MTK_KERNEL"} ELSE {})
             \union (IF Has(k, "zhdr") THEN {"ZIMAGE"} ELSE {})
             \union (IF Has(r, "mtk") THEN {"MTK_RAMDISK"} ELSE {}),
   kernel |-> IF Has(k, "zhdr") THEN parse_zimage(k) ELSE Main(k, "main"),
   kernel_dtb |-> Main(k, "dtb"),
   ramdisk |-> Main(r, "main"),
   \* vendor_ramdisk_tbl: the entries, by the offsets in the table.
   vnd |-> [n \in 1..Len(i.table) |->
              LET at == {m \in DOMAIN body :
                           i.table[n] = [off |-> Length(SubSeq(body, 1, m - 1)), len |-> body[m].len]} IN
              IF at = {} THEN Missing ELSE body[Min(at)].c],
   other |-> [b \in Blocks \ {"kernel", "ramdisk", "table"} |-> Main(get_block(i, b), "main")],
   torn |-> \E b \in Blocks : get_block(i, b) = Garbage]

---------------------------------------------------------------------------
(* dump_hdr_file and load_hdr_file: version and patch level share a word *)

Low == 4  \* 2^11, scaled down
dump_hdr_file(os) == [version |-> os \div Low, patch_level |-> os % Low]
load_hdr_file(os, f) ==
  LET v == f.version * Low + (os % Low) IN (v \div Low) * Low + f.patch_level

---------------------------------------------------------------------------
Files == {"kernel", "kernel_dtb", "ramdisk", "second", "extra", "recovery_dtbo", "dtb",
          "bootconfig"}
NoHeader == [version |-> 0, patch_level |-> 0]
EmptyDir == [f \in Files |-> Missing] @@ [header |-> NoHeader, vnd |-> <<>>]
NoOut == [done |-> FALSE]

ImageInit == img \in Images /\ dir = EmptyDir /\ out = NoOut /\ edits = 0 /\ flashes = 0

\* dump writes no file for an empty component, and leaves an old one alone.
Dumped(old, c) == IF c.len = 0 THEN old ELSE c
Decompressed(skip, c) == IF ~skip /\ c.fmt \in Compressed THEN Raw(c.data) ELSE c

unpack(skip, hdr) ==
  LET boot == boot_img(img)
      comp == [kernel |-> Decompressed(skip, boot.kernel), kernel_dtb |-> boot.kernel_dtb,
               ramdisk |-> IF boot.vnd # <<>> THEN Missing ELSE Decompressed(skip, boot.ramdisk),
               extra |-> Decompressed(skip, boot.other.extra)] @@ boot.other IN
  /\ out = NoOut
  /\ dir' = [f \in Files |-> Dumped(dir[f], comp[f])]
            @@ [header |-> IF hdr /\ boot.os # 0 THEN dump_hdr_file(boot.os) ELSE dir.header,
                vnd |-> IF boot.vnd = <<>> THEN dir.vnd
                        ELSE [n \in DOMAIN boot.vnd |-> Decompressed(skip, boot.vnd[n])]]
  /\ UNCHANGED <<img, out, edits, flashes>>

---------------------------------------------------------------------------
(* repack *)

\* A file is compressed as the original component was, unless it already is.
pack(skip, f, c) ==
  IF ~skip /\ c # Missing /\ c.fmt \notin Compressed /\ f \in Compressed
  THEN compress_len(f, c) ELSE c

\* The kernel: what is written, and the size the header gets for it.  A
\* zImage keeps its size: the new piggy is padded, and followed by the size
\* of what it holds.
kernel_parts(boot, skip) ==
  LET new == pack(skip, IF "ZIMAGE" \in boot.flags /\ boot.kernel.fmt = "gzip" THEN "gzip"
                        ELSE boot.kernel.fmt, dir.kernel)
      z == "ZIMAGE" \in boot.flags
      body == IF dir.kernel = Missing THEN boot.kernel
              ELSE IF z /\ new.len > boot.kernel.len THEN boot.kernel ELSE new
      pad == IF z /\ dir.kernel # Missing /\ new.len <= boot.kernel.len /\ ~skip
             THEN <<Fixed("pad", (boot.kernel.len - new.len - WordLen) % SizeMod),
                    Fixed("size", WordLen)>>
             ELSE <<>>
      claim == (IF z THEN boot.kernel.len + 2 * WordLen ELSE body.len) + dir.kernel_dtb.len
               + (IF "MTK_KERNEL" \in boot.flags THEN MtkLen ELSE 0) IN
  [parts |-> (IF "MTK_KERNEL" \in boot.flags THEN <<Fixed("mtk", MtkLen)>> ELSE <<>>)
             \o (IF z THEN <<Fixed("zhdr", WordLen)>> ELSE <<>>)
             \o (IF body.len > 0 THEN <<Part("main", body)>> ELSE <<>>) \o pad
             \o (IF z THEN <<Fixed("ztail", WordLen)>> ELSE <<>>)
             \o (IF dir.kernel_dtb # Missing THEN <<Part("dtb", dir.kernel_dtb)>> ELSE <<>>),
   claim |-> claim, align |-> TRUE]

\* "v4 GKIs are required to use lz4 (legacy)".
r_fmt(boot, skip) ==
  IF ~skip /\ boot.ver = "v4" /\ boot.ramdisk.fmt # "lz4_legacy" THEN "lz4_legacy"
  ELSE boot.ramdisk.fmt

vnd_parts(boot, skip) ==
  [n \in 1..Len(boot.vnd) |->
     Part("main", IF n \in DOMAIN dir.vnd THEN pack(skip, boot.vnd[n].fmt, dir.vnd[n]) ELSE Missing)]

Whole(parts) == [parts |-> parts, claim |-> Length(parts), align |-> parts # <<>>]
File(c) == IF c = Missing THEN <<>> ELSE <<Part("main", c)>>

ramdisk_parts(boot, skip) ==
  LET mtk == IF "MTK_RAMDISK" \in boot.flags THEN <<Fixed("mtk", MtkLen)>> ELSE <<>>
      body == IF boot.vnd # <<>> THEN vnd_parts(boot, skip)
              ELSE File(pack(skip, r_fmt(boot, skip), dir.ramdisk)) IN
  [Whole(mtk \o body) EXCEPT !.align = body # <<>>]

block(boot, skip, b) ==
  CASE b = "kernel" -> kernel_parts(boot, skip)
    [] b = "ramdisk" -> ramdisk_parts(boot, skip)
    [] b = "extra" -> Whole(File(pack(skip, boot.other.extra.fmt, dir.extra)))
    [] b = "signature" -> Whole(File(boot.other.signature))
    [] b = "table" -> Whole(IF boot.vnd = <<>> THEN <<>> ELSE <<Fixed("main", Len(boot.vnd))>>)
    [] OTHER -> Whole(File(dir[b]))

\* The sizes that are reset in the copy of the header.
Reset == {"kernel", "ramdisk", "second", "dtb", "bootconfig"}

\* Fault: a block is written right behind the one before.
write_block_NoAlign(boot, skip, w, b) ==
  LET k == block(boot, skip, b) IN
  IF k.parts = <<>> THEN w
  ELSE [pos |-> w.pos + Length(k.parts), at |-> (w.pos :> k.parts) @@ w.at,
        off |-> (b :> w.pos) @@ w.off, hdr |-> set_size(boot.ver, w.hdr, b, k.claim)]

\* A block that is written sets its size in the header.
write_block(boot, skip, w, b) ==
  LET k == block(boot, skip, b)
      end == w.pos + Length(k.parts) IN
  IF k.parts = <<>> THEN w
  ELSE [pos |-> IF k.align THEN align_to(end, PageSize) ELSE end,
        at |-> (w.pos :> k.parts) @@ w.at,
        off |-> (b :> w.pos) @@ w.off,
        hdr |-> IF b = "signature" THEN w.hdr ELSE set_size(boot.ver, w.hdr, b, k.claim)]

\* What the checksum in the header, where there is one, is computed over.
Hashed(ver) == IF ver \in {"v0", "v1", "v2"} THEN Fields(ver) ELSE {}
read_at(w, b) ==
  IF w.hdr[b] = 0 THEN <<>>
  ELSE IF b \in DOMAIN w.off /\ Length(w.at[w.off[b]]) = w.hdr[b] THEN w.at[w.off[b]] ELSE Garbage

\* Fault: the AVB 1.0 signature is for the length the payload had.
tail_mark_OldLength(boot, pos) ==
  IF "AVB1" \in boot.flags THEN [kind |-> "AVB1", at |-> pos, len |-> PayloadLen(img.hdr)]
  ELSE [kind |-> "none", at |-> 0, len |-> 0]

\* What is written behind the payload.
tail_mark(boot, pos) ==
  CASE "SEANDROID" \in boot.flags -> [kind |-> "SEANDROID", at |-> pos, len |-> 0]
    [] "LG_BUMP" \in boot.flags -> [kind |-> "LG_BUMP", at |-> pos, len |-> 0]
    [] "AVB1" \in boot.flags -> [kind |-> "AVB1", at |-> pos, len |-> pos]
    [] OTHER -> [kind |-> "none", at |-> 0, len |-> 0]

repacked(boot, skip) ==
  LET w == FoldLeft(LAMBDA w, b : write_block(boot, skip, w, b),
                    [pos |-> PageSize, at |-> << >>, off |-> << >>,
                     hdr |-> [b \in Blocks |-> IF b \in Reset THEN 0 ELSE img.hdr[b]]], Order)
      mark == IF {"SEANDROID", "LG_BUMP"} \intersect boot.flags # {} THEN MagicLen ELSE 0
      tail == w.pos + mark
      meta == align_to(tail, PageSize)
      end == IF "AVB" \in boot.flags THEN meta + VbmetaLen ELSE meta
      size == IF end < img.size /\ ~img.chromeos THEN img.size ELSE end
      r == ramdisk_parts(boot, skip).parts IN
  [ver |-> boot.ver, chromeos |-> img.chromeos, hdr |-> w.hdr, at |-> w.at, size |-> size,
   os |-> IF dir.header = NoHeader THEN boot.os ELSE load_hdr_file(boot.os, dir.header),
   id |-> [b \in Hashed(boot.ver) |-> read_at(w, b)],
   table |-> [n \in 1..Len(boot.vnd) |-> [off |-> Length(SubSeq(r, 1, n - 1)), len |-> r[n].len]],
   tail |-> tail_mark(boot, w.pos),
   vbmeta |-> IF "AVB" \in boot.flags THEN meta ELSE 0,
   footer |-> [vbmeta |-> IF "AVB" \in boot.flags THEN meta ELSE 0,
               fits |-> end + FooterLen <= size]]

repack(skip) ==
  /\ out = NoOut
  /\ out' = [done |-> TRUE, skip |-> skip, image |-> repacked(boot_img(img), skip)]
  /\ UNCHANGED <<img, dir, edits, flashes>>

cleanup == out.done /\ dir' = EmptyDir /\ out' = NoOut /\ edits' = 0 /\ UNCHANGED <<img, flashes>>

---------------------------------------------------------------------------
(* the user *)

Edit ==
  /\ out = NoOut /\ edits < MaxEdits /\ edits' = edits + 1
  /\ \/ \E f \in Editable \intersect Fields(img.ver), c \in Data : dir' = [dir EXCEPT ![f] = c]
     \/ \E f \in Removable : dir[f] # Missing /\ dir' = [dir EXCEPT ![f] = Missing]
     \/ \E n \in DOMAIN dir.vnd, c \in Data :
          "vnd" \in Editable /\ dir' = [dir EXCEPT !.vnd[n] = c]
     \/ /\ "header" \in Editable /\ dir.header # NoHeader
        /\ \E v \in {1, Low - 1} :
             dir' = [dir EXCEPT !.header = [version |-> v, patch_level |-> Low - v]]
  /\ UNCHANGED <<img, out, flashes>>

\* The new image, if it can be read at all, takes the place of the original.
Flash ==
  /\ out.done /\ ~boot_img(out.image).torn /\ flashes < MaxFlashes
  /\ img' = out.image /\ out' = NoOut /\ dir' = EmptyDir /\ edits' = 0 /\ flashes' = flashes + 1

ImageNext ==
  \/ \E skip \in Flags, hdr \in BOOLEAN : unpack(skip, hdr)
  \/ \E skip \in Flags : repack(skip)
  \/ cleanup \/ Edit \/ Flash

ImageSpec == ImageInit /\ [][ImageNext]_imgVars

---------------------------------------------------------------------------
(* Properties *)

\* Whether a zImage's new piggy leaves the old one's size to be filled up,
\* with the word at its end.
Room(boot) ==
  LET new == pack(out.skip, boot.kernel.fmt, dir.kernel) IN
  "ZIMAGE" \in boot.flags /\ dir.kernel # Missing =>
    \/ new.len > boot.kernel.len
    \/ IF out.skip THEN new.len = boot.kernel.len ELSE new.len + WordLen <= boot.kernel.len

\* The files without which repack leaves a size, or a header, of the old image.
Supplied(boot) ==
  /\ \A b \in {"extra", "recovery_dtbo"} : boot.other[b] # Missing => dir[b] # Missing
  /\ "MTK_RAMDISK" \in boot.flags => dir.ramdisk # Missing

\* repack: the offsets parse_image adds up from the sizes in the new header
\* lead to exactly the blocks that were written; each component holds what
\* its file in the directory holds (the kernel, and a zImage whose new kernel
\* does not fit, what it held before), and the checksum was computed over
\* these blocks.
Readable ==
  LET old == boot_img(img)
      new == boot_img(out.image)
      tooLarge == "ZIMAGE" \in old.flags
                  /\ pack(out.skip, old.kernel.fmt, dir.kernel).len > old.kernel.len IN
  out.done /\ Room(old) /\ Supplied(old) =>
    /\ ~new.torn
    /\ new.kernel.data = IF dir.kernel = Missing \/ tooLarge THEN old.kernel.data ELSE dir.kernel.data
    /\ new.kernel_dtb = dir.kernel_dtb
    /\ IF old.vnd # <<>> THEN [n \in DOMAIN new.vnd |-> new.vnd[n].data]
                              = [n \in DOMAIN old.vnd |-> IF n \in DOMAIN dir.vnd THEN dir.vnd[n].data ELSE 0]
       ELSE new.ramdisk.data = dir.ramdisk.data
    /\ \A b \in (Blocks \intersect Files \intersect Fields(old.ver)) \ {"kernel", "ramdisk"} :
         new.other[b].data = dir[b].data
    /\ new.other.signature = old.other.signature
    /\ out.image.id = [b \in Hashed(old.ver) |-> get_block(out.image, b)]
    /\ new.os = IF dir.header = NoHeader THEN old.os
                ELSE dir.header.version * Low + dir.header.patch_level

\* repack: an image that was signed, marked or wrapped by its maker is found
\* to be so again (the signature is over the whole new payload, the footer
\* leads to vbmeta, the marks are where the payload ends), and is no shorter
\* than it was.
StampsKept ==
  out.done /\ Room(boot_img(img)) /\ Supplied(boot_img(img)) =>
    /\ boot_img(out.image).flags = boot_img(img).flags
    /\ out.image.size >= img.size \/ img.chromeos
=============================================================================
