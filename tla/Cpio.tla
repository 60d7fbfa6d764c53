-------------------------------- MODULE Cpio --------------------------------
(***************************************************************************)
(* "magiskboot cpio": commands on a ramdisk, boot/cpio.rs.                 *)
(*                                                                         *)
(* A process loads the archive into a map from names to entries, applies   *)
(* its commands to the map and writes the map back.  A command that fails, *)
(* or that only asks, ends the process before anything is written.         *)
(*                                                                         *)
(* A string is a sequence of tokens: "/" and ".xz" are tokens, any other   *)
(* token stands for some characters.  Owners and permissions are left out. *)
(***************************************************************************)
EXTENDS Naturals, SequencesExt

CONSTANTS
  Stock,        \* the original ramdisk, as its list of archives of <<name, entry>>
  Paths,        \* names that commands are given
  Contents,     \* files that add takes
  MaxCommands   \* bound: commands

VARIABLES
  disk,         \* the archive <incpio>
  entries,      \* Cpio.entries
  running,      \* a process is at work
  commands,
  (* History *)
  saved,        \* the map that was written last, and its backed
  backed        \* how the entries were backed up against Stock, if only .backup/.magisk
                \* came since

vars == <<disk, entries, running, commands, saved, backed>>

Empty == [n \in {} |-> {}]
Text(t) == [text |-> t, xz |-> 0]
Entry(kind, t) == [kind |-> kind, data |-> Text(t)]
Only(map, names) == [n \in names |-> map[n]]
Drop(map, names) == Only(map, DOMAIN map \ names)
Put(map, n, e) == (n :> e) @@ map

BACKUP == <<".backup">>
RMLIST == <<".backup", "/", ".rmlist">>
MAGISK == <<".backup", "/", ".magisk">>
NUL == "NUL"

\* Slashes stay only between two other tokens, one at a time.
norm_path(p) ==
  LET named == {i \in DOMAIN p : p[i] # "/"}
      kept == {i \in DOMAIN p : p[i] = "/" =>
                 i > 1 /\ p[i - 1] # "/" /\ \E j \in named : j > i}
  IN FoldLeftDomain(LAMBDA out, i : IF i \in kept THEN Append(out, p[i]) ELSE out, <<>>, p)
-----------------------------------------------------------------------------
(* The archive *)

align_4(x) == ((x + 3) \div 4) * 4
HeaderSize == 110
TRAILER == <<"TRAILER!!!">>

\* Fault: the padding after the data is left out.
WriteEntry_NoPadding(file, item) ==
  LET data == align_4(file.len + HeaderSize + Len(item[1]) + 1) IN
  [hdr |-> file.len :> [name |-> item[1], entry |-> item[2]] @@ file.hdr,
   len |-> data + Len(item[2].data.text)]

\* One turn of the loop of dump: header, name, padding, data, padding.
WriteEntry(file, item) ==
  LET data == align_4(file.len + HeaderSize + Len(item[1]) + 1) IN
  [hdr |-> file.len :> [name |-> item[1], entry |-> item[2]] @@ file.hdr,
   len |-> align_4(data + Len(item[2].data.text))]

NoFile == [hdr |-> Empty, len |-> 0]
Close(file) == WriteEntry(file, <<TRAILER, Entry("reg", <<>>)>>)
dump(map) ==
  Close(FoldSet(LAMBDA n, file : WriteEntry(file, <<n, map[n]>>), NoFile, DOMAIN map))

\* load_from_data: positions are computed from the sizes in each header; after a
\* trailer the next magic is searched for.  A position without one is an error.
Invalid == [n \in {<<"invalid">>} |-> Entry("bad", <<>>)]
load_from_data(file) ==
  LET from[pos \in Nat] ==
        IF pos >= file.len THEN Empty
        ELSE IF pos \notin DOMAIN file.hdr THEN Invalid
        ELSE LET hdr == file.hdr[pos]
                 data == align_4(pos + HeaderSize + Len(hdr.name) + 1)
                 more == {p \in DOMAIN file.hdr : p >= data}
                 next == align_4(data + Len(hdr.entry.data.text))
             IN CASE hdr.name \in {<<".">>, <<"..">>} -> from[data]
                  [] hdr.name = TRAILER -> IF more = {} THEN Empty ELSE from[Min(more)]
                  [] OTHER -> from[next] @@ (hdr.name :> hdr.entry)
  IN from[0]

\* Archives may follow one another in a file.
StockFile == FoldLeft(LAMBDA file, items : Close(FoldLeft(WriteEntry, file, items)), NoFile, Stock)
StockMap == load_from_data(StockFile)
-----------------------------------------------------------------------------
(* Commands *)

Under(dir, n) == IsPrefix(dir \o <<"/">>, n)
rm(map, path, recursive) ==
  LET p == norm_path(path) IN
  Drop(map, {n \in DOMAIN map : n = p \/ (recursive /\ Under(p, n))})

\* compress and decompress work on regular files only.
compress(e) == [e EXCEPT !.data.xz = @ + 1]
CanDecompress(e) == e.kind = "reg" /\ e.data.xz > 0
decompress(e) == [e EXCEPT !.data.xz = @ - 1]

\* "a" and "a.xz" may come to the same name: the map is walked in order, the
\* later insert, that of the longer name, stays.
Latest(names, Fits(_)) ==
  CHOOSE n \in names : Fits(n) /\ \A m \in names : Fits(m) => Len(m) <= Len(n)

BackupName(n, e, skip) ==
  BACKUP \o <<"/">> \o n \o IF e.kind = "reg" /\ ~skip THEN <<".xz">> ELSE <<>>

BackupEntry(e, skip) == IF e.kind = "reg" /\ ~skip THEN compress(e) ELSE e

\* Entries that are missing or have other data are kept under .backup, the names
\* of those that the original does not have are listed.
backup(map, orig, skip) ==
  LET o == rm(orig, BACKUP, TRUE)
      s == rm(map, BACKUP, TRUE)
      old == {n \in DOMAIN o : n \in DOMAIN s => s[n].data # o[n].data}
      new == DOMAIN s \ DOMAIN o
      rm_list == FoldSet(LAMBDA n, list : list \o n \o <<NUL>>, <<>>, new)
  IN [b \in {BackupName(n, o[n], skip) : n \in old} |->
        BackupEntry(o[Latest(old, LAMBDA n : BackupName(n, o[n], skip) = b)], skip)]
     @@ (IF new = {} THEN Empty ELSE RMLIST :> Entry("reg", rm_list))
     @@ (BACKUP :> Entry("dir", <<>>)) @@ s

\* The names in a .rmlist: what stands between NULs.
Listed(text) ==
  {SubSeq(text, i, j) : <<i, j>> \in
     {<<a, b>> \in (DOMAIN text) \X (DOMAIN text) :
        /\ \A k \in a .. b : text[k] # NUL
        /\ a = 1 \/ text[a - 1] = NUL
        /\ b = Len(text) \/ text[b + 1] = NUL}} \ {<<>>}

\* The name and the entry that a backup is restored as.
Unpacks(n, e) == Last(n) = ".xz" /\ CanDecompress(e)
OldName(n, e) == SubSeq(n, 3, IF Unpacks(n, e) THEN Len(n) - 1 ELSE Len(n))
OldEntry(n, e) == IF Unpacks(n, e) THEN decompress(e) ELSE e

\* Fault: entries that are new since the backup stay.
restore_KeepNew(map) ==
  LET taken == {n \in DOMAIN map : Under(BACKUP, n)}
      saves == taken \ {RMLIST, MAGISK}
      backups == [o \in {OldName(n, map[n]) : n \in saves} |->
                    LET n == Latest(saves, LAMBDA m : OldName(m, map[m]) = o) IN OldEntry(n, map[n])]
      rest == rm(Drop(map, taken), BACKUP, FALSE)
  IN IF saves = {} /\ RMLIST \notin taken THEN Empty ELSE backups @@ rest

\* Without any backup the ramdisk did not exist: nothing is left.
restore(map) ==
  LET taken == {n \in DOMAIN map : Under(BACKUP, n)}
      saves == taken \ {RMLIST, MAGISK}
      backups == [o \in {OldName(n, map[n]) : n \in saves} |->
                    LET n == Latest(saves, LAMBDA m : OldName(m, map[m]) = o) IN OldEntry(n, map[n])]
      rm_list == IF RMLIST \in taken THEN Listed(map[RMLIST].data.text) ELSE {}
      gone == {norm_path(n) : n \in rm_list}
      rest == Drop(rm(Drop(map, taken), BACKUP, FALSE), gone)
  IN IF saves = {} /\ rm_list = {} THEN Empty ELSE backups @@ rest
-----------------------------------------------------------------------------
(* patch: options are taken out of fstab files, boot/patch.rs *)

VerityPatterns == {"verifyatboot", "verify", "avb_keys", "avb", "support_scfs", "fsverity"}
EncryptionPatterns == {"forceencrypt", "forcefdeorfbe", "fileencryption"}
Blank == {" ", "\n", NUL}

\* A pattern is removed with the comma before it and, after "=", with everything
\* up to the next blank.
remove_pattern(text, patterns) ==
  LET from[i \in 1 .. Len(text) + 1] ==
        IF i > Len(text) THEN <<>>
        ELSE LET p == IF text[i] = "," THEN i + 1 ELSE i
                 found == p <= Len(text) /\ text[p] \in patterns
                 ends == {j \in p + 1 .. Len(text) : text[j] \in Blank}
             IN IF ~found THEN <<text[i]>> \o from[i + 1]
                ELSE IF p < Len(text) /\ text[p + 1] = "="
                  THEN from[IF ends = {} THEN Len(text) + 1 ELSE Min(ends)]
                ELSE from[p + 1]
  IN from[1]

IsFstab(n, e) == e.kind = "reg" /\ n # <<>> /\ n[1] = "fstab"
PatchText(text, keep_verity, keep_force_encrypt) ==
  LET t == IF keep_verity THEN text ELSE remove_pattern(text, VerityPatterns)
  IN IF keep_force_encrypt THEN t ELSE remove_pattern(t, EncryptionPatterns)
patch(map, keep_verity, keep_force_encrypt) ==
  LET kept == IF keep_verity THEN DOMAIN map ELSE DOMAIN map \ {<<"verity_key">>}
  IN [n \in kept |->
        IF IsFstab(n, map[n])
          THEN [map[n] EXCEPT !.data.text = PatchText(@, keep_verity, keep_force_encrypt)]
          ELSE map[n]]
-----------------------------------------------------------------------------
(* cpio_commands *)

\* No file is as an empty one.
Init ==
  /\ disk \in {StockFile, NoFile} /\ entries = Empty /\ running = FALSE /\ commands = 0
  /\ saved = [map |-> load_from_data(disk), backed |-> "no"] /\ backed = "no"

\* An archive that cannot be loaded ends the process.
Start ==
  /\ ~running /\ commands < MaxCommands
  /\ <<"invalid">> \notin DOMAIN load_from_data(disk)
  /\ entries' = load_from_data(disk)
  /\ running' = TRUE /\ backed' = saved.backed
  /\ UNCHANGED <<disk, commands, saved>>

Command(map) ==
  /\ running /\ commands < MaxCommands /\ commands' = commands + 1
  /\ entries' = map
  /\ backed' = IF Drop(map, {MAGISK}) = Drop(entries, {MAGISK}) THEN backed ELSE "no"
  /\ UNCHANGED <<disk, running, saved>>

Rm(path, recursive) == Command(rm(entries, path, recursive))
MakeDir(path) == Command(Put(entries, norm_path(path), Entry("dir", <<>>)))
Link(src, dst) == Command(Put(entries, norm_path(dst), Entry("lnk", norm_path(src))))
Add(path, e) == /\ Last(path) # "/"
                /\ Command(Put(entries, norm_path(path), e))

Move(from, to) ==
  /\ norm_path(from) \in DOMAIN entries
  /\ Command(Put(Drop(entries, {norm_path(from)}), norm_path(to), entries[norm_path(from)]))

Patch(keep_verity, keep_force_encrypt) ==
  Command(patch(entries, keep_verity, keep_force_encrypt))
Restore == Command(restore(entries))
Backup(skip) ==
  /\ running /\ commands < MaxCommands /\ commands' = commands + 1
  /\ entries' = backup(entries, StockMap, skip)
  /\ backed' = IF skip THEN "plain" ELSE "packed"
  /\ UNCHANGED <<disk, running, saved>>

\* test, exists and ls, and every command that fails: mv of what is not there, add
\* under a name that ends in "/" or of an unknown kind of file, a failed extract.
Quit ==
  /\ running /\ running' = FALSE /\ entries' = Empty /\ backed' = "no"
  /\ UNCHANGED <<disk, commands, saved>>

Dump ==
  /\ running /\ running' = FALSE /\ entries' = Empty /\ backed' = "no"
  /\ disk' = dump(entries)
  /\ saved' = [map |-> entries, backed |-> backed]
  /\ UNCHANGED commands

Next ==
  \/ Start \/ Quit \/ Dump \/ Restore
  \/ \E p \in Paths :
       \/ \E r \in BOOLEAN : Rm(p, r)
       \/ MakeDir(p)
       \/ \E q \in Paths : Link(q, p) \/ Move(p, q)
       \/ \E e \in Contents : Add(p, e)
  \/ \E keep_verity, keep_force_encrypt \in BOOLEAN : Patch(keep_verity, keep_force_encrypt)
  \/ \E skip \in BOOLEAN : Backup(skip)

Spec == Init /\ [][Next]_vars
-----------------------------------------------------------------------------
Kinds == {"dir", "reg", "lnk", "blk"}

\* Reading back what dump wrote gives the same map: the positions that the
\* reader computes are those of the writer, for every length of name and data.
\* Every entry that a command made has a name that can be given to another.
Original == rm(StockMap, BACKUP, TRUE)
RoundTrip ==
  /\ ~running => load_from_data(disk) = saved.map
  /\ \A n \in DOMAIN entries \ DOMAIN Original : ~Under(BACKUP, n) => norm_path(n) = n

\* Every file of the original comes back with its data, and no other stays.
RestoresStock ==
  /\ running /\ backed # "no"
  /\ \E n \in DOMAIN entries \ {MAGISK} : Under(BACKUP, n)
  => LET r == restore(entries)
         mistaken == {n \in DOMAIN Original : backed = "plain" /\ Unpacks(n, Original[n])}
     IN /\ \A n \in DOMAIN Original \ mistaken :
             n \in DOMAIN r /\ r[n].data = Original[n].data
        /\ DOMAIN r \subseteq DOMAIN Original \cup {Front(n) : n \in mistaken}

\* "Restore ramdisk from ramdisk backup stored within incpio": whatever was done
\* before backup, restore gives every file of the original its data again and
\* leaves no other.  With -n a file that is an xz archive, by name and by content,
\* is taken for a compressed backup and may come back unpacked under another name.
\* backup may be run again: it does not take its own files for new ones.
Restorable ==
  /\ running /\ backed # "no" =>
       backup(entries, StockMap, backed = "plain") = Drop(entries, {MAGISK})
  /\ RestoresStock
=============================================================================
