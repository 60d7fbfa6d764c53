------------------------------- MODULE MCCpio -------------------------------
(* Instances of the ramdisk commands for TLC. *)
EXTENDS Cpio

\* A stock ramdisk of two archives with a "." and a file that is an xz archive.
StockRamdisk ==
  << << <<<<".">>, Entry("dir", <<>>)>>,
        <<<<"init">>, Entry("reg", <<"old">>)>>,
        <<<<"d", "/", "x">>, Entry("lnk", <<"init">>)>> >>,
     << <<<<"d">>, Entry("dir", <<>>)>>,
        <<<<"verity_key">>, Entry("reg", <<>>)>>,
        <<<<"a", ".xz">>, compress(Entry("reg", <<"old", "old">>))>>,
        <<<<"fstab">>, Entry("reg", <<"dev", " ", "wait", ",", "avb", "=", "v", ",", "forceencrypt",
                                      "\n", "dev", " ", "verify", ",", "fileencryption", "=", "v">>)>> >> >>

Arguments == {<<"init">>, <<"/", "d", "/", "/", "n", "/">>, <<"d">>, <<".backup", "/", ".magisk">>}
NewInit == {Entry("reg", <<"m", "m", "m">>)}

\* A backup is what two other commands lead to, or what the third one works on.
AboutBackup == commands = 2 /\ commands' = 3 => backed # "no" \/ backed' # "no"
=============================================================================
