----------------------------- MODULE MCSepolicy -----------------------------
(***************************************************************************)
(* A policy with one type in the attribute "domain", an attribute without  *)
(* members, and statements of every kind, with "*", with lists, and with   *)
(* names that do not exist.                                                *)
(***************************************************************************)
EXTENDS Sepolicy

mc_Names == {"init", "magisk", "domain", "mls"}
mc_BaseAttrs == [a \in {"domain", "mls"} |-> IF a = "domain" THEN {"init"} ELSE {}]
mc_ClassPerms == [c \in {"file", "dir"} |-> IF c = "file" THEN {"read", "write"} ELSE {"read"}]
mc_TypeNames == [e \in {1, 2} |-> IF e = 1 THEN {"mls"} ELSE {"domain", "mls"}]
mc_Paths == {<<"proc", "/">>}

Lists == {{}, {"magisk"}, {"domain"}}
AvStatements ==
  [do : {"allow", "deny"}, s : Lists, t : {{}, {"init"}, {"domain", "ghost"}},
   c : {{}, {"file"}}, p : {{}, {"read"}}]
    \union [do : {"auditallow", "dontaudit"}, s : {{}, {"init"}}, t : {{"domain"}},
            c : {{"file"}}, p : {{"read"}}]

XpermSets ==
  {[form |-> "*"], [form |-> "one", n |-> 0], [form |-> "one", n |-> 18]}
    \union [form : {"list"}, tilde : BOOLEAN,
            ranges : {<<<<17, 19>>>>, <<<<8, 33>>>>, <<<<7, 5>>>>, <<<<17, 17>>, <<19, 26>>>>}]
XpermStatements ==
  [do : {"allowxperm"}, s : {{}, {"init"}}, t : {{"domain"}}, c : {{"file"}}, x : XpermSets]
    \union [do : {"auditallowxperm", "dontauditxperm"}, s : {{"init"}}, t : {{"init"}},
            c : {{}}, x : {[form |-> "one", n |-> 18]}]

TypeStatements ==
  [do : {"type"}, n : {"magisk"}, a : {{}, {"mls"}, {"domain", "mls"}}]
    \union [do : {"typeattribute"}, s : {{"magisk"}, {"init", "magisk"}}, a : {{"mls"}, {"ghost"}}]
    \union [do : {"attribute"}, n : {"magisk"}]
    \union [do : {"permissive", "enforce"}, s : Lists]

OtherStatements ==
  [do : {"type_transition"}, s : {"init"}, t : {"domain"}, c : {"file", "ghost"},
   d : {"init"}, o : {"", "name"}]
    \union [do : {"type_change", "type_member"}, s : {"init"}, t : {"magisk"}, c : {"file"},
            d : {"init"}]
    \union [do : {"genfscon"}, path : mc_Paths, ctx : {"ok", "bad"}]
    \union {[do |-> "strip_dontaudit"]}

mc_Statements == AvStatements \union XpermStatements \union TypeStatements \union OtherStatements
=============================================================================
