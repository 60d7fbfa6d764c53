------------------------------ MODULE Sepolicy ------------------------------
(***************************************************************************)
(* magiskpolicy: the statements of sepolicy/statement.rs and what          *)
(* sepolicy/api.cpp and sepolicy/sepolicy.cpp make of them in the          *)
(* policydb.                                                               *)
(*                                                                         *)
(* A statement is a record.  Its lists of names are sets, as the order of  *)
(* the rules they expand to does not matter, but for the ioctls of an      *)
(* xperm statement; an empty list is the match-all operator.  A node of    *)
(* the avtab that is_redundant is removed by the code, so the table av is  *)
(* total and has the redundant datum where there is no node.               *)
(***************************************************************************)
EXTENDS Integers, SequencesExt

CONSTANTS
  Names,          \* type and attribute names, declared or not
  BaseAttrs,      \* the attributes of the policy loaded, with their members
  BaseTypes,      \* its types: one of these sets
  ClassPerms,     \* the permissions of each class
  TypeNames,      \* for each constraint expression, the attributes it names
  Paths, Contexts,\* genfscon: <<fs_name, path>>, and the valid contexts
  Size,           \* functions of an ioctl driver (256 in the code)
  Statements,     \* the statements that may be given
  MaxStatements   \* bound: how many

Classes == DOMAIN ClassPerms
Bits == (UNION {ClassPerms[c] : c \in Classes}) \union {"unnamed"}   \* ~0U
AvEffects == {"ALLOWED", "AUDITALLOW", "AUDITDENY"}
TypeEffects == {"TRANSITION", "CHANGE", "MEMBER"}
XpermEffects == {"XPERMS_ALLOWED", "XPERMS_AUDITALLOW", "XPERMS_DONTAUDIT"}
Keys(effects) == Names \X Names \X Classes \X effects
Bytes == 0 .. Size - 1

ASSUME AttrsAssumption == DOMAIN BaseAttrs \subseteq Names
ASSUME KindsAssumption ==
  \A st \in Statements : st.do \in
    {"allow", "deny", "auditallow", "dontaudit", "allowxperm", "auditallowxperm",
     "dontauditxperm", "permissive", "enforce", "typeattribute", "type", "attribute",
     "type_transition", "type_change", "type_member", "genfscon", "strip_dontaudit"}
ASSUME SizeAssumption == Size \in Nat \ {0} /\ MaxStatements \in Nat

VARIABLES
  db,             \* the policydb
  crashed,        \* the process died of a null pointer
  last, given     \* the last statement, and how many there were

vars == <<db, crashed, last, given>>

Attribs(d) == {n \in Names : d.flavor[n] = "attrib"}
Types(d) == {n \in Names : d.flavor[n] = "type"}
Known(d) == {n \in Names : d.flavor[n] # "none"}

\* is_redundant, and the datum insert_avtab_node gives a new node
Redundant(effect) == IF effect = "AUDITDENY" THEN Bits ELSE {}
NoXperms == [driver |-> {}, func |-> [b \in Bytes |-> {}]]

Init ==
  LET base == DOMAIN BaseAttrs
      of(t) == {a \in base : t \in BaseAttrs[a]} IN
  /\ \E types \in BaseTypes : db = [flavor |-> [n \in Names |-> IF n \in base THEN "attrib"
                         ELSE IF n \in types THEN "type" ELSE "none"],
           type_attr_map |-> [n \in Names |-> of(n)],
           attr_type_map |-> [n \in Names |-> IF n \in base THEN BaseAttrs[n] ELSE {}],
           names |-> [e \in DOMAIN TypeNames |-> UNION {BaseAttrs[a] : a \in TypeNames[e]}],
           roles |-> types, permissive_map |-> {},
           av |-> [k \in Keys(AvEffects) |-> Redundant(k[4])],
           te |-> [k \in Keys(TypeEffects) |-> "none"],
           xp |-> [k \in Keys(XpermEffects) |-> NoXperms],
           genfs |-> [p \in Paths |-> "none"]]
  /\ crashed = FALSE /\ last = [do |-> "none"] /\ given = 0

---------------------------------------------------------------------------
\* sepolicy.cpp.  Names that are not declared are skipped (hashtab_find).

Match(list, known, all) == IF list = {} THEN all ELSE list \intersect known

\* Fault: "*" is the attributes for every rule.
add_rule_Attribs(d, st, effect, invert) ==
  LET hit == Match(st.s, Known(d), Attribs(d)) \X Match(st.t, Known(d), Attribs(d))
               \X Match(st.c, Classes, Classes) \X {effect}
      mask(c) == IF st.p = {} THEN Bits ELSE st.p \intersect ClassPerms[c]
  IN IF st.c = {} /\ st.p # {} THEN d
     ELSE [d EXCEPT !.av = [k \in DOMAIN @ |->
             IF k \notin hit THEN @[k]
             ELSE IF invert THEN @[k] \ mask(k[3]) ELSE @[k] \union mask(k[3])]]

\* add_rule; "stripping av" has to go through all types, other rules only
\* through the attributes.
add_rule(d, st, effect, invert) ==
  LET strip == (effect = "AUDITDENY") = ~invert
      all == IF strip THEN Known(d) ELSE Attribs(d)
      hit == Match(st.s, Known(d), all) \X Match(st.t, Known(d), all)
               \X Match(st.c, Classes, Classes) \X {effect}
      mask(c) == IF st.p = {} THEN Bits ELSE st.p \intersect ClassPerms[c]
      new(k) == IF k \notin hit THEN d.av[k]
                ELSE IF invert THEN d.av[k] \ mask(k[3]) ELSE d.av[k] \union mask(k[3])
  IN IF st.c = {} /\ st.p # {} THEN d       \* "No class is specified"
     ELSE [d EXCEPT !.av = [k \in DOMAIN @ |-> new(k)]]

ioctl_driver(x) == x \div Size
ioctl_func(x) == x % Size

\* Fault: a complement leaves the nodes of single drivers.
add_xperm_KeepFunc(node, x) ==
  LET drivers == ioctl_driver(x.low) .. ioctl_driver(x.high)
      funcs == ioctl_func(x.low) .. ioctl_func(x.high)
      one == ioctl_driver(x.low) IN
  IF one # ioctl_driver(x.high)
  THEN [node EXCEPT !.driver = {IF x.reset THEN Bytes \ drivers ELSE (UNION @) \union drivers}]
  ELSE IF x.reset THEN [node EXCEPT !.driver = {Bytes \ {one}}, !.func[one] = {Bytes \ funcs}]
  ELSE [node EXCEPT !.func[one] = {(UNION @) \union funcs}]

\* add_xperm_rule for one key and one range; a node is a set of at most one
\* bitmap.
add_xperm(node, x) ==
  LET drivers == ioctl_driver(x.low) .. ioctl_driver(x.high)
      funcs == ioctl_func(x.low) .. ioctl_func(x.high)
      one == ioctl_driver(x.low)
      same == one = ioctl_driver(x.high)
  IN IF ~x.reset
     THEN IF same THEN [node EXCEPT !.func[one] = {(UNION @) \union funcs}]
          ELSE [node EXCEPT !.driver = {(UNION @) \union drivers}]
     ELSE IF same THEN [NoXperms EXCEPT !.driver = {Bytes \ {one}},
                                        !.func[one] = {Bytes \ funcs}]
          ELSE [NoXperms EXCEPT !.driver = {Bytes \ drivers}]

add_xperm_rule(d, st, xperms, effect) ==
  LET hit == Match(st.s, Known(d), Attribs(d)) \X Match(st.t, Known(d), Attribs(d))
               \X Match(st.c, Classes, Classes) \X {effect}
  IN [d EXCEPT !.xp = [k \in DOMAIN @ |->
       IF k \in hit THEN FoldLeft(add_xperm, @[k], xperms) ELSE @[k]]]

\* add_type_rule
add_type_rule(d, st, effect) ==
  IF {st.s, st.t, st.d} \subseteq Known(d) /\ st.c \in Classes
  THEN [d EXCEPT !.te[<<st.s, st.t, st.c, effect>>] = st.d] ELSE d

\* add_filename_trans: hashtab_find takes the key for a string, so what is
\* searched for is cut at its first zero byte and has no name; the hash of
\* libsepol reads the name.
FilenameTransCrashes(d, st) ==
  {st.s, st.t, st.d} \subseteq Known(d) /\ st.c \in Classes /\ st.o # ""

\* add_genfscon
add_genfscon(d, st) ==
  IF st.ctx \in Contexts THEN [d EXCEPT !.genfs[st.path] = st.ctx] ELSE d

\* add_type: the type gets into every role.
add_type(d, name, flavor) ==
  IF name \in Known(d) THEN d
  ELSE [d EXCEPT !.flavor[name] = flavor, !.roles = @ \union {name}]

\* set_type_state
set_type_state(d, list, permissive) ==
  LET types == Match(list, Known(d), Known(d)) IN
  [d EXCEPT !.permissive_map = IF permissive THEN @ \union types ELSE @ \ types]

\* Fault: the constraints are left as they are.
add_typeattribute_NoNames(d, names, attributes) ==
  LET types == names \intersect Types(d)
      attrs == attributes \intersect Attribs(d) IN
  [d EXCEPT !.type_attr_map = [t \in DOMAIN @ |-> IF t \in types THEN @[t] \union attrs ELSE @[t]],
            !.attr_type_map = [a \in DOMAIN @ |-> IF a \in attrs THEN @[a] \union types ELSE @[a]]]

\* add_typeattribute for every pair of a type and an attribute, with the
\* constraints that name the attribute.  No pair changes what the next one
\* finds declared, so that they do not depend on their order.
add_typeattribute(d, names, attributes) ==
  LET types == names \intersect Types(d)
      attrs == attributes \intersect Attribs(d) IN
  [d EXCEPT !.type_attr_map = [t \in DOMAIN @ |-> IF t \in types THEN @[t] \union attrs ELSE @[t]],
            !.attr_type_map = [a \in DOMAIN @ |-> IF a \in attrs THEN @[a] \union types ELSE @[a]],
            !.names = [e \in DOMAIN @ |->
               IF attrs \intersect TypeNames[e] # {} THEN @[e] \union types ELSE @[e]]]

\* strip_dontaudit
strip_dontaudit(d) ==
  [d EXCEPT !.av = [k \in DOMAIN @ |-> IF k[4] = "AUDITDENY" THEN Redundant(k[4]) ELSE @[k]],
            !.xp = [k \in DOMAIN @ |-> IF k[4] = "XPERMS_DONTAUDIT" THEN NoXperms ELSE @[k]]]

---------------------------------------------------------------------------
\* statement.rs and api.cpp.

\* The token HX: what follows 0x is read as a decimal number, 0 if it is none.
HexDigits(n) == <<(n \div 4096) % 16, (n \div 256) % 16, (n \div 16) % 16, n % 16>>
HX(n) ==
  LET digit == HexDigits(n) IN
  IF \E i \in 1 .. 4 : digit[i] > 9 THEN 0
  ELSE 1000 * digit[1] + 100 * digit[2] + 10 * digit[3] + digit[4]

All(reset) == <<[low |-> 0, high |-> Size * Size - 1, reset |-> reset]>>

\* parse_xperms of what is written: "*", one number, or a list of ranges
parse_xperms(w) ==
  CASE w.form = "*" -> All(FALSE)
    [] w.form = "one" -> IF HX(w.n) > 0
         THEN <<[low |-> HX(w.n), high |-> HX(w.n), reset |-> FALSE]>> ELSE All(FALSE)
    [] w.form = "list" -> [i \in DOMAIN w.ranges |->
         [low |-> HX(w.ranges[i][1]), high |-> HX(w.ranges[i][2]), reset |-> w.tilde]]

\* The numbers of an ioctl are u16.
ASSUME XpermsAssumption ==
  \A st \in Statements : st.do \in {"allowxperm", "auditallowxperm", "dontauditxperm"} =>
    parse_xperms(st.x) \in Seq([low : 0 .. Size * Size - 1, high : 0 .. Size * Size - 1,
                                reset : BOOLEAN])

ApplyRule(d, st) ==
  CASE st.do = "allow" -> add_rule(d, st, "ALLOWED", FALSE)
    [] st.do = "deny" -> add_rule(d, st, "ALLOWED", TRUE)
    [] st.do = "auditallow" -> add_rule(d, st, "AUDITALLOW", FALSE)
    [] st.do = "dontaudit" -> add_rule(d, st, "AUDITDENY", TRUE)
    [] st.do = "allowxperm" -> add_xperm_rule(d, st, parse_xperms(st.x), "XPERMS_ALLOWED")
    [] st.do = "auditallowxperm" -> add_xperm_rule(d, st, parse_xperms(st.x), "XPERMS_AUDITALLOW")
    [] st.do = "dontauditxperm" -> add_xperm_rule(d, st, parse_xperms(st.x), "XPERMS_DONTAUDIT")
    [] st.do = "permissive" -> set_type_state(d, st.s, TRUE)
    [] st.do = "enforce" -> set_type_state(d, st.s, FALSE)
    [] st.do = "typeattribute" -> add_typeattribute(d, st.s, st.a)
    [] st.do = "type" -> add_typeattribute(add_type(d, st.n, "type"), {st.n}, st.a)
    [] st.do = "attribute" -> add_type(d, st.n, "attrib")
    [] st.do = "type_transition" -> IF st.o # "" THEN d ELSE add_type_rule(d, st, "TRANSITION")
    [] st.do = "type_change" -> add_type_rule(d, st, "CHANGE")
    [] st.do = "type_member" -> add_type_rule(d, st, "MEMBER")
    [] st.do = "genfscon" -> add_genfscon(d, st)
    [] st.do = "strip_dontaudit" -> strip_dontaudit(d)

Next ==
  /\ ~crashed /\ given < MaxStatements /\ given' = given + 1
  /\ \E st \in Statements :
       /\ last' = st
       /\ crashed' = (st.do = "type_transition" /\ FilenameTransCrashes(db, st))
       /\ db' = ApplyRule(db, st)

Spec == Init /\ [][Next]_vars

---------------------------------------------------------------------------
\* What the policy means for types: a rule counts for the type or for one
\* of its attributes.
Self(d, n) == {n} \union d.type_attr_map[n]

Granted(d) ==
  {q \in Types(d) \X Types(d) \X Classes \X Bits :
     \E s \in Self(d, q[1]), t \in Self(d, q[2]) :
       q[4] \in d.av[<<s, t, q[3], "ALLOWED">>]}

\* What a statement names.  The match-all operator of a rule that is added
\* stands for every type that has an attribute, that of a rule that is
\* taken away for every type.
Covers(d, list, n, every) ==
  IF list = {} THEN every \/ d.type_attr_map[n] # {}
  ELSE list \intersect Self(d, n) # {}

Named(d, st, every) ==
  {q \in Types(d) \X Types(d) \X Classes \X Bits :
     /\ Covers(d, st.s, q[1], every) /\ Covers(d, st.t, q[2], every)
     /\ st.c = {} \/ q[3] \in st.c
     /\ IF st.p = {} THEN TRUE ELSE q[4] \in st.p \intersect ClassPerms[q[3]] /\ st.c # {}}

\* "allow" grants what it names and nothing more, although add_rule writes
\* "*" as one rule per attribute; "deny" takes away nothing it does not name,
\* and leaves nothing of what it names with "*" for source and target.
RulesExact == [][
  /\ last'.do = "allow" => Granted(db') = Granted(db) \union Named(db, last', FALSE)
  /\ last'.do = "deny" =>
       /\ Granted(db') \subseteq Granted(db)
       /\ Granted(db) \ Granted(db') \subseteq Named(db, last', TRUE)
       /\ last'.s = {} /\ last'.t = {} =>
            Granted(db') \intersect Named(db, last', TRUE) = {}]_vars

\* The bookkeeping of a new type or attribute membership is complete
\* (add_type, add_typeattribute): the two maps agree, every constraint that
\* names an attribute has its types in its names, and every type is in the
\* roles.
MembersComplete ==
  /\ \A t, a \in Names : a \in db.type_attr_map[t] <=> t \in db.attr_type_map[a]
  /\ \A t \in Names, e \in DOMAIN TypeNames :
       db.type_attr_map[t] \intersect TypeNames[e] # {} => t \in db.names[e]
  /\ Types(db) \subseteq db.roles

\* The ioctls a node lets through.
Ioctls(node) ==
  {x \in 0 .. Size * Size - 1 : \/ ioctl_driver(x) \in UNION node.driver
                                \/ ioctl_func(x) \in UNION node.func[ioctl_driver(x)]}

\* The numbers of a range; one over several drivers is taken by whole drivers.
Range16(x) ==
  IF ioctl_driver(x.low) = ioctl_driver(x.high) THEN x.low .. x.high
  ELSE {y \in 0 .. Size * Size - 1 :
          ioctl_driver(x.low) <= ioctl_driver(y) /\ ioctl_driver(y) <= ioctl_driver(x.high)}

\* A statement with one range adds exactly that range to the ioctls of every
\* key it names, whatever driver and function nodes there were; with the
\* complement exactly the rest is left, and no other key changes.
XpermsExact == [][
  last'.do = "allowxperm" /\ Len(parse_xperms(last'.x)) = 1 =>
    LET x == parse_xperms(last'.x)[1] IN
    \A k \in DOMAIN db.xp :
      IF k[4] = "XPERMS_ALLOWED" /\ k[1] \in Match(last'.s, Known(db), Attribs(db))
         /\ k[2] \in Match(last'.t, Known(db), Attribs(db))
         /\ k[3] \in Match(last'.c, Classes, Classes)
      THEN Ioctls(db'.xp[k]) = IF x.reset THEN (0 .. Size * Size - 1) \ Range16(x)
                               ELSE Ioctls(db.xp[k]) \union Range16(x)
      ELSE db'.xp[k] = db.xp[k]]_vars

=============================================================================
