---------------------------- MODULE SepolicyProofs ----------------------------
(***************************************************************************)
(* Proofs about the statements of magiskpolicy (Sepolicy), for any policy  *)
(* that is loaded, any names, classes and constraints, any size of an      *)
(* ioctl driver and any list of statements.                                *)
(***************************************************************************)
EXTENDS Sepolicy, WellFoundedInduction, TLAPS

(* Types and attributes *)

\* The parts of the policydb that the proofs look at.
Shape(d) ==
  /\ DOMAIN d = {"flavor", "type_attr_map", "attr_type_map", "names", "roles", "permissive_map",
                 "av", "te", "xp", "genfs"}
  /\ DOMAIN d.flavor = Names /\ DOMAIN d.type_attr_map = Names /\ DOMAIN d.attr_type_map = Names
  /\ DOMAIN d.names = DOMAIN TypeNames
  /\ DOMAIN d.av = Keys(AvEffects) /\ DOMAIN d.xp = Keys(XpermEffects)

\* MembersComplete of any policydb, and only attributes have members.
Members(d) ==
  /\ \A t, a \in Names : a \in d.type_attr_map[t] <=> t \in d.attr_type_map[a]
  /\ \A t \in Names, e \in DOMAIN TypeNames :
       d.type_attr_map[t] \intersect TypeNames[e] # {} => t \in d.names[e]
  /\ Types(d) \subseteq d.roles
  /\ \A n \in Names : d.type_attr_map[n] \subseteq Attribs(d)

\* A statement that says nothing about types leaves the rest as it was.
Kept(d, e) ==
  /\ DOMAIN e = DOMAIN d /\ e.flavor = d.flavor /\ e.type_attr_map = d.type_attr_map
  /\ e.attr_type_map = d.attr_type_map /\ e.names = d.names /\ e.roles = d.roles
  /\ DOMAIN e.av = DOMAIN d.av /\ DOMAIN e.xp = DOMAIN d.xp

\* ... so that it keeps the invariant.
LEMMA KeptMembers ==
  ASSUME NEW d, NEW e, Shape(d), Members(d), Kept(d, e)
  PROVE  Shape(e) /\ Members(e)
<1>1. Shape(e)
  BY DEF Shape, Kept
<1>2. Types(e) = Types(d) /\ Attribs(e) = Attribs(d)
  BY DEF Kept, Types, Attribs
<1>3. Members(e)
  BY <1>2 DEF Members, Kept
<1> QED BY <1>1, <1>3

\* add_rule says nothing about types.
LEMMA RuleKept ==
  ASSUME NEW d, Shape(d), NEW st, NEW effect, NEW invert
  PROVE  Kept(d, add_rule(d, st, effect, invert))
<1> DEFINE f == [k \in DOMAIN d.av |->
             LET strip == (effect = "AUDITDENY") = ~invert
                 all == IF strip THEN Known(d) ELSE Attribs(d)
                 hit == Match(st.s, Known(d), all) \X Match(st.t, Known(d), all)
                          \X Match(st.c, Classes, Classes) \X {effect}
                 mask(c) == IF st.p = {} THEN Bits ELSE st.p \intersect ClassPerms[c]
             IN IF k \notin hit THEN d.av[k]
                ELSE IF invert THEN d.av[k] \ mask(k[3]) ELSE d.av[k] \union mask(k[3])]
<1>1. \/ add_rule(d, st, effect, invert) = d
      \/ add_rule(d, st, effect, invert) = [d EXCEPT !.av = f]
  BY DEF add_rule
<1>2. DOMAIN f = DOMAIN d.av
  OBVIOUS
<1> HIDE DEF f
<1> QED BY <1>1, <1>2 DEF Kept, Shape

\* Neither does add_xperm_rule.
LEMMA XpermKept ==
  ASSUME NEW d, Shape(d), NEW st, NEW xs, NEW effect
  PROVE  Kept(d, add_xperm_rule(d, st, xs, effect))
<1> DEFINE hit == Match(st.s, Known(d), Attribs(d)) \X Match(st.t, Known(d), Attribs(d))
                    \X Match(st.c, Classes, Classes) \X {effect}
           f == [k \in DOMAIN d.xp |-> IF k \in hit THEN FoldLeft(add_xperm, d.xp[k], xs) ELSE d.xp[k]]
<1>1. add_xperm_rule(d, st, xs, effect) = [d EXCEPT !.xp = f]
  BY DEF add_xperm_rule
<1>2. DOMAIN f = DOMAIN d.xp
  OBVIOUS
<1> HIDE DEF f
<1> QED BY <1>1, <1>2 DEF Kept, Shape

\* Nor add_type_rule, add_genfscon, set_type_state and strip_dontaudit.
LEMMA OthersKept ==
  ASSUME NEW d, Shape(d), NEW st
  PROVE  /\ \A effect : Kept(d, add_type_rule(d, st, effect))
         /\ Kept(d, add_genfscon(d, st))
         /\ \A list, permissive : Kept(d, set_type_state(d, list, permissive))
         /\ Kept(d, strip_dontaudit(d))
<1>1. \A effect : Kept(d, add_type_rule(d, st, effect))
  BY DEF add_type_rule, Kept, Shape
<1>2. Kept(d, add_genfscon(d, st))
  BY DEF add_genfscon, Kept, Shape
<1>3. \A list, permissive : Kept(d, set_type_state(d, list, permissive))
  BY DEF set_type_state, Kept, Shape
<1>4. Kept(d, strip_dontaudit(d))
  <2> DEFINE f == [k \in DOMAIN d.av |-> IF k[4] = "AUDITDENY" THEN Redundant(k[4]) ELSE d.av[k]]
             g == [k \in DOMAIN d.xp |-> IF k[4] = "XPERMS_DONTAUDIT" THEN NoXperms ELSE d.xp[k]]
  <2>1. strip_dontaudit(d) = [d EXCEPT !.av = f, !.xp = g]
    BY DEF strip_dontaudit
  <2>2. DOMAIN f = DOMAIN d.av /\ DOMAIN g = DOMAIN d.xp
    OBVIOUS
  <2> HIDE DEF f, g
  <2> QED BY <2>1, <2>2 DEF Kept, Shape
<1> QED BY <1>1, <1>2, <1>3, <1>4


\* A type or attribute that add_type declares is in every role and has no members.
LEMMA TypeAdded ==
  ASSUME NEW d, Shape(d), Members(d), NEW n, NEW flavor \in {"type", "attrib"}
  PROVE  Shape(add_type(d, n, flavor)) /\ Members(add_type(d, n, flavor))
<1> DEFINE e == add_type(d, n, flavor)
<1>1. CASE n \in Known(d)
  BY <1>1 DEF add_type
<1>2. CASE n \notin Known(d)
  <2>1. e = [d EXCEPT !.flavor[n] = flavor, !.roles = @ \union {n}]
    BY <1>2 DEF add_type
  <2> HIDE DEF e
  <2>2. /\ DOMAIN e = DOMAIN d /\ e.type_attr_map = d.type_attr_map
        /\ e.attr_type_map = d.attr_type_map /\ e.names = d.names /\ e.av = d.av /\ e.xp = d.xp
        /\ e.roles = d.roles \union {n} /\ e.flavor = [d.flavor EXCEPT ![n] = flavor]
    BY <2>1 DEF Shape
  <2>3. Shape(e)
    BY <2>2 DEF Shape
  <2>4. Types(e) \subseteq Types(d) \union {n}
    BY <2>2 DEF Types, Shape
  <2>5. Attribs(d) \subseteq Attribs(e)
    BY <1>2, <2>2 DEF Attribs, Known, Shape
  <2>6. Members(e)
    BY <2>2, <2>4, <2>5 DEF Members
  <2> QED BY <2>3, <2>6 DEF e
<1> QED BY <1>1, <1>2

\* add_typeattribute enters a membership into both maps and into every constraint that
\* names the attribute.
LEMMA MembersAdded ==
  ASSUME NEW d, Shape(d), Members(d), NEW list, NEW attributes
  PROVE  Shape(add_typeattribute(d, list, attributes)) /\ Members(add_typeattribute(d, list, attributes))
<1> DEFINE types == list \intersect Types(d)
           attrs == attributes \intersect Attribs(d)
           tam == [t \in DOMAIN d.type_attr_map |->
                     IF t \in types THEN d.type_attr_map[t] \union attrs ELSE d.type_attr_map[t]]
           atm == [a \in DOMAIN d.attr_type_map |->
                     IF a \in attrs THEN d.attr_type_map[a] \union types ELSE d.attr_type_map[a]]
           names == [e \in DOMAIN d.names |->
                       IF attrs \intersect TypeNames[e] # {} THEN d.names[e] \union types ELSE d.names[e]]
           new == add_typeattribute(d, list, attributes)
<1>1. new = [d EXCEPT !.type_attr_map = tam, !.attr_type_map = atm, !.names = names]
  BY DEF add_typeattribute
<1> HIDE DEF new
<1>2. /\ DOMAIN new = DOMAIN d /\ new.type_attr_map = tam /\ new.attr_type_map = atm /\ new.names = names
      /\ new.flavor = d.flavor /\ new.roles = d.roles /\ new.av = d.av /\ new.xp = d.xp
  <2> HIDE DEF tam, atm, names
  <2> QED BY <1>1 DEF Shape
<1>3. Shape(new)
  BY <1>2 DEF Shape
<1>4. Types(new) = Types(d) /\ Attribs(new) = Attribs(d)
  BY <1>2 DEF Types, Attribs
<1>5. /\ \A t \in Names : new.type_attr_map[t] =
            IF t \in types THEN d.type_attr_map[t] \union attrs ELSE d.type_attr_map[t]
      /\ \A a \in Names : new.attr_type_map[a] =
            IF a \in attrs THEN d.attr_type_map[a] \union types ELSE d.attr_type_map[a]
      /\ \A e \in DOMAIN TypeNames : new.names[e] =
            IF attrs \intersect TypeNames[e] # {} THEN d.names[e] \union types ELSE d.names[e]
  BY <1>2 DEF Shape
<1>6. types \subseteq Types(d) /\ attrs \subseteq Attribs(d)
  OBVIOUS
<1> HIDE DEF types, attrs, tam, atm, names
<1>7. \A t, a \in Names : a \in new.type_attr_map[t] <=> t \in new.attr_type_map[a]
  <2> TAKE t \in Names, a \in Names
  <2>1. a \in d.type_attr_map[t] <=> t \in d.attr_type_map[a]
    BY DEF Members
  <2>2. a \in new.type_attr_map[t] <=> a \in d.type_attr_map[t] \/ (t \in types /\ a \in attrs)
    BY <1>5
  <2>3. t \in new.attr_type_map[a] <=> t \in d.attr_type_map[a] \/ (t \in types /\ a \in attrs)
    BY <1>5
  <2> QED BY <2>1, <2>2, <2>3
<1>8. \A t \in Names, e \in DOMAIN TypeNames :
        new.type_attr_map[t] \intersect TypeNames[e] # {} => t \in new.names[e]
  BY <1>5 DEF Members
<1>9. \A n \in Names : new.type_attr_map[n] \subseteq Attribs(new)
  BY <1>4, <1>5, <1>6 DEF Members
<1>10. Members(new)
  BY <1>2, <1>4, <1>7, <1>8, <1>9 DEF Members
<1> QED BY <1>3, <1>10 DEF new

\* One statement.
LEMMA Applied ==
  ASSUME Shape(db), Members(db), NEW st \in Statements
  PROVE  Shape(ApplyRule(db, st)) /\ Members(ApplyRule(db, st))
<1> DEFINE e == ApplyRule(db, st)
<1>1. \/ \E effect, invert : e = add_rule(db, st, effect, invert)
      \/ \E xs, effect : e = add_xperm_rule(db, st, xs, effect)
      \/ \E permissive : e = set_type_state(db, st.s, permissive)
      \/ e = add_typeattribute(db, st.s, st.a)
      \/ e = add_typeattribute(add_type(db, st.n, "type"), {st.n}, st.a)
      \/ e = add_type(db, st.n, "attrib")
      \/ e = db
      \/ \E effect : e = add_type_rule(db, st, effect)
      \/ e = add_genfscon(db, st)
      \/ e = strip_dontaudit(db)
  BY KindsAssumption DEF ApplyRule
<1> HIDE DEF e
<1>2. Kept(db, e) => Shape(e) /\ Members(e)
  BY KeptMembers
<1>3. (\E effect, invert : e = add_rule(db, st, effect, invert)) => Kept(db, e)
  BY RuleKept
<1>4. (\E xs, effect : e = add_xperm_rule(db, st, xs, effect)) => Kept(db, e)
  BY XpermKept
<1>5. \/ \E permissive : e = set_type_state(db, st.s, permissive)
      \/ \E effect : e = add_type_rule(db, st, effect)
      \/ e = add_genfscon(db, st)
      \/ e = strip_dontaudit(db)
      => Kept(db, e)
  BY OthersKept
<1>6. e = add_typeattribute(db, st.s, st.a) => Shape(e) /\ Members(e)
  BY MembersAdded
<1>7. e = add_type(db, st.n, "attrib") => Shape(e) /\ Members(e)
  BY TypeAdded
<1>8. e = add_typeattribute(add_type(db, st.n, "type"), {st.n}, st.a) => Shape(e) /\ Members(e)
  <2>1. Shape(add_type(db, st.n, "type")) /\ Members(add_type(db, st.n, "type"))
    BY TypeAdded
  <2> QED BY <2>1, MembersAdded
<1> QED BY <1>1, <1>2, <1>3, <1>4, <1>5, <1>6, <1>7, <1>8 DEF e

\* The maps of types and attributes agree after any list of statements.
THEOREM PolicyInvariant == Spec => [](Shape(db) /\ Members(db))
<1>1. Init => Shape(db) /\ Members(db)
  <2> SUFFICES ASSUME Init PROVE Shape(db) /\ Members(db)
    OBVIOUS
  <2> QED BY AttrsAssumption DEF Init, Shape, Members, Types, Attribs
<1>2. Shape(db) /\ Members(db) /\ [Next]_vars => (Shape(db) /\ Members(db))'
  <2> SUFFICES ASSUME Shape(db), Members(db), [Next]_vars PROVE Shape(db') /\ Members(db')
    OBVIOUS
  <2>1. CASE Next
    BY <2>1, Applied DEF Next
  <2>2. CASE UNCHANGED vars
    BY <2>2 DEF vars
  <2> QED BY <2>1, <2>2
<1> QED BY <1>1, <1>2, PTL DEF Spec

\* The bookkeeping of add_type and add_typeattribute is complete, for every policy and
\* every list of statements.
THEOREM MembersAreComplete == Spec => []MembersComplete
<1>1. Members(db) => MembersComplete
  BY DEF Members, MembersComplete
<1> QED BY <1>1, PolicyInvariant, PTL

-----------------------------------------------------------------------------
(* What "allow" and "deny" grant *)

\* The permissions a statement is about.
Mask(st, c) == IF st.p = {} THEN Bits ELSE st.p \intersect ClassPerms[c]
\* The rules it writes, or takes away.
Hit(d, st, all) ==
  Match(st.s, Known(d), all) \X Match(st.t, Known(d), all) \X Match(st.c, Classes, Classes)

\* What "allow" adds to one node of the avtab ...
LEMMA AllowWrites ==
  ASSUME NEW d, Shape(d), NEW st, ~(st.c = {} /\ st.p # {}), NEW s \in Names, NEW t \in Names,
         NEW c \in Classes, NEW b
  PROVE  b \in add_rule(d, st, "ALLOWED", FALSE).av[<<s, t, c, "ALLOWED">>] <=>
           \/ b \in d.av[<<s, t, c, "ALLOWED">>]
           \/ <<s, t, c>> \in Hit(d, st, Attribs(d)) /\ b \in Mask(st, c)
<1> DEFINE hit == Match(st.s, Known(d), Attribs(d)) \X Match(st.t, Known(d), Attribs(d))
                    \X Match(st.c, Classes, Classes) \X {"ALLOWED"}
           f == [k \in DOMAIN d.av |-> IF k \notin hit THEN d.av[k] ELSE d.av[k] \union Mask(st, k[3])]
           k0 == <<s, t, c, "ALLOWED">>
<1>1. add_rule(d, st, "ALLOWED", FALSE) = [d EXCEPT !.av = f]
  BY DEF add_rule, Mask
<1>2. k0 \in DOMAIN d.av
  BY DEF Shape, Keys, AvEffects
<1>3. k0 \in hit <=> <<s, t, c>> \in Hit(d, st, Attribs(d))
  BY DEF Hit
<1>4. f[k0] = IF k0 \notin hit THEN d.av[k0] ELSE d.av[k0] \union Mask(st, c)
  BY <1>2
<1> HIDE DEF f, hit, k0
<1>5. add_rule(d, st, "ALLOWED", FALSE).av = f
  BY <1>1 DEF Shape
<1> QED BY <1>3, <1>4, <1>5 DEF k0

\* ... and what "deny" takes from it.
LEMMA DenyTakes ==
  ASSUME NEW d, Shape(d), NEW st, ~(st.c = {} /\ st.p # {}), NEW s \in Names, NEW t \in Names,
         NEW c \in Classes, NEW b
  PROVE  b \in add_rule(d, st, "ALLOWED", TRUE).av[<<s, t, c, "ALLOWED">>] <=>
           /\ b \in d.av[<<s, t, c, "ALLOWED">>]
           /\ ~(<<s, t, c>> \in Hit(d, st, Known(d)) /\ b \in Mask(st, c))
<1> DEFINE hit == Match(st.s, Known(d), Known(d)) \X Match(st.t, Known(d), Known(d))
                    \X Match(st.c, Classes, Classes) \X {"ALLOWED"}
           f == [k \in DOMAIN d.av |-> IF k \notin hit THEN d.av[k] ELSE d.av[k] \ Mask(st, k[3])]
           k0 == <<s, t, c, "ALLOWED">>
<1>1. add_rule(d, st, "ALLOWED", TRUE) = [d EXCEPT !.av = f]
  BY DEF add_rule, Mask
<1>2. k0 \in DOMAIN d.av
  BY DEF Shape, Keys, AvEffects
<1>3. k0 \in hit <=> <<s, t, c>> \in Hit(d, st, Known(d))
  BY DEF Hit
<1>4. f[k0] = IF k0 \notin hit THEN d.av[k0] ELSE d.av[k0] \ Mask(st, c)
  BY <1>2
<1> HIDE DEF f, hit, k0
<1>5. add_rule(d, st, "ALLOWED", TRUE).av = f
  BY <1>1 DEF Shape
<1> QED BY <1>3, <1>4, <1>5 DEF k0

\* A list names a type when it names the type or one of its attributes.
LEMMA SelfHit ==
  ASSUME NEW d, Shape(d), Members(d), NEW n \in Types(d), NEW list
  PROVE  /\ Self(d, n) \subseteq Names /\ Self(d, n) \subseteq Known(d)
         /\ Covers(d, list, n, FALSE) <=> \E s \in Self(d, n) : s \in Match(list, Known(d), Attribs(d))
         /\ \A s \in Self(d, n) : s \in Match(list, Known(d), Known(d)) => Covers(d, list, n, TRUE)
<1>1. n \in Names /\ n \notin Attribs(d) /\ d.type_attr_map[n] \subseteq Attribs(d)
  BY DEF Types, Attribs, Members
<1>2. Self(d, n) \subseteq Names /\ Self(d, n) \subseteq Known(d)
  BY <1>1 DEF Self, Attribs, Types, Known
<1>3. Covers(d, list, n, FALSE) <=> \E s \in Self(d, n) : s \in Match(list, Known(d), Attribs(d))
  <2>1. CASE list = {}
    BY <1>1, <2>1 DEF Covers, Match, Self
  <2>2. CASE list # {}
    BY <1>2, <2>2 DEF Covers, Match
  <2> QED BY <2>1, <2>2
<1>4. \A s \in Self(d, n) : s \in Match(list, Known(d), Known(d)) => Covers(d, list, n, TRUE)
  BY DEF Covers, Match
<1> QED BY <1>2, <1>3, <1>4

\* Granted and Named, pointwise.
LEMMA GrantedIs ==
  ASSUME NEW d, NEW n \in Types(d), NEW m \in Types(d), NEW c \in Classes, NEW b \in Bits
  PROVE  <<n, m, c, b>> \in Granted(d) <=>
           \E s \in Self(d, n), t \in Self(d, m) : b \in d.av[<<s, t, c, "ALLOWED">>]
  BY DEF Granted

\* The same for what a statement names.
LEMMA NamedIs ==
  ASSUME NEW d, NEW st, NEW every, NEW n \in Types(d), NEW m \in Types(d), NEW c \in Classes, NEW b \in Bits
  PROVE  <<n, m, c, b>> \in Named(d, st, every) <=>
           /\ Covers(d, st.s, n, every) /\ Covers(d, st.t, m, every)
           /\ st.c = {} \/ c \in st.c
           /\ IF st.p = {} THEN TRUE ELSE b \in st.p \intersect ClassPerms[c] /\ st.c # {}
  BY DEF Named

\* "allow" grants what it names: as every attribute of a type stands for it, "*" reaches
\* the types that have one.
LEMMA AllowExact ==
  ASSUME NEW d, Shape(d), Members(d), NEW st
  PROVE  Granted(add_rule(d, st, "ALLOWED", FALSE)) = Granted(d) \union Named(d, st, FALSE)
<1> DEFINE e == add_rule(d, st, "ALLOWED", FALSE)
<1>1. CASE st.c = {} /\ st.p # {}
  <2>1. e = d
    BY <1>1 DEF add_rule
  <2>2. Named(d, st, FALSE) = {}
    BY <1>1 DEF Named
  <2> QED BY <2>1, <2>2
<1>2. CASE ~(st.c = {} /\ st.p # {})
  <2>1. Types(e) = Types(d) /\ \A n : Self(e, n) = Self(d, n)
    <3>1. Kept(d, e)
      BY RuleKept
    <3> HIDE DEF e
    <3> QED BY <3>1 DEF Kept, Types, Self
  <2>2. ASSUME NEW n \in Types(d), NEW m \in Types(d), NEW c \in Classes, NEW b \in Bits
        PROVE  <<n, m, c, b>> \in Granted(e) <=>
                 <<n, m, c, b>> \in Granted(d) \/ <<n, m, c, b>> \in Named(d, st, FALSE)
    <3>1. \A s \in Self(d, n), t \in Self(d, m) :
            b \in e.av[<<s, t, c, "ALLOWED">>] <=>
              \/ b \in d.av[<<s, t, c, "ALLOWED">>]
              \/ <<s, t, c>> \in Hit(d, st, Attribs(d)) /\ b \in Mask(st, c)
      BY <1>2, AllowWrites, SelfHit
    <3>2. <<n, m, c, b>> \in Granted(e) <=>
            \E s \in Self(d, n), t \in Self(d, m) : b \in e.av[<<s, t, c, "ALLOWED">>]
      <4> HIDE DEF e
      <4>1. n \in Types(e) /\ m \in Types(e)
        BY <2>1
      <4>2. Self(e, n) = Self(d, n) /\ Self(e, m) = Self(d, m)
        BY <2>1
      <4>3. <<n, m, c, b>> \in Granted(e) <=>
              \E s \in Self(e, n), t \in Self(e, m) : b \in e.av[<<s, t, c, "ALLOWED">>]
        BY <4>1, GrantedIs
      <4> QED BY <4>2, <4>3
    <3>3. <<n, m, c, b>> \in Granted(d) <=>
            \E s \in Self(d, n), t \in Self(d, m) : b \in d.av[<<s, t, c, "ALLOWED">>]
      BY GrantedIs
    <3>4. <<n, m, c, b>> \in Named(d, st, FALSE) <=>
            /\ \E s \in Self(d, n) : s \in Match(st.s, Known(d), Attribs(d))
            /\ \E t \in Self(d, m) : t \in Match(st.t, Known(d), Attribs(d))
            /\ c \in Match(st.c, Classes, Classes) /\ b \in Mask(st, c)
      <4>1. /\ Covers(d, st.s, n, FALSE) <=> \E s \in Self(d, n) : s \in Match(st.s, Known(d), Attribs(d))
            /\ Covers(d, st.t, m, FALSE) <=> \E t \in Self(d, m) : t \in Match(st.t, Known(d), Attribs(d))
        BY SelfHit
      <4>2. /\ st.c = {} \/ c \in st.c <=> c \in Match(st.c, Classes, Classes)
            /\ (IF st.p = {} THEN TRUE ELSE b \in st.p \intersect ClassPerms[c] /\ st.c # {})
                 <=> b \in Mask(st, c)
        BY <1>2 DEF Match, Mask
      <4> QED BY <4>1, <4>2, NamedIs
    <3> HIDE DEF e
    <3> QED BY <3>1, <3>2, <3>3, <3>4 DEF Hit
  <2>3. /\ Granted(e) \subseteq Types(d) \X Types(d) \X Classes \X Bits
        /\ Granted(d) \union Named(d, st, FALSE) \subseteq Types(d) \X Types(d) \X Classes \X Bits
    BY <2>1 DEF Granted, Named
  <2> HIDE DEF e
  <2>4. ASSUME NEW q \in Types(d) \X Types(d) \X Classes \X Bits
        PROVE  q \in Granted(e) <=> q \in Granted(d) \/ q \in Named(d, st, FALSE)
    <3>1. q = <<q[1], q[2], q[3], q[4]>> /\ q[1] \in Types(d) /\ q[2] \in Types(d)
          /\ q[3] \in Classes /\ q[4] \in Bits
      BY <2>4
    <3> QED BY <2>2, <3>1
  <2>5. Granted(e) = Granted(d) \union Named(d, st, FALSE)
    BY <2>3, <2>4
  <2> QED BY <2>5 DEF e
<1> QED BY <1>1, <1>2 DEF e

\* "deny" takes away nothing else, and with "*" for both leaves nothing.
LEMMA DenyExact ==
  ASSUME NEW d, Shape(d), Members(d), NEW st
  PROVE  LET e == add_rule(d, st, "ALLOWED", TRUE) IN
         /\ Granted(e) \subseteq Granted(d)
         /\ Granted(d) \ Granted(e) \subseteq Named(d, st, TRUE)
         /\ st.s = {} /\ st.t = {} => Granted(e) \intersect Named(d, st, TRUE) = {}
<1> DEFINE e == add_rule(d, st, "ALLOWED", TRUE)
<1>1. CASE st.c = {} /\ st.p # {}
  <2>1. e = d
    BY <1>1 DEF add_rule
  <2>2. Named(d, st, TRUE) = {}
    BY <1>1 DEF Named
  <2> QED BY <2>1, <2>2
<1>2. CASE ~(st.c = {} /\ st.p # {})
  <2>1. Types(e) = Types(d) /\ \A n : Self(e, n) = Self(d, n)
    <3>1. Kept(d, e)
      BY RuleKept
    <3> HIDE DEF e
    <3> QED BY <3>1 DEF Kept, Types, Self
  <2>2. ASSUME NEW n \in Types(d), NEW m \in Types(d), NEW c \in Classes, NEW b \in Bits
        PROVE  /\ <<n, m, c, b>> \in Granted(e) => <<n, m, c, b>> \in Granted(d)
               /\ <<n, m, c, b>> \in Granted(d) /\ <<n, m, c, b>> \notin Granted(e) =>
                    <<n, m, c, b>> \in Named(d, st, TRUE)
               /\ st.s = {} /\ st.t = {} /\ <<n, m, c, b>> \in Named(d, st, TRUE) =>
                    <<n, m, c, b>> \notin Granted(e)
    <3>1. \A s \in Self(d, n), t \in Self(d, m) :
            b \in e.av[<<s, t, c, "ALLOWED">>] <=>
              /\ b \in d.av[<<s, t, c, "ALLOWED">>]
              /\ ~(<<s, t, c>> \in Hit(d, st, Known(d)) /\ b \in Mask(st, c))
      BY <1>2, DenyTakes, SelfHit
    <3>2. <<n, m, c, b>> \in Granted(e) <=>
            \E s \in Self(d, n), t \in Self(d, m) : b \in e.av[<<s, t, c, "ALLOWED">>]
      <4> HIDE DEF e
      <4>1. n \in Types(e) /\ m \in Types(e)
        BY <2>1
      <4>2. Self(e, n) = Self(d, n) /\ Self(e, m) = Self(d, m)
        BY <2>1
      <4>3. <<n, m, c, b>> \in Granted(e) <=>
              \E s \in Self(e, n), t \in Self(e, m) : b \in e.av[<<s, t, c, "ALLOWED">>]
        BY <4>1, GrantedIs
      <4> QED BY <4>2, <4>3
    <3>3. <<n, m, c, b>> \in Granted(d) <=>
            \E s \in Self(d, n), t \in Self(d, m) : b \in d.av[<<s, t, c, "ALLOWED">>]
      BY GrantedIs
    <3>4. <<n, m, c, b>> \in Named(d, st, TRUE) <=>
            /\ Covers(d, st.s, n, TRUE) /\ Covers(d, st.t, m, TRUE)
            /\ c \in Match(st.c, Classes, Classes) /\ b \in Mask(st, c)
      <4>1. /\ st.c = {} \/ c \in st.c <=> c \in Match(st.c, Classes, Classes)
            /\ (IF st.p = {} THEN TRUE ELSE b \in st.p \intersect ClassPerms[c] /\ st.c # {})
                 <=> b \in Mask(st, c)
        BY <1>2 DEF Match, Mask
      <4> QED BY <4>1, NamedIs
    <3>5. /\ \A s \in Self(d, n) : s \in Match(st.s, Known(d), Known(d)) => Covers(d, st.s, n, TRUE)
          /\ \A t \in Self(d, m) : t \in Match(st.t, Known(d), Known(d)) => Covers(d, st.t, m, TRUE)
          /\ Self(d, n) \subseteq Known(d) /\ Self(d, m) \subseteq Known(d)
      BY SelfHit
    <3>6. /\ st.s = {} => Match(st.s, Known(d), Known(d)) = Known(d)
          /\ st.t = {} => Match(st.t, Known(d), Known(d)) = Known(d)
      BY DEF Match
    <3> HIDE DEF e
    <3>7. <<n, m, c, b>> \in Granted(e) => <<n, m, c, b>> \in Granted(d)
      BY <3>1, <3>2, <3>3
    <3>8. <<n, m, c, b>> \in Granted(d) /\ <<n, m, c, b>> \notin Granted(e) =>
            <<n, m, c, b>> \in Named(d, st, TRUE)
      BY <3>1, <3>2, <3>3, <3>4, <3>5 DEF Hit
    <3>9. st.s = {} /\ st.t = {} /\ <<n, m, c, b>> \in Named(d, st, TRUE) => <<n, m, c, b>> \notin Granted(e)
      <4> SUFFICES ASSUME st.s = {}, st.t = {}, <<n, m, c, b>> \in Named(d, st, TRUE),
                          NEW s \in Self(d, n), NEW t \in Self(d, m)
                   PROVE  b \notin e.av[<<s, t, c, "ALLOWED">>]
        BY <3>2
      <4>1. <<s, t, c>> \in Hit(d, st, Known(d))
        BY <3>4, <3>5, <3>6 DEF Hit
      <4>2. b \in Mask(st, c)
        BY <3>4
      <4> QED BY <3>1, <4>1, <4>2
    <3> QED BY <3>7, <3>8, <3>9
  <2>3. /\ Granted(e) \subseteq Types(d) \X Types(d) \X Classes \X Bits
        /\ Granted(d) \subseteq Types(d) \X Types(d) \X Classes \X Bits
    BY <2>1 DEF Granted
  <2> HIDE DEF e
  <2>4. ASSUME NEW q \in Types(d) \X Types(d) \X Classes \X Bits
        PROVE  /\ q \in Granted(e) => q \in Granted(d)
               /\ q \in Granted(d) /\ q \notin Granted(e) => q \in Named(d, st, TRUE)
               /\ st.s = {} /\ st.t = {} /\ q \in Named(d, st, TRUE) => q \notin Granted(e)
    <3>1. q = <<q[1], q[2], q[3], q[4]>> /\ q[1] \in Types(d) /\ q[2] \in Types(d)
          /\ q[3] \in Classes /\ q[4] \in Bits
      BY <2>4
    <3>2. /\ <<q[1], q[2], q[3], q[4]>> \in Granted(e) => <<q[1], q[2], q[3], q[4]>> \in Granted(d)
          /\ <<q[1], q[2], q[3], q[4]>> \in Granted(d) /\ <<q[1], q[2], q[3], q[4]>> \notin Granted(e) =>
               <<q[1], q[2], q[3], q[4]>> \in Named(d, st, TRUE)
          /\ st.s = {} /\ st.t = {} /\ <<q[1], q[2], q[3], q[4]>> \in Named(d, st, TRUE) =>
               <<q[1], q[2], q[3], q[4]>> \notin Granted(e)
      BY <2>2, <3>1
    <3> QED BY <3>1, <3>2
  <2>5. /\ Granted(e) \subseteq Granted(d)
        /\ Granted(d) \ Granted(e) \subseteq Named(d, st, TRUE)
        /\ st.s = {} /\ st.t = {} => Granted(e) \intersect Named(d, st, TRUE) = {}
    BY <2>3, <2>4
  <2> QED BY <2>5 DEF e
<1> QED BY <1>1, <1>2 DEF e

\* add_rule is exact for every policy, every set of types, attributes and classes, and
\* every list of statements: "allow" grants what it names and no more, "deny" takes away
\* only what it names.
THEOREM RulesAreExact == Spec => RulesExact
<1>1. ASSUME Shape(db), Members(db), Next
      PROVE  /\ last'.do = "allow" => Granted(db') = Granted(db) \union Named(db, last', FALSE)
             /\ last'.do = "deny" =>
                  /\ Granted(db') \subseteq Granted(db)
                  /\ Granted(db) \ Granted(db') \subseteq Named(db, last', TRUE)
                  /\ last'.s = {} /\ last'.t = {} =>
                       Granted(db') \intersect Named(db, last', TRUE) = {}
  <2>1. PICK st \in Statements : last' = st /\ db' = ApplyRule(db, st)
    BY <1>1 DEF Next
  <2>2. st.do = "allow" => db' = add_rule(db, st, "ALLOWED", FALSE)
    BY <2>1 DEF ApplyRule
  <2>3. st.do = "deny" => db' = add_rule(db, st, "ALLOWED", TRUE)
    BY <2>1 DEF ApplyRule
  <2>4. st.do = "allow" => Granted(db') = Granted(db) \union Named(db, st, FALSE)
    BY <1>1, <2>2, AllowExact
  <2>5. st.do = "deny" =>
          /\ Granted(db') \subseteq Granted(db)
          /\ Granted(db) \ Granted(db') \subseteq Named(db, st, TRUE)
          /\ st.s = {} /\ st.t = {} => Granted(db') \intersect Named(db, st, TRUE) = {}
    BY <1>1, <2>3, DenyExact
  <2> QED BY <2>1, <2>4, <2>5
<1>2. Spec => [][Next /\ Shape(db) /\ Members(db)]_vars
  BY PolicyInvariant, PTL DEF Spec
<1> QED BY <1>1, <1>2, PTL DEF RulesExact
-----------------------------------------------------------------------------
(* Induction over sets of numbers *)

\* A set of natural numbers that is not empty has a least element.
LEMMA LeastNat ==
  ASSUME NEW T \in SUBSET Nat, T # {}
  PROVE  \E m \in T : \A k \in T : m <= k
<1> DEFINE R == {ss \in Nat \X Nat : ss[1] < ss[2]}
<1>1. IsWellFoundedOn(R, Nat)
  BY NatLessThanWellFounded DEF OpToRel
<1>2. \A x, y \in Nat : <<x, y>> \in R <=> x < y
  OBVIOUS
<1> HIDE DEF R
<1>3. PICK x \in T : \A y \in T : ~(<<y, x>> \in R)
  BY <1>1, WFMin
<1>4. \A k \in T : x <= k
  <2> TAKE k \in T
  <2>1. k \in Nat /\ x \in Nat
    OBVIOUS
  <2>2. ~(k < x)
    BY <1>2, <1>3, <2>1
  <2> QED BY <2>1, <2>2
<1> QED BY <1>4

\* Induction: a set with 0 and with the successor of each of its numbers has them all.
LEMMA SetInduction ==
  ASSUME NEW T, 0 \in T, \A n \in Nat : n \in T => n + 1 \in T
  PROVE  Nat \subseteq T
<1> SUFFICES ASSUME Nat \ T # {} PROVE FALSE
  OBVIOUS
<1>1. PICK m \in Nat \ T : \A k \in Nat \ T : m <= k
  BY LeastNat
<1>2. m - 1 \in Nat /\ m - 1 \in T
  BY <1>1
<1> QED BY <1>1, <1>2
-----------------------------------------------------------------------------
(* The ranges of an xperm statement, one after the other *)

\* Max of FiniteSetsExt, which FoldLeft takes the indexes with, is the largest of them.
LEMMA MaxIs ==
  ASSUME NEW n \in Nat, NEW s \in SUBSET (1 .. n), s # {}
  PROVE  Max(s) \in s /\ \A y \in s : Max(s) >= y
<1> DEFINE T == {k \in Nat : \A y \in s : k >= y}
<1>1. n \in T
  OBVIOUS
<1>2. PICK m \in T : \A k \in T : m <= k
  <2> HIDE DEF T
  <2>1. T \in SUBSET Nat
    BY DEF T
  <2> QED BY <1>1, <2>1, LeastNat
<1>3. m \in Nat /\ \A y \in s : m >= y
  OBVIOUS
<1>4. m \in s
  <2> SUFFICES ASSUME m \notin s PROVE FALSE
    OBVIOUS
  <2>1. PICK z \in s : TRUE
    OBVIOUS
  <2>2. z \in Nat /\ z >= 1 /\ m >= z /\ m # z
    BY <1>3
  <2>3. m - 1 \in Nat
    BY <1>3, <2>2
  <2>4. \A y \in s : m - 1 >= y
    <3> TAKE y \in s
    <3>1. y \in Nat /\ m >= y /\ m # y
      BY <1>3
    <3> QED BY <1>3, <3>1
  <2>5. m <= m - 1
    BY <1>2, <2>3, <2>4
  <2> QED BY <1>3, <2>5
<1> QED BY <1>3, <1>4 DEF Max

\* One step of FoldLeft(add_xperm, node, xs), over the indexes in s.
FoldStep(node, xs, g, s) ==
  IF s = {} THEN node ELSE add_xperm(g[s \ {Max(s)}], xs[Max(s)])

\* g is that fold, over the first n ranges.
Folds(node, xs, n, g) == g = [s \in SUBSET (1 .. n) |-> FoldStep(node, xs, g, s)]

\* The recursive function that FoldLeft is defined by exists: by induction over n.
LEMMA FoldExists ==
  ASSUME NEW node, NEW xs, NEW n \in Nat
  PROVE  \E g : Folds(node, xs, n, g)
<1> DEFINE T == {k \in Nat : \E g : Folds(node, xs, k, g)}
<1>1. 0 \in T
  <2> DEFINE g == [s \in SUBSET (1 .. 0) |-> node]
  <2>1. 1 .. 0 = {}
    OBVIOUS
  <2>2. Folds(node, xs, 0, g)
    BY <2>1 DEF Folds, FoldStep
  <2> QED BY <2>2
<1>2. ASSUME NEW k \in Nat, k \in T PROVE k + 1 \in T
  <2>1. PICK g : Folds(node, xs, k, g)
    BY <1>2
  <2> DEFINE m == k + 1
             h == [s \in SUBSET (1 .. m) |->
                     IF m \in s THEN add_xperm(g[s \ {m}], xs[m]) ELSE g[s]]
  <2>2. ASSUME NEW s \in SUBSET (1 .. m)
        PROVE  h[s] = FoldStep(node, xs, h, s)
    <3>1. CASE m \in s
      <4>1. Max(s) = m
        <5>1. m \in Nat /\ s # {}
          BY <3>1
        <5>2. Max(s) \in s /\ Max(s) >= m
          BY <3>1, <5>1, MaxIs
        <5>3. Max(s) \in 1 .. m
          BY <5>2
        <5> QED BY <5>1, <5>2, <5>3
      <4>2. s \ {m} \in SUBSET (1 .. m) /\ m \notin s \ {m}
        OBVIOUS
      <4>3. h[s \ {m}] = g[s \ {m}]
        BY <4>2
      <4>4. h[s] = add_xperm(g[s \ {m}], xs[m])
        BY <3>1
      <4> HIDE DEF h, m
      <4> QED BY <3>1, <4>1, <4>3, <4>4 DEF FoldStep
    <3>2. CASE m \notin s
      <4>1. s \in SUBSET (1 .. k)
        BY <3>2
      <4>2. g[s] = FoldStep(node, xs, g, s)
        <5> HIDE DEF h, m
        <5> QED BY <2>1, <4>1 DEF Folds
      <4>3. h[s] = g[s]
        BY <3>2
      <4>4. CASE s = {}
        <5> HIDE DEF h, m
        <5> QED BY <4>2, <4>3, <4>4 DEF FoldStep
      <4>5. CASE s # {}
        <5>1. s \ {Max(s)} \in SUBSET (1 .. m) /\ m \notin s \ {Max(s)}
          BY <3>2
        <5>2. h[s \ {Max(s)}] = g[s \ {Max(s)}]
          BY <5>1
        <5> HIDE DEF h, m
        <5> QED BY <4>2, <4>3, <4>5, <5>2 DEF FoldStep
      <4> QED BY <4>4, <4>5
    <3> QED BY <3>1, <3>2
  <2>3. DOMAIN h = SUBSET (1 .. m) /\ h = [s \in DOMAIN h |-> h[s]]
    OBVIOUS
  <2> HIDE DEF h
  <2>4. Folds(node, xs, m, h)
    BY <2>2, <2>3 DEF Folds
  <2> QED BY <2>4
<1> HIDE DEF T
<1>3. Nat \subseteq T
  BY <1>1, <1>2, SetInduction
<1> QED BY <1>3 DEF T

\* FoldLeft over the ranges of a statement, from the first to the last.
LEMMA FoldIs ==
  ASSUME NEW node, NEW xs, NEW n \in Nat, DOMAIN xs = 1 .. n
  PROVE  \E g : Folds(node, xs, n, g) /\ FoldLeft(add_xperm, node, xs) = g[1 .. n]
<1> DEFINE iter == CHOOSE g : g = [s \in SUBSET (1 .. n) |->
                      IF s = {} THEN node ELSE add_xperm(g[s \ {Max(s)}], xs[Max(s)])]
<1>1. FoldLeft(add_xperm, node, xs) = iter[1 .. n]
  BY DEF FoldLeft, MapThenFoldSet
<1>2. PICK g : Folds(node, xs, n, g)
  BY FoldExists
<1>3. iter = [s \in SUBSET (1 .. n) |->
                      IF s = {} THEN node ELSE add_xperm(iter[s \ {Max(s)}], xs[Max(s)])]
  BY <1>2 DEF Folds, FoldStep
<1> HIDE DEF iter
<1>4. Folds(node, xs, n, iter)
  BY <1>3 DEF Folds, FoldStep
<1> QED BY <1>1, <1>4

\* The datum of a key: a driver node, and a function node for every driver.
Node(node) == DOMAIN node = {"driver", "func"} /\ DOMAIN node.func = Bytes

\* add_xperm_rule keeps the shape of a datum, for one range ...
LEMMA NodeKept ==
  ASSUME NEW node, Node(node), NEW x
  PROVE  Node(add_xperm(node, x))
  BY DEF Node, add_xperm, NoXperms

\* ... and for all the ranges of a statement: by induction over their number.
LEMMA FoldNode ==
  ASSUME NEW node, Node(node), NEW xs, NEW n \in Nat, DOMAIN xs = 1 .. n
  PROVE  Node(FoldLeft(add_xperm, node, xs))
<1>1. PICK g : Folds(node, xs, n, g) /\ FoldLeft(add_xperm, node, xs) = g[1 .. n]
  BY FoldIs
<1> DEFINE T == {k \in Nat : k <= n => \A s \in SUBSET (1 .. k) : Node(g[s])}
<1>2. 0 \in T
  <2>1. \A s \in SUBSET (1 .. 0) : s = {} /\ s \in SUBSET (1 .. n)
    OBVIOUS
  <2>2. \A s \in SUBSET (1 .. 0) : g[s] = node
    BY <1>1, <2>1 DEF Folds, FoldStep
  <2> QED BY <2>2
<1>3. ASSUME NEW k \in Nat, k \in T PROVE k + 1 \in T
  <2>0. SUFFICES ASSUME k + 1 <= n PROVE \A s \in SUBSET (1 .. k + 1) : Node(g[s])
    OBVIOUS
  <2> TAKE s \in SUBSET (1 .. k + 1)
  <2>1. s \in SUBSET (1 .. n) /\ k <= n
    BY <2>0
  <2>2. g[s] = FoldStep(node, xs, g, s)
    BY <1>1, <2>1 DEF Folds
  <2>3. CASE s = {}
    BY <2>2, <2>3 DEF FoldStep
  <2>4. CASE s # {}
    <3>1. Max(s) \in s /\ \A y \in s : Max(s) >= y
      BY <2>1, <2>4, MaxIs
    <3>2. s \ {Max(s)} \in SUBSET (1 .. k)
      <4> SUFFICES ASSUME NEW y \in s, y # Max(s) PROVE y \in 1 .. k
        OBVIOUS
      <4>1. y \in 1 .. k + 1 /\ Max(s) \in 1 .. k + 1 /\ Max(s) >= y
        BY <3>1
      <4> QED BY <4>1
    <3>3. Node(g[s \ {Max(s)}])
      BY <1>3, <2>1, <3>2
    <3> QED BY <2>2, <2>4, <3>3, NodeKept DEF FoldStep
  <2> QED BY <2>3, <2>4
<1> HIDE DEF T
<1>4. n \in T
  BY <1>2, <1>3, SetInduction
<1> QED BY <1>1, <1>4 DEF T
-----------------------------------------------------------------------------
(* One range *)

\* The numbers there are.
Ioctl16 == 0 .. Size * Size - 1

\* The number of an ioctl is made of its driver and its function (ioctl_driver and
\* ioctl_func).
LEMMA Split16 ==
  ASSUME NEW y \in Ioctl16
  PROVE  /\ ioctl_driver(y) \in Bytes /\ ioctl_func(y) \in Bytes
         /\ y = Size * ioctl_driver(y) + ioctl_func(y)
<1> DEFINE q == y \div Size
           r == y % Size
<1>1. Size \in Int /\ Size > 0 /\ y \in Int /\ 0 <= y /\ y < Size * Size
  BY SizeAssumption DEF Ioctl16
<1>2. q \in Int /\ r \in Int /\ 0 <= r /\ r < Size /\ y = Size * q + r
  BY <1>1
<1> HIDE DEF q, r
<1>3. q < Size
  <2> SUFFICES ASSUME q >= Size PROVE FALSE
    BY <1>1, <1>2
  <2>1. Size * q >= Size * Size
    BY <1>1, <1>2
  <2> QED BY <1>1, <1>2, <2>1
<1>4. q >= 0
  <2> SUFFICES ASSUME q <= -1 PROVE FALSE
    BY <1>1, <1>2
  <2>1. Size * q <= -Size
    BY <1>1, <1>2
  <2> QED BY <1>1, <1>2, <2>1
<1>5. q \in Bytes /\ r \in Bytes
  BY <1>1, <1>2, <1>3, <1>4 DEF Bytes
<1> QED BY <1>2, <1>5 DEF q, r, ioctl_driver, ioctl_func

\* Within one driver a range of numbers is a range of functions.
LEMMA OneDriver ==
  ASSUME NEW low \in Ioctl16, NEW high \in Ioctl16, NEW y \in Ioctl16,
         ioctl_driver(low) = ioctl_driver(high)
  PROVE  y \in low .. high <=> /\ ioctl_driver(y) = ioctl_driver(low)
                               /\ ioctl_func(y) \in ioctl_func(low) .. ioctl_func(high)
<1> DEFINE a == ioctl_driver(low)
           b == ioctl_driver(y)
           f == ioctl_func(low)
           g == ioctl_func(high)
           h == ioctl_func(y)
<1>1. /\ a \in Int /\ b \in Int /\ f \in 0 .. Size - 1 /\ g \in 0 .. Size - 1 /\ h \in 0 .. Size - 1
      /\ low = Size * a + f /\ high = Size * a + g /\ y = Size * b + h
  BY Split16 DEF Bytes
<1>2. Size \in Int /\ Size > 0 /\ low \in Int /\ high \in Int /\ y \in Int
  BY SizeAssumption DEF Ioctl16
<1> HIDE DEF a, b, f, g, h
<1>3. b = a => (y \in low .. high <=> h \in f .. g)
  <2> DEFINE t == Size * a
  <2>1. t \in Int /\ low = t + f /\ high = t + g
    BY <1>1, <1>2
  <2>2. b = a => y = t + h
    BY <1>1
  <2> HIDE DEF t
  <2> QED BY <1>1, <1>2, <2>1, <2>2
<1>4. b < a => y < low
  <2> SUFFICES ASSUME b < a PROVE y < low
    OBVIOUS
  <2>1. Size * b <= Size * (a - 1)
    BY <1>1, <1>2
  <2>2. Size * (a - 1) = Size * a - Size
    BY <1>1, <1>2
  <2> QED BY <1>1, <1>2, <2>1, <2>2
<1>5. b > a => y > high
  <2> SUFFICES ASSUME b > a PROVE y > high
    OBVIOUS
  <2>1. Size * b >= Size * (a + 1)
    BY <1>1, <1>2
  <2>2. Size * (a + 1) = Size * a + Size
    BY <1>1, <1>2
  <2> QED BY <1>1, <1>2, <2>1, <2>2
<1>6. y \in low .. high <=> b = a /\ h \in f .. g
  <2>1. a \in Int /\ b \in Int
    BY <1>1
  <2>2. b = a \/ b < a \/ b > a
    BY <2>1
  <2> QED BY <1>2, <1>3, <1>4, <1>5, <2>1, <2>2
<1> QED BY <1>6 DEF a, b, f, g, h

\* add_xperm_rule for one key and one range, whatever nodes there are: the range is added
\* to the ioctls the datum lets through, or with the complement everything else is what is
\* left.
LEMMA AddedExactly ==
  ASSUME NEW node, Node(node), NEW x, x.low \in Ioctl16, x.high \in Ioctl16, x.reset \in BOOLEAN
  PROVE  Ioctls(add_xperm(node, x)) = IF x.reset THEN Ioctl16 \ Range16(x)
                                      ELSE Ioctls(node) \union Range16(x)
<1> DEFINE new == add_xperm(node, x)
           one == ioctl_driver(x.low)
           two == ioctl_driver(x.high)
           funcs == ioctl_func(x.low) .. ioctl_func(x.high)
<1>1. one \in Bytes /\ two \in Bytes
  BY Split16
<1>2. ASSUME NEW y \in Ioctl16
      PROVE  y \in Ioctls(new) <=>
               IF x.reset THEN y \notin Range16(x) ELSE y \in Ioctls(node) \/ y \in Range16(x)
  <2> DEFINE dr == ioctl_driver(y)
             fn == ioctl_func(y)
  <2>1. dr \in Bytes /\ fn \in Bytes
    BY Split16
  <2>2. /\ y \in Ioctls(new) <=> dr \in UNION new.driver \/ fn \in UNION new.func[dr]
        /\ y \in Ioctls(node) <=> dr \in UNION node.driver \/ fn \in UNION node.func[dr]
    <3> HIDE DEF new
    <3> QED BY DEF Ioctls, Ioctl16
  <2>3. CASE one = two
    <3>1. y \in Range16(x) <=> dr = one /\ fn \in funcs
      BY <2>3, OneDriver DEF Range16
    <3>2. CASE x.reset
      <4>1. new = [NoXperms EXCEPT !.driver = {Bytes \ {one}}, !.func[one] = {Bytes \ funcs}]
        BY <2>3, <3>2 DEF add_xperm
      <4> HIDE DEF new, one, funcs, dr, fn, two
      <4>2. /\ new.driver = {Bytes \ {one}}
            /\ new.func[dr] = IF dr = one THEN {Bytes \ funcs} ELSE {}
        BY <1>1, <2>1, <4>1 DEF NoXperms
      <4>3. /\ dr \in UNION new.driver <=> dr # one
            /\ fn \in UNION new.func[dr] <=> dr = one /\ fn \notin funcs
        BY <2>1, <4>2
      <4> QED BY <2>2, <3>1, <3>2, <4>3
    <3>3. CASE ~x.reset
      <4>1. new = [node EXCEPT !.func[one] = {(UNION @) \union funcs}]
        BY <2>3, <3>3 DEF add_xperm
      <4> HIDE DEF new, one, funcs, dr, fn, two
      <4>2. /\ new.driver = node.driver
            /\ new.func[dr] = IF dr = one THEN {(UNION node.func[one]) \union funcs} ELSE node.func[dr]
        BY <1>1, <2>1, <4>1 DEF Node
      <4>3. fn \in UNION new.func[dr] <=> fn \in UNION node.func[dr] \/ (dr = one /\ fn \in funcs)
        <5>2. CASE dr = one
          BY <4>2, <5>2
        <5>3. CASE dr # one
          BY <4>2, <5>3
        <5> QED BY <5>2, <5>3
      <4> QED BY <2>2, <3>1, <3>3, <4>2, <4>3
    <3> QED BY <3>2, <3>3
  <2>4. CASE one # two
    <3>1. y \in Range16(x) <=> dr \in one .. two
      <4>1. one \in Int /\ two \in Int /\ dr \in Int
        BY <1>1, <2>1, SizeAssumption DEF Bytes
      <4>2. y \in Range16(x) <=> one <= dr /\ dr <= two
        BY <2>4 DEF Range16, Ioctl16
      <4> QED BY <4>1, <4>2
    <3>2. CASE x.reset
      <4>1. new = [NoXperms EXCEPT !.driver = {Bytes \ (one .. two)}]
        BY <2>4, <3>2 DEF add_xperm
      <4> HIDE DEF new, one, dr, fn, two
      <4>2. new.driver = {Bytes \ (one .. two)} /\ new.func[dr] = {}
        BY <2>1, <4>1 DEF NoXperms
      <4>3. dr \in UNION new.driver <=> dr \notin one .. two
        BY <2>1, <4>2
      <4> QED BY <2>2, <3>1, <3>2, <4>2, <4>3
    <3>3. CASE ~x.reset
      <4>1. new = [node EXCEPT !.driver = {(UNION @) \union (one .. two)}]
        BY <2>4, <3>3 DEF add_xperm
      <4> HIDE DEF new, one, dr, fn, two
      <4>2. new.driver = {(UNION node.driver) \union (one .. two)} /\ new.func = node.func
        BY <4>1 DEF Node
      <4>3. dr \in UNION new.driver <=> dr \in UNION node.driver \/ dr \in one .. two
        BY <4>2
      <4> QED BY <2>2, <3>1, <3>3, <4>2, <4>3
    <3> QED BY <3>2, <3>3
  <2> QED BY <2>3, <2>4
<1>3. Ioctls(new) \subseteq Ioctl16 /\ Ioctls(node) \subseteq Ioctl16
  BY DEF Ioctls, Ioctl16
<1>4. Range16(x) \subseteq Ioctl16
  <2>1. x.low .. x.high \subseteq Ioctl16
    <3>1. Size * Size \in Int
      BY SizeAssumption
    <3> QED BY <3>1 DEF Ioctl16
  <2> QED BY <2>1 DEF Range16, Ioctl16
<1> HIDE DEF new
<1>5. Ioctls(new) = IF x.reset THEN Ioctl16 \ Range16(x) ELSE Ioctls(node) \union Range16(x)
  BY <1>2, <1>3, <1>4
<1> QED BY <1>5 DEF new
-----------------------------------------------------------------------------
(* The table of extended permissions *)

\* The statements with ranges.
XpermStatement(st) == st.do \in {"allowxperm", "auditallowxperm", "dontauditxperm"}

\* What parse_xperms returns.
LEMMA ParsedXperms ==
  ASSUME NEW st \in Statements, XpermStatement(st)
  PROVE  LET xs == parse_xperms(st.x) IN
         /\ Len(xs) \in Nat /\ DOMAIN xs = 1 .. Len(xs)
         /\ \A i \in 1 .. Len(xs) : /\ xs[i].low \in Ioctl16 /\ xs[i].high \in Ioctl16
                                    /\ xs[i].reset \in BOOLEAN
<1> DEFINE xs == parse_xperms(st.x)
           X == [low : Ioctl16, high : Ioctl16, reset : BOOLEAN]
<1>1. xs \in Seq(X)
  BY XpermsAssumption DEF XpermStatement, Ioctl16
<1> HIDE DEF xs, X
<1>2. Len(xs) \in Nat /\ DOMAIN xs = 1 .. Len(xs) /\ \A i \in 1 .. Len(xs) : xs[i] \in X
  BY <1>1
<1>3. \A i \in 1 .. Len(xs) : /\ xs[i].low \in Ioctl16 /\ xs[i].high \in Ioctl16
                              /\ xs[i].reset \in BOOLEAN
  BY <1>2 DEF X
<1> QED BY <1>2, <1>3 DEF xs

\* Of one range.
LEMMA FoldOne ==
  ASSUME NEW node, NEW xs, DOMAIN xs = 1 .. 1
  PROVE  FoldLeft(add_xperm, node, xs) = add_xperm(node, xs[1])
<1>1. PICK g : Folds(node, xs, 1, g) /\ FoldLeft(add_xperm, node, xs) = g[1 .. 1]
  BY FoldIs
<1>2. 1 .. 1 = {1} /\ {1} \in SUBSET (1 .. 1) /\ {} \in SUBSET (1 .. 1)
  OBVIOUS
<1>3. Max({1}) = 1 /\ {1} \ {1} = {}
  BY <1>2, MaxIs
<1>4. g[{}] = FoldStep(node, xs, g, {}) /\ g[{1}] = FoldStep(node, xs, g, {1})
  BY <1>1, <1>2 DEF Folds
<1> QED BY <1>1, <1>2, <1>3, <1>4 DEF FoldStep

\* The table has data of that shape.
Nodes(d) == \A k \in Keys(XpermEffects) : Node(d.xp[k])

\* The keys a statement is about.
Touched(d, st, effect) ==
  Match(st.s, Known(d), Attribs(d)) \X Match(st.t, Known(d), Attribs(d))
    \X Match(st.c, Classes, Classes) \X {effect}

\* What add_xperm_rule makes of the datum of a key.
LEMMA XpermWrites ==
  ASSUME NEW d, Shape(d), NEW st, NEW xs, NEW effect, NEW k \in Keys(XpermEffects)
  PROVE  add_xperm_rule(d, st, xs, effect).xp[k] =
           IF k \in Touched(d, st, effect) THEN FoldLeft(add_xperm, d.xp[k], xs) ELSE d.xp[k]
<1> DEFINE f == [j \in DOMAIN d.xp |->
                   IF j \in Touched(d, st, effect) THEN FoldLeft(add_xperm, d.xp[j], xs) ELSE d.xp[j]]
<1>1. add_xperm_rule(d, st, xs, effect) = [d EXCEPT !.xp = f]
  BY DEF add_xperm_rule, Touched
<1>2. f[k] = IF k \in Touched(d, st, effect) THEN FoldLeft(add_xperm, d.xp[k], xs) ELSE d.xp[k]
  BY DEF Shape
<1> HIDE DEF f
<1>3. add_xperm_rule(d, st, xs, effect).xp = f
  BY <1>1 DEF Shape
<1> QED BY <1>2, <1>3

\* Every statement keeps the shape of the data.
LEMMA NodesKept ==
  ASSUME Shape(db), Nodes(db), NEW st \in Statements
  PROVE  Nodes(ApplyRule(db, st))
<1> DEFINE e == ApplyRule(db, st)
<1>1. \/ XpermStatement(st) /\ \E effect : e = add_xperm_rule(db, st, parse_xperms(st.x), effect)
      \/ \E effect, invert : e = add_rule(db, st, effect, invert)
      \/ \E permissive : e = set_type_state(db, st.s, permissive)
      \/ e = add_typeattribute(db, st.s, st.a)
      \/ e = add_typeattribute(add_type(db, st.n, "type"), {st.n}, st.a)
      \/ e = add_type(db, st.n, "attrib")
      \/ e = db
      \/ \E effect : e = add_type_rule(db, st, effect)
      \/ e = add_genfscon(db, st)
      \/ e = strip_dontaudit(db)
  BY KindsAssumption DEF ApplyRule, XpermStatement
<1> SUFFICES Nodes(e)
  OBVIOUS
<1> HIDE DEF e
<1>2. CASE XpermStatement(st) /\ \E effect : e = add_xperm_rule(db, st, parse_xperms(st.x), effect)
  <2> DEFINE xs == parse_xperms(st.x)
  <2>1. PICK effect : e = add_xperm_rule(db, st, xs, effect)
    BY <1>2
  <2>2. Len(xs) \in Nat /\ DOMAIN xs = 1 .. Len(xs)
    BY <1>2, ParsedXperms
  <2> HIDE DEF xs
  <2>3. \A k \in Keys(XpermEffects) : Node(FoldLeft(add_xperm, db.xp[k], xs))
    BY <2>2, FoldNode DEF Nodes
  <2>4. \A k \in Keys(XpermEffects) : e.xp[k] \in {FoldLeft(add_xperm, db.xp[k], xs), db.xp[k]}
    BY <2>1, XpermWrites
  <2> QED BY <2>3, <2>4 DEF Nodes
<1>3. CASE e = strip_dontaudit(db)
  <2> DEFINE f == [k \in DOMAIN db.av |-> IF k[4] = "AUDITDENY" THEN Redundant(k[4]) ELSE db.av[k]]
             g == [k \in DOMAIN db.xp |-> IF k[4] = "XPERMS_DONTAUDIT" THEN NoXperms ELSE db.xp[k]]
  <2>1. e = [db EXCEPT !.av = f, !.xp = g]
    BY <1>3 DEF strip_dontaudit
  <2>2. \A k \in Keys(XpermEffects) : g[k] = NoXperms \/ g[k] = db.xp[k]
    BY DEF Shape
  <2>3. Node(NoXperms)
    BY DEF Node, NoXperms
  <2> HIDE DEF f, g
  <2>4. e.xp = g
    BY <2>1 DEF Shape
  <2> QED BY <2>2, <2>3, <2>4 DEF Nodes
<1>4. CASE \E effect, invert : e = add_rule(db, st, effect, invert)
  <2>1. PICK effect, invert : e = add_rule(db, st, effect, invert)
    BY <1>4
  <2>2. e = db \/ \E f : e = [db EXCEPT !.av = f]
    BY <2>1 DEF add_rule
  <2>3. e.xp = db.xp
    BY <2>2 DEF Shape
  <2> QED BY <2>3 DEF Nodes
<1>5. ASSUME NEW d, Shape(d), NEW list, NEW attributes
      PROVE  add_typeattribute(d, list, attributes).xp = d.xp
  BY <1>5 DEF add_typeattribute, Shape
<1>6. ASSUME NEW d, Shape(d), NEW n, NEW flavor
      PROVE  add_type(d, n, flavor).xp = d.xp /\ Shape(add_type(d, n, flavor))
  BY <1>6 DEF add_type, Shape
<1>7. CASE \/ e = add_typeattribute(db, st.s, st.a)
           \/ e = add_typeattribute(add_type(db, st.n, "type"), {st.n}, st.a)
           \/ e = add_type(db, st.n, "attrib")
  <2>1. e.xp = db.xp
    BY <1>5, <1>6, <1>7
  <2> QED BY <2>1 DEF Nodes
<1>8. CASE \/ \E permissive : e = set_type_state(db, st.s, permissive)
           \/ \E effect : e = add_type_rule(db, st, effect)
           \/ e = add_genfscon(db, st)
           \/ e = db
  <2>1. e.xp = db.xp
    BY <1>8 DEF set_type_state, add_type_rule, add_genfscon, Shape
  <2> QED BY <2>1 DEF Nodes
<1> QED BY <1>1, <1>2, <1>3, <1>4, <1>7, <1>8 DEF e

\* The data of the table have their shape after any list of statements, of any number of
\* ranges.
THEOREM XpermNodes == Spec => []Nodes(db)
<1>1. Init => Nodes(db)
  <2>1. Node(NoXperms)
    BY DEF Node, NoXperms
  <2>2. Init => db.xp = [k \in Keys(XpermEffects) |-> NoXperms]
    BY DEF Init
  <2> QED BY <2>1, <2>2 DEF Nodes
<1>2. Shape(db) /\ Nodes(db) /\ [Next]_vars => Nodes(db)'
  <2> SUFFICES ASSUME Shape(db), Nodes(db), [Next]_vars PROVE Nodes(db')
    BY DEF Nodes
  <2>1. CASE Next
    BY <2>1, NodesKept DEF Next
  <2>2. CASE UNCHANGED vars
    BY <2>2 DEF vars
  <2> QED BY <2>1, <2>2
<1> QED BY <1>1, <1>2, PolicyInvariant, PTL DEF Spec

\* add_xperm_rule: "allowxperm" with one range adds exactly that range to the ioctls of
\* every key it names, with the complement leaves exactly the rest, and changes no other
\* key; for every size of a driver, every policy and whatever statements came before.
THEOREM XpermsAreExact == Spec => XpermsExact
<1> DEFINE Exact ==
  last'.do = "allowxperm" /\ Len(parse_xperms(last'.x)) = 1 =>
    LET x == parse_xperms(last'.x)[1] IN
    \A k \in DOMAIN db.xp :
      IF k[4] = "XPERMS_ALLOWED" /\ k[1] \in Match(last'.s, Known(db), Attribs(db))
         /\ k[2] \in Match(last'.t, Known(db), Attribs(db))
         /\ k[3] \in Match(last'.c, Classes, Classes)
      THEN Ioctls(db'.xp[k]) = IF x.reset THEN (0 .. Size * Size - 1) \ Range16(x)
                               ELSE Ioctls(db.xp[k]) \union Range16(x)
      ELSE db'.xp[k] = db.xp[k]
<1>1. ASSUME Shape(db), Nodes(db), Next PROVE Exact
  <2>1. PICK st \in Statements : last' = st /\ db' = ApplyRule(db, st)
    BY <1>1 DEF Next
  <2>2. SUFFICES ASSUME st.do = "allowxperm", Len(parse_xperms(st.x)) = 1,
                        NEW k \in Keys(XpermEffects)
        PROVE LET x == parse_xperms(st.x)[1] IN
              IF k[4] = "XPERMS_ALLOWED" /\ k[1] \in Match(st.s, Known(db), Attribs(db))
                 /\ k[2] \in Match(st.t, Known(db), Attribs(db))
                 /\ k[3] \in Match(st.c, Classes, Classes)
              THEN Ioctls(db'.xp[k]) = IF x.reset THEN Ioctl16 \ Range16(x)
                                       ELSE Ioctls(db.xp[k]) \union Range16(x)
              ELSE db'.xp[k] = db.xp[k]
    BY <1>1, <2>1 DEF Shape, Ioctl16
  <2> DEFINE xs == parse_xperms(st.x)
             x == xs[1]
  <2>3. db' = add_xperm_rule(db, st, xs, "XPERMS_ALLOWED")
    BY <2>1, <2>2 DEF ApplyRule
  <2>4. Len(xs) = 1 /\ DOMAIN xs = 1 .. 1 /\ x.low \in Ioctl16 /\ x.high \in Ioctl16 /\ x.reset \in BOOLEAN
    BY <2>2, ParsedXperms DEF XpermStatement
  <2> HIDE DEF xs
  <2>5. k \in Touched(db, st, "XPERMS_ALLOWED") <=>
          /\ k[4] = "XPERMS_ALLOWED" /\ k[1] \in Match(st.s, Known(db), Attribs(db))
          /\ k[2] \in Match(st.t, Known(db), Attribs(db))
          /\ k[3] \in Match(st.c, Classes, Classes)
    BY DEF Touched, Keys
  <2>6. db'.xp[k] = IF k \in Touched(db, st, "XPERMS_ALLOWED") THEN FoldLeft(add_xperm, db.xp[k], xs)
                    ELSE db.xp[k]
    BY <1>1, <2>3, XpermWrites
  <2>7. FoldLeft(add_xperm, db.xp[k], xs) = add_xperm(db.xp[k], x)
    BY <2>4, FoldOne
  <2>8. Ioctls(add_xperm(db.xp[k], x)) = IF x.reset THEN Ioctl16 \ Range16(x)
                                         ELSE Ioctls(db.xp[k]) \union Range16(x)
    BY <1>1, <2>4, AddedExactly DEF Nodes
  <2> HIDE DEF x
  <2>9. IF k \in Touched(db, st, "XPERMS_ALLOWED")
        THEN Ioctls(db'.xp[k]) = IF x.reset THEN Ioctl16 \ Range16(x)
                                 ELSE Ioctls(db.xp[k]) \union Range16(x)
        ELSE db'.xp[k] = db.xp[k]
    BY <2>6, <2>7, <2>8
  <2> QED BY <2>5, <2>9 DEF x, xs
<1>2. Spec => [][Next /\ Shape(db) /\ Nodes(db)]_vars
  BY PolicyInvariant, XpermNodes, PTL DEF Spec
<1> QED BY <1>1, <1>2, PTL DEF XpermsExact
===============================================================================
