---------------------------- MODULE RoleMapping ----------------------------
(***************************************************************************)
(* Which Talos roles a validated token gets: the defaults of               *)
(* ResolvedConfig.ApplyDefaults, the mapper built by runServe, and         *)
(* Mapper.MapRoles with matchesValue.                                      *)
(*                                                                         *)
(* A claim value is a record: kind "string" with the words strings.Fields  *)
(* finds in it and whether white space surrounds them, kind "list" with    *)
(* the strings among its items (items of other types never match), or kind *)
(* "other".  An expected value is one word, or several for a value written *)
(* with spaces.  Roles are sets: the code's role slices are sets or copies *)
(* of configured lists, and only emptiness and membership are used.        *)
(***************************************************************************)
EXTENDS Naturals, Sequences, FiniteSets

CONSTANT Admin      \* "os:admin"

Missing == [kind |-> "missing"]

\* Mutant of DefaultRoles: the default applies beside RBAC rules.
DefaultRolesAlways(roles, rules) == IF roles = {} THEN {Admin} ELSE roles

\* ApplyDefaults: os:admin only if neither roles nor rules are configured.
DefaultRoles(roles, rules) ==
    IF roles = {} /\ rules = <<>> THEN {Admin} ELSE roles

\* matchesValue: the whole string, or one of its words if there are several;
\* an element of a list.
matchesValue(v, expected) ==
    CASE v.kind = "string" ->
           \/ v.words = expected /\ ~v.padded
           \/ Len(v.words) > 1 /\ \E k \in DOMAIN v.words : <<v.words[k]>> = expected
      [] v.kind = "list" -> expected \in v.items
      [] OTHER -> FALSE

Matching(rules, claims) ==
    {k \in DOMAIN rules : /\ claims[rules[k].claim] # Missing
                          /\ matchesValue(claims[rules[k].claim], rules[k].value)}

\* Mutant of MapRoles: the last matching rule wins.
MapRolesLast(rules, defaults, claims) ==
    LET m == Matching(rules, claims)
        last == CHOOSE k \in m : \A j \in m : j <= k
    IN  IF m = {} THEN defaults ELSE rules[last].roles

\* MapRoles: the roles of all matching rules, the defaults if none matches.
MapRoles(rules, defaults, claims) ==
    LET m == Matching(rules, claims)
    IN  IF m = {} THEN defaults ELSE UNION {rules[k].roles : k \in m}

\* handleExchange: the mapper if it has rules, else the static roles.
RolesFor(roles, rules, claims) ==
    LET static == DefaultRoles(roles, rules)
    IN  IF rules # <<>> THEN MapRoles(rules, static, claims) ELSE static
=============================================================================
