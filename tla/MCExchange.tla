---------------------------- MODULE MCExchange ----------------------------
(* Exchange for TLC: requests that differ in every way the handler tells    *)
(* apart.  A listed client comes through a trusted proxy; a rule gives      *)
(* developers a role, and without a default nobody else gets one.           *)
EXTENDS Exchange, TLC

CONSTANTS client, stranger, proxy, dev, guest, reader, admin

Claims(group) == [groups |-> [kind |-> "list", items |-> {<<group>>}]]

Request(from, wellFormed, genuine, group) ==
    [peer |-> proxy, xff |-> [parts |-> <<from>>, first |-> 1, lines |-> 1],
     wellFormed |-> wellFormed, genuine |-> genuine, claims |-> Claims(group)]

MCKinds ==
    {Request(client, TRUE, TRUE, dev),
     Request(client, TRUE, TRUE, guest),
     Request(client, TRUE, FALSE, dev),
     Request(client, FALSE, TRUE, dev),
     Request(stranger, TRUE, TRUE, dev)}

MCRules == <<[claim |-> "groups", value |-> <<dev>>, roles |-> {reader}]>>

Symmetry == Permutations(Reqs)
=============================================================================
