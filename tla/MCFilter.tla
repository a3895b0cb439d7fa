-------------------------------- MODULE MCFilter --------------------------------
(***************************************************************************)
(* Instances of Filter for TLC: two IPv4 addresses, three IPv6 ones and a  *)
(* MAC address, under every choice of a few tokens of each kind.  The bits *)
(* have the numbers of libipv4addr.h and libipv6addr.h: 16 is LISP for     *)
(* IPv4 and in the second word for IPv6, and 6to4 in IPv6's first word.    *)
(***************************************************************************)
EXTENDS Filter

MCBit == {0, 9, 13, 16, 18}

A(family, typeinfo, typeinfo2, addr, cc, asn, reg) ==
  [ family |-> family, typeinfo |-> typeinfo, typeinfo2 |-> typeinfo2,
    number |-> [ k \in ListKind |-> CASE k = "addr" -> addr [] k = "cc" -> cc
                                      [] k = "asn" -> asn [] k = "reg" -> reg ] ]

MCAddress ==
  { A("ipv4", {0, 9}, {}, 8, 1, 7, 2), A("ipv4", {0, 13}, {}, 3, 1022, 0, 14),
    A("ipv6", {0, 18}, {16}, 4, 2, 7, 2), A("ipv6", {0, 16}, {}, 5, 1, 0, 15),
    A("ipv6", {0, 18}, {}, 8, 2, 9, 2), A("mac", {0}, {}, 0, 0, 0, 0) }

No == [ test |-> "prefix", low |-> 0, high |-> 0 ]
T(kind, negate, reads, prefixed, v4, v6, v62, entry) ==
  [ kind |-> kind, negate |-> negate, reads |-> reads, prefixed |-> prefixed,
    typeinfo |-> [ f \in Family |-> IF f = "ipv4" THEN v4 ELSE v6 ], typeinfo2 |-> v62,
    entry |-> entry ]
Type(negate, reads, v4, v6, v62) == T("type", negate, reads, FALSE, v4, v6, v62, No)
Db(kind, negate, reads, n) ==
  T(kind, negate, reads, reads # Family, {}, {}, {}, [ No EXCEPT !.low = n, !.high = n ])
Addr(negate, f, prefixed, test, low, high) ==
  T("addr", negate, {f}, prefixed, {}, {}, {}, [ test |-> test, low |-> low, high |-> high ])

MCToken ==
  { T("family", FALSE, {"ipv4"}, FALSE, {}, {}, {}, No),    \* ipv4
    T("family", TRUE, {"ipv6"}, FALSE, {}, {}, {}, No),     \* ^ipv6
    Type(FALSE, Family, {0}, {0}, {}),                      \* unicast
    Type(FALSE, {"ipv4"}, {9}, {}, {}),                     \* global
    Type(TRUE, {"ipv4"}, {13}, {}, {}),                     \* ^ipv4.site-local
    Type(FALSE, {"ipv6"}, {}, {16}, {}),                    \* 6to4
    Type(TRUE, {"ipv6"}, {}, {16}, {}),                     \* ^6to4
    Type(TRUE, Family, {16}, {}, {16}),                     \* ^lisp
    Type(FALSE, {"ipv6"}, {}, {}, {16}),                    \* ipv6.lisp
    Db("cc", FALSE, Family, 1),                             \* db.cc=
    Db("cc", FALSE, {"ipv4"}, 1022),                        \* ipv4.db.cc=unknown
    Db("cc", TRUE, {"ipv6"}, 2),                            \* ^ipv6.db.cc=
    Db("asn", FALSE, Family, 7),                            \* db.asn=
    Db("reg", TRUE, Family, 14),                            \* ^db.reg=
    Addr(FALSE, "ipv4", FALSE, "le", 3, 3),                 \* addr=le=
    Addr(FALSE, "ipv4", TRUE, "gt", 3, 3),                  \* ipv4.addr=gt=
    Addr(TRUE, "ipv6", FALSE, "prefix", 4, 5),              \* ^addr=
    Addr(TRUE, "ipv6", TRUE, "lt", 5, 5),                   \* ^ipv6.addr=lt=
    Addr(FALSE, "ipv6", TRUE, "ge", 5, 5),                  \* ipv6.addr=ge=
    Type(FALSE, {}, {}, {}, {}) }                           \* in no table

MCSupported == (Family \X DbKind) \ { << "ipv6", "asn" >> }

MCMax == [ k \in ListKind |-> IF k \in {"cc", "addr"} THEN 3 ELSE 2 ]

================================================================================
