--------------------------------- MODULE Filter ---------------------------------
(***************************************************************************)
(* ipv6calc -A filter: the tokens of the option -E are parsed one by one   *)
(* into a filter for IPv4 and one for IPv6 addresses (libipv6calc_filter_  *)
(* parse), the databases they need are checked, and each line of the input *)
(* is printed if the filter of its family lets it through.  The parsers    *)
(* and the filters of the two families are written alike; only IPv6 has a  *)
(* second word of types.                                                   *)
(*                                                                         *)
(* A word of types is the set of its bits.  An address, a country, an AS   *)
(* number and a registry are numbers; what the databases say of an address *)
(* does not change (LookupService).  The flags `active' below a family's   *)
(* are left out: a part without tokens lets everything through.            *)
(***************************************************************************)
EXTENDS Integers, Sequences, FiniteSets, Functions

CONSTANTS
  Bit,          \* positions in a word of types
  Address,      \* the lines of the input
  Token,        \* the tokens an expression may have
  Supported,    \* what the databases can be asked: a subset of Family \X DbKind
  Max,          \* the lengths of a filter's lists
  NoLine,       \* no line was read yet
  MaxTokens     \* bound: how many different tokens are given

Family   == {"ipv4", "ipv6"}
DbKind   == {"cc", "asn", "reg"}
ListKind == DbKind \cup {"addr"}
Test     == {"prefix", "le", "lt", "ge", "gt"}

(* What a list holds: a number of a database, or an address with its test   *)
(* (a prefix by its first and last address).                                *)
Entry == [ test : Test, low : Nat, high : Nat ]

(* The parsers that take a token (`global' is one of IPv4, `unicast' and    *)
(* `db.cc=DE' of both), whether it starts with its family's name and a dot, *)
(* and what it stands for in each of them.                                  *)
TokenForm ==
  [ kind : {"family", "type"} \cup ListKind, negate : BOOLEAN,
    reads : SUBSET Family, prefixed : BOOLEAN,
    typeinfo : [Family -> SUBSET Bit], typeinfo2 : SUBSET Bit, entry : Entry ]

AddressForm ==
  [ family : Family \cup {"mac"}, typeinfo : (SUBSET Bit) \ {{}}, typeinfo2 : SUBSET Bit,
    number : [ListKind -> Nat] ]

ASSUME AddressAssumption == Address \subseteq AddressForm /\ NoLine \notin Address
ASSUME TokenAssumption   == Token \subseteq TokenForm
ASSUME MaxAssumption     == Max \in [ListKind -> Nat \ {0}]

VARIABLES
  phase,        \* "options", "filtering" or "stopped"
  given,        \* the tokens parsed so far
  filter,       \* filter_master: a filter for each family
  line,         \* the line read last
  printed       \* whether it was printed

vars == << phase, given, filter, line, printed >>

FilterForm ==
  [ active : BOOLEAN,
    typeinfo_must_have : SUBSET Bit, typeinfo_may_not_have : SUBSET Bit,
    typeinfo2_must_have : SUBSET Bit, typeinfo2_may_not_have : SUBSET Bit,
    must_have : [ListKind -> Seq(Entry)], may_not_have : [ListKind -> Seq(Entry)] ]

Clear ==
  [ active |-> FALSE,
    typeinfo_must_have |-> {}, typeinfo_may_not_have |-> {},
    typeinfo2_must_have |-> {}, typeinfo2_may_not_have |-> {},
    must_have |-> [ k \in ListKind |-> << >> ], may_not_have |-> [ k \in ListKind |-> << >> ] ]

--------------------------------------------------------------------------------
(* Parsing a token.                                                         *)

(* The name of a family alone stands for any type: no bit must be there, or *)
(* none may.                                                                *)
WithFamily(F, t) ==
  IF t.negate THEN [ F EXCEPT !.active = TRUE, !.typeinfo_may_not_have = Bit ]
              ELSE [ F EXCEPT !.active = TRUE, !.typeinfo_must_have = {} ]

WithType(f, F, t) ==
  IF t.negate
  THEN [ F EXCEPT !.active = TRUE,
                  !.typeinfo_may_not_have = @ \cup t.typeinfo[f],
                  !.typeinfo2_may_not_have = @ \cup (IF f = "ipv6" THEN t.typeinfo2 ELSE {}) ]
  ELSE [ F EXCEPT !.active = TRUE,
                  !.typeinfo_must_have = @ \cup t.typeinfo[f],
                  !.typeinfo2_must_have = @ \cup (IF f = "ipv6" THEN t.typeinfo2 ELSE {}) ]

WithEntry(F, t) ==
  IF t.negate
  THEN [ F EXCEPT !.active = TRUE, !.may_not_have[t.kind] = Append(@, t.entry) ]
  ELSE [ F EXCEPT !.active = TRUE, !.must_have[t.kind] = Append(@, t.entry) ]

Parsed(f, F, t) ==
  CASE t.kind = "family" -> WithFamily(F, t)
    [] t.kind = "type"   -> WithType(f, F, t)
    [] OTHER             -> WithEntry(F, t)

(* Faulty: the length is compared after the entry was added.                *)
HasRoom_last(F, t) ==
  t.kind \in ListKind =>
    Len(IF t.negate THEN F.may_not_have[t.kind] ELSE F.must_have[t.kind]) <= Max[t.kind]

HasRoom(F, t) ==
  t.kind \in ListKind =>
    Len(IF t.negate THEN F.may_not_have[t.kind] ELSE F.must_have[t.kind]) < Max[t.kind]

(* The family's parser takes the token.  A token it knows and has no room   *)
(* for is an error if it names the family, and otherwise left to the other  *)
(* family.                                                                  *)
Found(f, t) == f \in t.reads /\ HasRoom(filter[f], t)

Problem(t) == \E f \in t.reads : ~Found(f, t) /\ t.prefixed

FilterParse(t) ==
  /\ phase = "options"
  /\ Cardinality(given \cup {t}) <= MaxTokens
  /\ filter' = [ f \in Family |-> IF Found(f, t) THEN Parsed(f, filter[f], t) ELSE filter[f] ]
  /\ given' = given \cup {t}
  /\ phase' = IF (\E f \in Family : Found(f, t)) /\ ~Problem(t) THEN "options" ELSE "stopped"
  /\ UNCHANGED << line, printed >>

--------------------------------------------------------------------------------
(* The databases that an active filter asks must be there.                  *)

Asks(f, k) == filter[f].must_have[k] # << >> \/ filter[f].may_not_have[k] # << >>

FilterCheck ==
  /\ phase = "options"
  /\ phase' = IF \A f \in Family, k \in DbKind : Asks(f, k) => << f, k >> \in Supported
              THEN "filtering" ELSE "stopped"
  /\ UNCHANGED << given, filter, line, printed >>

--------------------------------------------------------------------------------
(* Filtering a line.                                                        *)

(* 0: in the prefix, or equal; 1: not in the prefix, or above; -1: below.   *)
Compare(n, e) ==
  IF e.test = "prefix" THEN (IF n \in e.low .. e.high THEN 0 ELSE 1)
  ELSE IF n > e.low THEN 1 ELSE IF n < e.low THEN -1 ELSE 0

MustFails(n, e) ==
  LET t == Compare(n, e)
  IN CASE e.test = "prefix" -> t # 0
       [] e.test = "le" -> t > 0
       [] e.test = "lt" -> t >= 0
       [] e.test = "ge" -> t < 0
       [] e.test = "gt" -> t <= 0

MayNotHits(n, e) ==
  LET t == Compare(n, e)
  IN CASE e.test = "prefix" -> t = 0
       [] e.test = "le" -> t <= 0
       [] e.test = "lt" -> t < 0
       [] e.test = "ge" -> t >= 0
       [] e.test = "gt" -> t > 0

(* Faulty: any of the bits will do.                                         *)
TypePasses_any(F, a) ==
  /\ F.typeinfo_must_have = {} \/ F.typeinfo_must_have \cap a.typeinfo # {}
  /\ F.typeinfo_may_not_have \cap a.typeinfo = {}

TypePasses(F, a) ==
  /\ F.typeinfo_must_have \subseteq a.typeinfo
  /\ F.typeinfo_may_not_have \cap a.typeinfo = {}

(* The bits of the second word that may not be there are looked for in the  *)
(* first one.                                                               *)
Type2Passes(F, a) ==
  a.family = "ipv6" =>
    /\ F.typeinfo2_must_have \subseteq a.typeinfo2
    /\ F.typeinfo2_may_not_have \cap a.typeinfo = {}

AddrPasses(F, n) ==
  /\ \A e \in Range(F.must_have["addr"]) : ~MustFails(n, e)
  /\ \A e \in Range(F.may_not_have["addr"]) : ~MayNotHits(n, e)

DbPasses(F, k, n) ==
  /\ F.must_have[k] # << >> => \E e \in Range(F.must_have[k]) : n = e.low
  /\ \A e \in Range(F.may_not_have[k]) : n # e.low

Passes(F, a) ==
  /\ F.active
  /\ TypePasses(F, a)
  /\ Type2Passes(F, a)
  /\ AddrPasses(F, a.number["addr"])
  /\ \A k \in DbKind : DbPasses(F, k, a.number[k])

(* The filter for MAC addresses lets none through.                          *)
FilterLine(a) ==
  /\ phase = "filtering"
  /\ line' = a
  /\ printed' = (a.family \in Family /\ Passes(filter[a.family], a))
  /\ UNCHANGED << phase, given, filter >>

(* The end of the input, or a line whose type cannot be detected.           *)
EndOfInput ==
  /\ phase = "filtering"
  /\ phase' = "stopped"
  /\ UNCHANGED << given, filter, line, printed >>

Init ==
  /\ phase = "options"
  /\ given = {}
  /\ filter = [ f \in Family |-> Clear ]
  /\ line = NoLine
  /\ printed = FALSE

Next ==
  \/ \E t \in Token : FilterParse(t)
  \/ FilterCheck
  \/ \E a \in Address : FilterLine(a)
  \/ EndOfInput

Spec == Init /\ [][Next]_vars

--------------------------------------------------------------------------------
(* What is meant.                                                           *)

(* What a token says of an address.                                         *)
Holds(t, a) ==
  LET n == a.number[t.kind]
  IN CASE t.kind = "family" -> TRUE
       [] t.kind = "type" -> t.typeinfo[a.family] \subseteq a.typeinfo
                             /\ (a.family = "ipv6" => t.typeinfo2 \subseteq a.typeinfo2)
       [] t.kind \in DbKind -> n = t.entry.low
       [] t.kind = "addr" -> CASE t.entry.test = "prefix" -> t.entry.low <= n /\ n <= t.entry.high
                               [] t.entry.test = "le" -> n <= t.entry.low
                               [] t.entry.test = "lt" -> n < t.entry.low
                               [] t.entry.test = "ge" -> n >= t.entry.low
                               [] t.entry.test = "gt" -> n > t.entry.low

(* A token for an address's family is one its parser can read.  There must  *)
(* be one; the negated ones must not hold and the others must, except that  *)
(* of several countries, AS numbers or registries one is enough.            *)
For(f, neg) == { t \in given : f \in t.reads /\ t.negate = neg }

Meant(a) ==
  LET f == a.family
  IN /\ \E t \in given : f \in t.reads
     /\ \A t \in For(f, TRUE) : ~Holds(t, a)
     /\ \A t \in For(f, FALSE) :
          IF t.kind \in DbKind THEN \E u \in For(f, FALSE) : u.kind = t.kind /\ Holds(u, a)
                               ELSE Holds(t, a)

(* Three things make an expression mean something else than its tokens: a   *)
(* negated type without a bit in the first word, or with one in the second  *)
(* (or with several); a family's name next to a type of that family, which  *)
(* it clears if it comes later; and a list that is full, from which a token *)
(* without the family's name has been left out.                             *)
Plain(f) ==
  /\ \A t \in For(f, TRUE) :
       t.kind = "type" => (f = "ipv6" => t.typeinfo2 = {}) /\ \E b \in Bit : t.typeinfo[f] = {b}
  /\ \A t, u \in For(f, FALSE) : ~(t.kind = "family" /\ u.kind = "type")
  /\ \A k \in ListKind : /\ Len(filter[f].must_have[k]) < Max[k]
                         /\ Len(filter[f].may_not_have[k]) < Max[k]

--------------------------------------------------------------------------------
(* Properties.                                                              *)

(* No list grows beyond its array, and what is printed is a line.           *)
TypeOK ==
  /\ phase \in {"options", "filtering", "stopped"}
  /\ given \subseteq Token
  /\ filter \in [Family -> FilterForm]
  /\ \A f \in Family, k \in ListKind :
       Len(filter[f].must_have[k]) <= Max[k] /\ Len(filter[f].may_not_have[k]) <= Max[k]
  /\ line \in Address \cup {NoLine} /\ printed \in BOOLEAN
  /\ printed => line # NoLine

(* Whatever the tokens, their order and repetition, exactly the lines are   *)
(* printed that the tokens mean, for expressions that are plain.            *)
SelectsAsMeant ==
  line # NoLine =>
    IF line.family \in Family THEN Plain(line.family) => (printed <=> Meant(line))
                              ELSE ~printed

--------------------------------------------------------------------------------
(* What the help says, which some expression refutes.                       *)

(* "negation of filter expression with prefix: ^": no line is printed of    *)
(* which a negated token holds.                                             *)
NegationExcludes ==
  printed => \A t \in For(line.family, TRUE) : ~Holds(t, line)

================================================================================
