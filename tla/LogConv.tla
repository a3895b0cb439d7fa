-------------------------------- MODULE LogConv --------------------------------
(***************************************************************************)
(* ipv6logconv: the first token of every log line is replaced by a name    *)
(* that a statistics program can group by.  There are three conversions;   *)
(* output type "any" applies two of them to each line.  A name is modelled *)
(* as the sequence of its labels, without the common ".ipv6calc".          *)
(*                                                                         *)
(* The cache is the ring of RingCache under a key of two parts, token and  *)
(* conversion, with a search of its own.                                   *)
(***************************************************************************)
EXTENDS RingCache, Sequences, FiniteSets, TLC

CONSTANTS
  Tokens,           \* what a line may begin with
  Kind,             \* [Tokens -> {"ipv6", "ipv4", "other"}]: what it is parsed as
  Typeinfo,         \* [Tokens -> SUBSET Flag]: the type of an IPv6 address
  Universal,        \* [Tokens -> BOOLEAN]: the bit 0x02 of its ninth octet
  Registry,         \* [Tokens -> label]: registry of the address, or of the IPv4 in it
  Vendor,           \* [Tokens -> name \cup {NoVendor}]: what the IEEE lists say
  VendorCut,        \* [name -> label]: the seven characters of it that are kept
  NoVendor,         \* a multicast address, or no lists
  OutputTypes,      \* the --out options to look at
  Limits,           \* the --cachelimit options to look at
  CACHE_LRU_SIZE,
  MaxLines          \* bound: the lines of a log

Conversion == {"addrtype", "ouitype", "ipv6addrtype"}

ASSUME LogConvAssumption ==
  /\ OutputTypes \subseteq Conversion \cup {"any"}
  /\ CACHE_LRU_SIZE \in Nat \ {0}
  /\ Limits \subseteq 1 .. CACHE_LRU_SIZE
  /\ MaxLines \in Nat

NoText == ""

(* A token has a character at least.                                        *)
ASSUME TokensAssumption == NoText \notin Tokens

VARIABLES
  outputtype, cache_lru_limit, flag_nocache,       \* the options
  cache,            \* max, last, and per slot the key's parts and the value
  cache_lru_statistics,
  line,             \* the last line: its token and the names printed for it
  lines

vars == <<outputtype, cache_lru_limit, flag_nocache, cache, cache_lru_statistics,
          line, lines>>

--------------------------------------------------------------------------------
(* The names.                                                               *)

(* The flags in the order of ipv6calc_ipv6addrtypestrings.                  *)
Order == << "link-local", "site-local", "compat-v4", "mapped", "unique-local-unicast",
            "6to4", "6bone", "global-unicast", "productive" >>

(* The first of some flags an address has, in that order.                   *)
FirstOf(order, flags) ==
  LET found == SelectSeq(order, LAMBDA f : f \in flags)
  IN IF found = <<>> THEN <<>> ELSE << Head(found) >>

Scope(t) ==
  LET found == FirstOf(Order, Typeinfo[t] \cap
                 { "global-unicast", "link-local", "site-local", "mapped", "compat-v4",
                   "unique-local-unicast" })
  IN IF found = <<>> THEN << "unknown" >> ELSE found

(* A Teredo prefix is named if it is within a range that is.                *)
GlobalType(t) ==
  LET found == FirstOf(Order, Typeinfo[t] \cap {"6to4", "6bone", "productive"})
  IN IF found # <<>> /\ "teredo" \in Typeinfo[t] THEN << "teredo" >> ELSE found

HasRegistry(t) ==
  Typeinfo[t] \cap {"6bone", "productive", "6to4", "mapped", "compat-v4", "teredo"} # {}

AddrType(t) ==
  CASE Kind[t] = "ipv6" ->
         (IF HasRegistry(t) THEN << Registry[t] >> ELSE <<>>)
           \o GlobalType(t) \o Scope(t) \o << "ipv6-addr", "addrtype" >>
    [] Kind[t] = "ipv4" -> << Registry[t], "ipv4-addr", "addrtype" >>
    [] OTHER -> << "reverse-lookup-successful", "addrtype" >>

Resolvable(t) ==
  Typeinfo[t] \cap {"link-local", "site-local", "global-unicast", "6bone", "6to4",
                    "unique-local-unicast", "teredo"} # {}

LocalScope(t) ==
  LET found == FirstOf(<< "6to4-microsoft", "iid-isatap", "iid-random", "teredo" >>, Typeinfo[t])
  IN CASE found = << "6to4-microsoft" >> -> "6to4-microsoft"
       [] found = << "iid-isatap" >> -> "ISATAP"
       [] found = << "iid-random" >> -> "local-scope-random"
       [] found = << "teredo" >> -> "local-scope-teredo"
       [] OTHER -> "local-scope"

(* The vendor list's name passes a buffer whose length is taken to be that  *)
(* of a pointer, so only its first seven characters are left.               *)
OuiLabel(t) ==
  CASE Kind[t] # "ipv6" -> "not-ipv6"
    [] Kind[t] = "ipv6" /\ ~Resolvable(t) -> "unresolvable"
    [] Kind[t] = "ipv6" /\ Resolvable(t) /\ Universal[t] ->
         IF Vendor[t] = NoVendor THEN "unresolvable"
         ELSE IF Vendor[t] = "" THEN "unknown" ELSE VendorCut[Vendor[t]]
    [] OTHER -> LocalScope(t)

IPv6Names ==
  [ f \in {"link-local", "site-local"} |-> f ]
    @@ "unique-local-unicast" :> "unique-local"
    @@ "6bone" :> "6bone-global" @@ "6to4" :> "6to4-global"
    @@ "productive" :> "productive-global"
    @@ "mapped" :> "mapped-ipv4" @@ "compat-v4" :> "compat-ipv4"

IPv6Label(t) ==
  LET found == FirstOf(<< "link-local", "site-local", "unique-local-unicast", "teredo",
                          "6bone", "6to4", "productive", "mapped", "compat-v4" >>, Typeinfo[t])
  IN CASE Kind[t] # "ipv6" -> << "not-ipv6" >>
       [] Kind[t] = "ipv6" /\ found = <<>> -> << "unknown-ipv6" >>
       [] Kind[t] = "ipv6" /\ found = << "teredo" >> ->
            << "teredo",
               IF "6bone" \in Typeinfo[t] THEN "6bone-global" ELSE "unknown-global" >>
       [] OTHER -> << IPv6Names[Head(found)] >>

NameOf(t, conversion) ==
  CASE conversion = "addrtype" -> AddrType(t)
    [] conversion = "ouitype" -> << OuiLabel(t), "ouitype" >>
    [] conversion = "ipv6addrtype" -> IPv6Label(t) \o << "ipv6addrtype" >>

(* Whether the conversion applies; where it does not, what it answers is    *)
(* not kept, and not printed either unless the output type is "any".        *)
Applies(t, conversion) ==
  \/ conversion = "addrtype"
  \/ conversion = "ouitype" /\ OuiLabel(t) \notin {"not-ipv6", "unresolvable"}
  \/ conversion = "ipv6addrtype" /\ Kind[t] = "ipv6"

--------------------------------------------------------------------------------
(* The cache.                                                               *)

Slot == 1 .. CACHE_LRU_SIZE
NoKey == [ token |-> NoText, conversion |-> NoText ]
Key(t, conversion) == [ token |-> t, conversion |-> conversion ]

(* A faulty form: the slot counted as filled last is looked at.             *)
Distances_max(c, t, conversion) ==
  IF flag_nocache \/ c.max = 0 THEN {}
  ELSE IF c.key[c.max].conversion = conversion
       THEN IF c.key[c.max].token = t THEN {0} ELSE {}
       ELSE Matches(c.key, c.max, c.last, Key(t, conversion))

(* The distances at which a key is found.  The search only goes on from the *)
(* newest slot if that slot is of another conversion; if it is of the same  *)
(* one, it is the only slot whose token is compared.                        *)
Distances(c, t, conversion) ==
  IF flag_nocache \/ c.max = 0 THEN {}
  ELSE IF c.key[c.last].conversion = conversion
       THEN IF c.key[c.last].token = t THEN {0} ELSE {}
       ELSE Matches(c.key, c.max, c.last, Key(t, conversion))

(* A faulty form: the value goes where the last one went.                   *)
Stored_stays(c, t, conversion, name) ==
  LET slot == NextLast(c.max, c.last, cache_lru_limit)
  IN [ max |-> NextMax(c.max, cache_lru_limit), last |-> slot,
       key |-> [c.key EXCEPT ![slot] = Key(t, conversion)],
       value |-> [c.value EXCEPT ![IF c.last = 0 THEN 1 ELSE c.last] = name] ]

Stored(c, t, conversion, name) ==
  LET slot == NextLast(c.max, c.last, cache_lru_limit)
  IN [ max |-> NextMax(c.max, cache_lru_limit), last |-> slot,
       key |-> [c.key EXCEPT ![slot] = Key(t, conversion)],
       value |-> [c.value EXCEPT ![slot] = name] ]

(* One conversion: the name, the cache after it, and the distance of the    *)
(* slot that answered (none if no slot did).                                *)
converttoken(c, t, conversion) ==
  LET found == Distances(c, t, conversion)
      name  == NameOf(t, conversion)
  IN IF found # {}
     THEN [ name |-> c.value[SlotAt(c.max, c.last, Nearest(found))],
            cache |-> c, hit |-> {Nearest(found)}, applies |-> TRUE ]
     ELSE [ name |-> name,
            cache |-> IF Applies(t, conversion) /\ ~flag_nocache
                      THEN Stored(c, t, conversion, name) ELSE c,
            hit |-> {}, applies |-> Applies(t, conversion) ]

--------------------------------------------------------------------------------
(* The lines.                                                               *)

CountHits(first, second) ==
  [ d \in DOMAIN cache_lru_statistics |->
      cache_lru_statistics[d] + Cardinality({d} \cap first) + Cardinality({d} \cap second) ]

Show(t, names) == line' = [ token |-> t, names |-> names ]

(* One conversion per line; a line whose token it does not apply to is      *)
(* left out.                                                                *)
ConvertLine(t) ==
  LET r == converttoken(cache, t, outputtype)
  IN /\ outputtype # "any"
     /\ cache' = r.cache
     /\ cache_lru_statistics' = CountHits(r.hit, {})
     /\ IF r.applies THEN Show(t, << r.name >>) ELSE UNCHANGED line

(* Two conversions of the first token of a line with at least three.        *)
ConvertLineAny(t) ==
  LET r == converttoken(cache, t, "addrtype")
      q == converttoken(r.cache, t, "ouitype")
  IN /\ outputtype = "any"
     /\ cache' = q.cache
     /\ cache_lru_statistics' = CountHits(r.hit, q.hit)
     /\ Show(t, << r.name, q.name >>)

(* A shorter line is given up after the first conversion.                   *)
ConvertShortLineAny(t) ==
  LET r == converttoken(cache, t, "addrtype")
  IN /\ outputtype = "any"
     /\ cache' = r.cache
     /\ cache_lru_statistics' = CountHits(r.hit, {})
     /\ Show(t, << r.name >>)

Init ==
  /\ outputtype \in OutputTypes
  /\ cache_lru_limit \in Limits
  /\ flag_nocache \in BOOLEAN
  /\ cache = [ max |-> 0, last |-> 0, key |-> [s \in Slot |-> NoKey],
               value |-> [s \in Slot |-> <<>>] ]
  /\ cache_lru_statistics = [ d \in 0 .. (CACHE_LRU_SIZE - 1) |-> 0 ]
  /\ line = [ token |-> NoText, names |-> <<>> ]
  /\ lines = 0

Line(t) ==
  \/ ConvertLine(t)
  \/ ConvertLineAny(t)
  \/ ConvertShortLineAny(t)

Next ==
  /\ lines < MaxLines
  /\ lines' = lines + 1
  /\ \E t \in Tokens : Line(t)
  /\ UNCHANGED <<outputtype, cache_lru_limit, flag_nocache>>

Spec == Init /\ [][Next]_vars

--------------------------------------------------------------------------------
(* Properties.                                                              *)

(* Every variable holds a value of its kind; what a slot holds is a name.   *)
TypeOK ==
  /\ outputtype \in OutputTypes /\ cache_lru_limit \in Limits
  /\ cache.max \in 0 .. CACHE_LRU_SIZE /\ cache.last \in 0 .. CACHE_LRU_SIZE
  /\ cache.key \in [Slot -> {NoKey} \cup [token : Tokens, conversion : Conversion]]
  /\ cache.value \in [Slot -> {<<>>} \cup { NameOf(t, c) : t \in Tokens, c \in Conversion }]
  /\ cache_lru_statistics \in [0 .. (CACHE_LRU_SIZE - 1) -> Nat]
  /\ line.token \in Tokens \cup {NoText} /\ Len(line.names) <= 2

Filled == { s \in Slot : cache.key[s] # NoKey }

(* The filled slots are the first ones, within the limit the user set, and  *)
(* the newest of them is one of these; the ring wraps only when it is full. *)
RingIntact ==
  /\ cache.max <= cache_lru_limit
  /\ Filled = 1 .. cache.max
  /\ cache.last \in Filled \cup {0} /\ (cache.last = 0 => cache.max = 0)
  /\ cache.max < cache_lru_limit => cache.last = cache.max

(* The conversions of a line, in order.                                     *)
Conversions == IF outputtype = "any" THEN << "addrtype", "ouitype" >> ELSE << outputtype >>

(* What is printed for a token is what is printed without the cache, which  *)
(* lines came before or in between; a slot never has a name of another key. *)
NamesAreTransparent ==
  /\ \A s \in Filled : cache.value[s] = NameOf(cache.key[s].token, cache.key[s].conversion)
  /\ \A i \in DOMAIN line.names :
       line.names[i] = NameOf(line.token, Conversions[i])

(* With a single conversion, a token that comes again right after it was    *)
(* converted is always found, whatever else the ring holds.                 *)
RepeatIsFound ==
  [][ \A t \in Tokens :
        /\ line.token = t /\ (line').token = t
        /\ outputtype # "any" /\ ~flag_nocache
        => cache' = cache ]_vars

================================================================================
