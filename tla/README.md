# TLA+ models of ipv6calc

ipv6calc is a family of programs around IPv4, IPv6, MAC and EUI-64 addresses: a
converter (`ipv6calc`), three log filters (`ipv6loganon`, `ipv6logconv`,
`ipv6logstats`), an Apache module (`mod_ipv6calc`) and a CGI front end, on top of
common libraries for addresses and a wrapper around several geolocation
databases. This directory holds TLA+ models of the parts with state or with
intricate encodings, TLC configurations that check them on small instances, and
proofs that TLAPS checks for every value of the constants.

Contents: [inventory](#inventory), [modules](#modules),
[correspondence](#how-the-modules-correspond-to-the-code),
[runs](#runs), [bounds](#bounds-and-why-they-are-enough),
[fairness](#fairness), [proofs](#proofs),
[disagreements](#where-the-code-and-its-documentation-disagree),
[not modelled](#what-is-not-modelled), [plan](#plan).

## Inventory

| component | state it keeps | operations | what is hard | what makes it correct |
|---|---|---|---|---|
| mod_ipv6calc, fixup hook | per httpd child: two rings of addresses (IPv4, IPv6) with stored data, their indexes, lookup and hit counters, all static and shared by the virtual hosts | one hook per request: choice of the address, search, hit, miss with insertion, uncached | the ring's index arithmetic; one cache under several configurations; stale slots; replacement of children | a hit answers what a lookup would answer; no address twice; indexes in range |
| mod_ipv6calc, configuration and start | a record per server section with a directive, one list of options, flags for what the databases support | directives (in `.htaccess` files, too), `post_config`, `child_init` | order of directives and options; fallback of the anonymization method; what is decided for the main server alone | the method in effect is the one asked for, or a needed fallback, and the one told |
| ipv6loganon | static cache of tokens and results, hit statistics; address structures on the stack | one line: search, parse, anonymize, insert, or drop | the same ring; structures that are not reset | what is printed for a token does not depend on the lines before |
| ipv6logconv | static cache of names by token and conversion | one line: search, convert, insert; twice for output type any | the search depends on the newest slot's conversion | the names do not depend on the cache |
| ipv6logstats | counters per line, family, country, AS number, registry, interface identifier | one line: look up and increment | which counters exist; what an anonymized address still tells | raw and anonymized logs give the same result, as far as the encoding has room for it |
| address libraries (`libipv4addr`, `libipv6addr`) | address records (a value with type bits) | classify, mask, anonymize, format, parse | packed fields, parity and checksum that mark anonymized addresses | anonymization is final and keeps what its method promises |
| MAC, EUI-64, IEEE | none | anonymize, vendor lookup | masks by vendor block size | vendor prefix is kept |
| database wrapper | order of the sources, sources of each feature, and per kind of lookup the last address, answer and source | options, initialisation, lookup by address | what is remembered of the last lookup, selection and order of sources | an answer depends on the question alone and comes from the preferred source |
| filters | per family two words of types, lists of countries, AS numbers, registries and addresses, each to be there or not to be there | parse a token, check the databases, filter a line | twelve nearly equal lists in two copies of the code; order and repetition of tokens | an expression selects what its tokens mean |
| database backends | handle per file | open, query | external libraries | parameters of the models, apart from the built-in registry tables |
| RFC conversions | none | text to text | inverse pairs | converting back gives the original |
| other actions of the command line, showinfo, help, CGI | none across calls | choose an action, print | combinations of options | not a matter of state |

Components call each other as functions in one thread: the log filters and the
module call the address libraries for type and anonymization; these call the
database wrapper for country, AS number, registry and GeonameID; the wrapper calls
back into the address libraries for the lookups of anonymized addresses. The
only channel between programs is the log file: ipv6loganon's output is
ipv6logstats' input.

There is no concurrency in the programs that read logs. httpd runs several
children; each has a copy of the module's statics. With the prefork MPM a child
serves one request at a time; with a threaded MPM the statics are shared without
a lock, which `ModThreads` models.

## Modules

| module | models |
|---|---|
| `RingCache` | index arithmetic of the ring that `mod_ipv6calc`, `ipv6loganon` and `ipv6logconv` each write out: search order, insertion |
| `LriList` | abstract specification: a list of the newest keys, up to a limit |
| `ModRequest` | the fixup hook of `mod_ipv6calc` with both rings, for all virtual hosts of a child; implements `LriList` |
| `ModThreads` | the same hook's ring under several threads, at the grain of its reads and writes |
| `ModConfig` | configuration and start of `mod_ipv6calc`, up to its children |
| `LookupService` | abstract specification: answers without a memory |
| `DbWrapper` | options, initialisation and lookups of the database wrapper; implements `LookupService` |
| `Filter` | `ipv6calc -A filter`: the tokens of an expression, and the lines it selects |
| `AddressInfo` | country code indexes, registries, built-in tables |
| `AnonIPv4` | types, anonymization and lookups of IPv4 addresses |
| `AnonIPv6` | the same for the prefix of an IPv6 address, with its checksum |
| `AnonPasses` | anonymization applied again and again, as state machine, with what must survive it |
| `LogAnon` | ipv6loganon line by line, with its cache |
| `LogConv` | ipv6logconv line by line, with its cache |
| `LogStats` | which counters of ipv6logstats a token increments, and the counting of a line |
| `LogPipe` | a log counted raw, and counted after ipv6loganon: composes `LogAnon`, `AnonIPv4`, `AnonIPv6` and `LogStats`, whose counters it keeps twice |
| `MCModRequest`, `MCModThreads`, `MCModConfig`, `MCDbWrapper`, `MCFilter`, `MCAnonPasses`, `MCLogPipe`, `MCLogConv` | small instances for TLC |
| `RingCache_proofs`, `ModRequest_proofs`, `ModThreads_proofs`, `ModConfig_proofs`, `DbWrapper_proofs`, `Filter_proofs`, `LogConv_proofs`, `Anonymization_proofs` | theorems |

Definitions whose names end in an underscore and a word (`NextLast_noWrap`,
`AsnCcPayload_16bits`, ...) are faulty forms of the definition that follows them, used to
see that a property notices the fault. They are not part of any specification.

## How the modules correspond to the code

**The ring** (`RingCache`; `mod_ipv6calc.c:754-843, 963-972`, `ipv6loganon.c:437-470, 558-578`).
`max` is the number of filled slots, `last` the newest one, both from 1, 0 when
empty. A search goes from the newest slot back to slot 1 and then from `max` down
to the slot after `last`; `SlotAt(max, last, d)` is the slot at distance `d`.
An insertion increments `max` below the limit, and increments `last` or wraps it
to 1 when it equals the limit.

**`ModRequest`** has one action, `Handle`, per way through
`ipv6calc_post_read_request`: `Disabled`, `Passive`, `UnsupportedFamily`,
`Uncached`, `CacheHit`, `CacheMiss`, and `NewChild` when httpd replaces the child.
State is the statics of the process: `lri_max`, `lri_last`, `lri_token`,
`lri_value`, `lri_checked`, `lri_statistics`, each per family. `conf` is the
configuration of all virtual hosts, chosen once. `response` is the environment
the request was left with. The database is an arbitrary function of the address,
which is what `DbWrapper` shows the wrapper to be.

**`ModThreads`** is the same hook in a child with several threads
(`mod_ipv6calc.c:728-1273`). Each thread has a place in the hook (`pc`) and its
locals; a step is one condition, one round of a search, or one read or write of
an index, in the order of the program: `Lookup`, `FoundNewest` or `NotNewest`,
`Backwards`, `TurnRound`, `RoundRobin`, `NotFound`, then `Hit` for each datum, or `Store`,
`Advance` or `Wrap`, `Grow`, `StoreToken`, and `StoreDatum` for each datum. What the compiler
may keep in a register or read again is a choice (`FoundNewest`, `ReadAgain`). `Arrive` is a new
request. A datum is represented by the address it is about, so `told` shows whose
data a request was answered with. `overlapped` and `disturbed` are history for the
property: whether two threads were ever storing at a time, and which requests
met the store of another thread. Not included: reordering of memory accesses by
the compiler or the processor, a token or text that is half written, and the
counters of lookups and hits. The module's test script loads whatever MPM the
system's httpd is configured with (`test_mod_ipv6calc.sh:112`), and nothing in the
module asks which it is.

**`ModConfig`** (`mod_ipv6calc.c:238-568, 1284-1645`). `Configure(h, d)` is a directive in
the section of server `h`, which thereby has a record of its own (`own`); the
module merges no records, so all others use the main server's. `ConfigureOption` adds
to the one list of options. `SupportInit`, `ApplyOption` (one per option), `DbWrapperInit` and
`ChooseMethod` are the parts of `ipv6calc_post_config`, which look at the main server's
record only; `NotEnabled` is its early return. Each way httpd is stopped leads to the
phase "stopped". `Override` is a directive in a `.htaccess` file, which changes the record
in the child; `NewChild` and `Restart` are httpd's. At a restart the module is loaded
anew, so that its statics start again. The databases are what the wrapper says
of its features, per source, and whether its initialisation fails.

**`DbWrapper`** (`libipv6calc_db_wrapper.c:102-451` initialisation, `:1176-1438` options,
`:1742-2269, 2527-2724` lookups). Options come first (`OptionDisable`, `OptionPriorization`), then
`WrapperInit` settles the order of priority and the sources of each feature: `Filled` is the loop
that puts the sources an order does not name behind it, one entry of the table of names after the other. `CcIndexByAddr`,
`AsNum32ByAddr` and `GeonameIDByAddr` each have a hit and a miss, with their own rules for what
is stored; `RegistryNumByAddr` remembers nothing, since it compares the places of addresses
in memory. What each source has, whether its file opens, and what it says of
an address are constants, chosen once; no code opens a file again.

**`Filter`** (`libipv6calc.c:560-634`, `libipv4addr.c:1297-1640`, `libipv6addr.c:2740-3213`,
`libipv6calc_db_wrapper.c:3586-3723`, `ipv6calc.c:895-985`). `FilterParse` is one token, offered to both families'
parsers; `FilterCheck` the test that the databases are there; `FilterLine` one line of
input. The parsers and filters of the two families are written twice in the
code and once here, with the family as parameter: they differ in the tables of
types and in the second word of types. A word of types is the set of its bits. A token is
given by what the tables say of it, not by its spelling.

**`AnonIPv4`** (`libipv4addr.c:324-459, 1028-1235, 1677-1820`). An address is the
tuple of its octets; the bit masks of the code are divisions and remainders.
`Type` is `ipv4addr_gettype`, first the detection of anonymized addresses by
parity and field values, then the special ranges. `Anonymize` is
`libipv4addr_anonymize`. `CountryOf`, `AsnOf`, `RegistryOf` and `GeonameOf` are the
four lookups with their cases for anonymized addresses; `Db...` is what the
wrapper answers for others.

**`AnonIPv6`** (`libipv6addr.c:381-437, 782-872, 2084-2120, 2265-2390, 3324-3670`).
A prefix is the tuple of its 16 hexadecimal digits. `Checksum` and `Verified` are
the two modes of `ipv6addr_checksum_anonymized_qword`.

**`AnonPasses`** (`PassSpec`): `Pass(m, w)` is one run of ipv6loganon over the address with method `m` and IPv4
mask `w`; the history variables `method` and `mask` record what was used first and
the shortest mask.

**`LogAnon`** (`ipv6loganon.c:308-581`): `Hit`, `AnonymizeIp`, `AnonymizeEui64`, `AnonymizeMac` and
`Drop` are the ways through `anonymizetoken`; `Store` is the insertion at its
end. `eui64addr` is what the function's EUI-64 structure holds, which nothing
initialises: it starts as anything other functions leave on the stack
(`Leftover`), and keeps what the last EUI-64 token put there unless overwritten.

**`LogConv`** (`ipv6logconv.c:257-395` lineparser, `:400-729` converttoken).
`ConvertLine` is a line under one conversion, `ConvertLineAny` the two conversions of
output type any, `ConvertShortLineAny` a line that ends after its first or second
token, which is given up after the first of them. `Distances` follows the code's
test order: the newest slot's conversion is compared first, and only if it is
another one are the older slots searched. A name is the sequence of its labels
(`AddrType`, `OuiLabel`, `IPv6Label`), `NoText` the token of a slot never written; a vendor's name is cut by `VendorCut`, because its
buffer's length is given as `sizeof` of a pointer (`:633`). The rest of the line and the
layout of the output are left out, so that a line of two tokens loses its newline
(`:361`) is not seen.

**`LogStats`** (`ipv6logstats.c:60-122, 321-387, 480-727, 752-835`): counters are a bag. `Counted4` and
`Counted6` give the counters an address increments, and `CountLine` the counters after a line;
the module has no variable, so that who keeps several sets of counters can use it. Countries are
counted by index, as in the code; `Report` (`:752-835`) is what is printed: the rows with the label
of each country, one per index, so that several may read "unknown".

**`LogPipe`**: `Line(t)` is one line of the log: counted by one ipv6logstats (`raw`), passed through
ipv6loganon, and its output counted by a second one (`anonymous`). `TokenForms` are the tokens a
line can begin with, as ipv6loganon classifies them. `Regular` says of which tokens the
statistics survive, but for the country: public IPv4 addresses with an AS number of at most 65535 and the
registry that the built-in tables derive from AS number and country, special IPv4 addresses that no database
gives an AS number, IPv4 addresses that are anonymized already, IPv6 addresses whose registry is
the one the packed country or AS number leads to, and EUI-64 addresses. `Located` says whose
country is counted under the same index afterwards: addresses whose country is known, and those
that are left alone. An unknown country becomes the index of its registry (or of LISP), which
is another counter with the same label.

## Runs

Passing runs:

| run | question | distinct states |
|---|---|---|
| `mod_request` | can the shared cache be noticed by any order of requests to virtual hosts that agree on it? Type correctness; `RingIntact`; `NoDuplicates`; `SlotsFresh` (what a slot holds is what a lookup would give); `HitIsTransparent`; `DistancesInRange`; refinement of `LriList` (`ImplementsList`) | all orders up to the bound |
| `mod_threads` | what can threads in one child do to each other? `TypeOK` (no search leaves the array); `RightUnlessOverlapped` (only a store that overlaps a request, or an earlier pair of stores, makes an answer wrong); `EveryRequestIsAnswered` (no search goes on for ever) | 737,086 |
| `mod_config` | which method of anonymization is in effect after any configuration, and when is httpd stopped? `TypeOK` (a cache limit the arrays have, wherever it comes from); `NoFallbackKeepsMethod`; `FallbackOnlyWhenNeeded`; `MethodIsNamed`; `StopsAsAsked` | 738,759 |
| `db_wrapper` | can what the wrapper remembers, or the order of its options, be told from its answers? `OrderAsAsked`, `RegistrySingleNewest`, `SourceIsPreferred`, refinement of `LookupService` (`ImplementsService`) | 8,841 |
| `filter` | does an expression select the lines its tokens mean, whatever their order and repetition? `TypeOK` (no list outgrows its array), `SelectsAsMeant` | 103,532 |
| `anon_passes` | what is left of an address after several anonymizations? `CountryKept`, `AsnKept`, `RegistryKept`, `GeonameKept`, `LispKept`, `SpecialKept`, and `Settled`: results of kp and kg are final under every later method and mask | 3,119 |
| `log_pipe` | how far does the log that ipv6loganon writes give the statistics of the raw log, whatever the state of its cache? `OneSlotPerToken`, `CacheIsTransparent`, `HitsAreReported`, `SameResult`, `LinesAgree` | 17,402 |
| `log_conv` | do the names ipv6logconv prints depend on its cache? Type correctness, `RingIntact`, `NamesAreTransparent`, `RepeatIsFound` | about 44,000 |

Runs that show a disagreement (see below): `mod_stale_slot`, `log_eui64`, `db_geonameid`,
`filter_negation`.

`MCAnonPasses` also evaluates three results of the repository's own tests
(`TestScenarios`), which ties the arithmetic of the models to the program's output. `MCLogPipe` evaluates the
report of one log before and after ipv6loganon (`UnknownIsDivided`), where the two disagree.

## Bounds and why they are enough

- `ModRequest`: two virtual hosts, four IPv4 and two IPv6 addresses (one mapped,
  one 6to4), limits of 1 to 3 in arrays of 4, `MaxChecked` lookups per child. More
  addresses than slots make the ring wrap and evict. The proofs remove these bounds.
- `AnonPasses`: `MaxPasses` = 3 runs, masks of 5, 8, 16 and 24 bits, twelve hosts per
  family that put each field at its least and greatest value, and the ends of each
  special range. Since results are final (`Settled`, proved), a third run adds
  nothing new. The proofs remove the bound and hold for all addresses.
- `LogPipe`: `MaxLines` = 4 with a ring of 2 slots and eleven tokens. Four lines insert
  three tokens into two slots and look one up again. `Anonymization_proofs` holds for any
  number of lines, any limit, all addresses and any databases.
- `LogConv`: six tokens, one for each way to be named (IPv4, 6to4 of the Microsoft
  kind, global with a known vendor, link-local with an unknown one, an address
  without a type, no address), every output type, limits 1 to 3 in an array of 4,
  with and without the cache, `MaxLines` = 6. Under output type any a line inserts
  up to twice, so six lines fill and wrap every ring.
- `ModThreads`: two threads, three addresses, a limit of 2 in arrays of 4, `MaxRequests` = 4,
  one datum. Three addresses in two slots wrap the ring and evict while the other
  thread searches; a token and one datum are enough to see a slot of which only a
  part is stored. The index moves by one per request, so `Size` is at least
  `MaxRequests`: past the limit it would leave the model's array.
- `ModConfig`: a main server and a virtual host, five installations, `MaxDirectives` = 5,
  `MaxOverrides` = 2, and a list of `OptionsMax` = 2 options, so that the list overflows. Five
  directives enable the module, forbid the fallback, set the method, disable a
  source and change one thing more.
- `DbWrapper`: `MaxOptions` = 2, which lets a second order of priority meet the entries the first
  left behind; four orders; three addresses, one of each way to be special; and
  three installations (sources that know different addresses, a file that does not
  open with a text that is refused, no MaxMindDB library).
- `Filter`: at most `MaxTokens` = 3 different tokens of twenty, each as often as wanted, lists of 3
  (countries and addresses) and 2 entries, six lines. The arrays of the code have
  other lengths; these are filled by repeating a token.

`CHECK_DEADLOCK FALSE` is set where a bound on the number of runs, lines, requests or
options ends the behaviour, where httpd or a program stops (`ModConfig`, `DbWrapper`,
`Filter`), and for the log, which has an end.

## Fairness

`ModThreads` assumes `WF_vars(Step(t))` for each thread `t`: the operating system runs every
thread that can run, and a thread inside the hook always can, since the hook takes
no lock and waits for nothing. `Arrive` is not fair: nothing makes requests come. Nor is
`ReadAgain`, a choice of the compiler. With this `EveryRequestIsAnswered` says that the search
ends although the index that bounds it moves. The part of this that is not about
scheduling is `EveryStepCounts`, which is proved for any number of threads (`StepsCount`): a
thread's stage in the hook and the slots or data left for it there only go down, by
each step of its own and by no step of another thread.

Elsewhere none is assumed. Every operation runs to its end in one step of the
caller, and the code promises nothing about requests, lines or tokens still to
come; those properties are safety properties, and the refinements are of safety.

## Proofs

Every safety property and every action property of the passing runs is proved for
all values of the constants, and so are both refinements of abstract specifications
and that `LogPipe` is a behaviour of ipv6loganon.

Everything is proved from the named `ASSUME`s of the modules: the type of the
configuration and the databases (any contents), limits between 1 and the
array's size, IPv4 masks of at least 4 bits, AS numbers and GeonameIDs of 32
bits (24 for the GeonameID of an IPv4 address, which the database is asked
for), a table of AS numbers that begins at 1, as the built-in one does
(`TablesAssumption`), a database that answers an index of two letters or
"unknown", tokens of the forms the programs tell apart (`TokenFormsAssumption`,
`TokensAssumption`), and that what the stack holds of an EUI-64 structure is an
EUI-64 address (`LeftoverAssumption`).

- `RingCache_proofs`: `MissIsAbsent` - the search visits every filled slot, so a miss
  means that the key is in none. It rests on `SlotAt` being onto the filled slots,
  and is used by the proofs of `ModRequest` and `LogAnon`.
- `ModRequest_proofs`: `TypeCorrect`; with the assumption that caching servers agree on the
  limit, `RingsStayIntact`, `NoAddressTwice`, `DistancesStayInRange` and
  `RingsImplementTheList`; with agreement on actions and anonymization too,
  `SlotsStayFresh` and `HitsAreTransparent`. `NoDuplicates` alone is not inductive: an insertion
  needs to know that the filled slots are the first ones (`RingIntact`) to conclude
  from the failed search that the address is in no slot.
- `ModThreads_proofs`, for any number of threads, slots and data. `TypeCorrect`: a search
  starts at the slot before the newest, which is one of the array only because `lri_last` is
  moved before `lri_max` grows. `Moved` states that order: if the ring is in use, or a thread is
  somewhere that takes it to be, `lri_last` is at least 1. `RightAnswers`: the invariant `RightInv`
  follows a store through its steps. As long as nothing has overlapped, at most one thread
  stores (`Alone`), it has the last values of the indexes in its registers and they stay
  within the limit (`Indexes`), every slot's data are about its token but for the one being
  filled (`Slots`, `Writer`), and a thread that is not disturbed has found a slot that nobody
  changes before it has answered (`Quiet`, `Reader`). `OneThreadIsRight` is the case of the MPM
  prefork, without exception. `StepsCount` is the measure for termination.
- `ModConfig_proofs`: `TypeCorrect`, and from one invariant `Settled` the four properties. `Settled`
  says for each phase how the method in the main server's record relates to the
  options applied so far (`Asked`); the properties only look at the end of the start.
- `DbWrapper_proofs`: `TypeCorrect`; `WrapperIsService`, the refinement, from `Remembered` (what is
  remembered is what a lookup would answer); `SourcePreferred` from `Sourced`, the same for
  sources, for which the lists of features must be known, too. `OrderIsAsAsked`: until the
  initialisation the order begins with the sources of the last option, all different
  (`OrderInv`). `FilledUnrolled` turns the recursive function of the loop into its six rounds, each
  round keeps what is before it and adds its source once (`BehindAdds`), and different sources
  that are all sources have six places (`AllHaveSixPlaces`). `RegistryIsSingleNewest` follows from the
  selection of the initialisation, which nothing changes afterwards.
- `Filter_proofs`: `TypeCorrect` and `SelectsCorrect`. The invariant `Gathered` describes each of a
  filter's lists and words as a function of the set of tokens given: a list that is not full
  holds exactly their entries, whatever the order and repetition; a word of types, for
  plain expressions, exactly their bits.
- `LogConv_proofs`: `TypeCorrect`, `RingStaysIntact`, `NamesStayTransparent`, `RepeatStaysFound`. The invariant
  says of every filled slot that it holds the name of its token in its conversion; unlike in
  the other two programs a token may be in several slots, so `MissIsAbsent` is of no use here.
  For repeated tokens `NewestShown` is needed: under a single conversion the token shown last
  is in the newest slot, the only one that is compared then.
- `Anonymization_proofs`, in three parts.
  - The encodings: lemmas on the fields (`FramedFields`, `FrameFields`, `AsnCcFields`,
    `GeonameFields` for the 27 bits of IPv4; `HexDigits`, `XorDigits`, `ChecksumExists`,
    `PackedFields` for IPv6): what is packed reads back, the parity or the checksum is
    right, the result is recognized. Then the invariant `PassInv`: an address whose first run
    used kp or kg is exactly what that run wrote for the origin. From it `PassesSettle`,
    `PassesTypeCorrect` and, with the lookups of packed fields, `CountryIsKept`, `AsnIsKept`,
    `GeonameIsKept`, `RegistryIsKept`, `LispIsKept`; `SpecialIsKept` rests on `SameNetSameType`:
    addresses of one /24 have one type.
  - The cache of ipv6loganon: `LogInv` adds to the type and ring facts that each filled slot
    holds a text faithful to its token; from it follow `NoTokenTwice`, `CacheStaysTransparent`,
    `EveryHitIsReported`. `Anonymous` is any function in this part.
  - The pipe: `PipeIsLog` (its log steps are ipv6loganon's), `NoAddressIsLost` for any log, and
    `SameStatistics`: for regular tokens, method kp and a mask of at least 24 bits the
    anonymized log gives the same counters of lines, AS numbers and registries as the raw one,
    and the same counters of countries too if all tokens are `Located`. `RegularCounted` says so of
    one token, by the lemmas on the encodings, and `PipeInv` of the whole log. The proof showed which
    tokens `Regular` has to leave out: special addresses with an AS number in a database, and
    IPv6 addresses with an unknown country and registry but a known AS number, are counted
    differently after the anonymization.

Only model-checked: `EveryRequestIsAnswered`, since liveness and the enabledness of steps are out
of the prover's reach. No module uses recursive operators; `Filled` is a recursive function.

## Where the code and its documentation disagree

Four are shown by a run whose counterexample is a short behaviour.

1. `mod_stale_slot` (`DataIsThisAddress`): two virtual hosts with different `ipv6calcAction`s share the cache; a miss
   stores only its own server's data, and a hit of the other reads what an
   earlier address left in the slot (`mod_ipv6calc.c:1077`).
2. `log_eui64` (`EachTokenOnItsOwn`): after a line with an EUI-64 address, MAC addresses are printed as that
   address (`ipv6loganon.c:474` resets two of the four structures).
3. `db_geonameid` (`GeonameIDTypeIsKept`): the kind of place that belongs to a GeonameID is told at the first lookup of
   an address and is "unknown" at the second: a hit passes through the code
   that stores a result (`libipv6calc_db_wrapper.c:2253`). The kind goes into the anonymized address.
4. `filter_negation` (`NegationExcludes`): types of IPv6's second word that may not be there are looked for in the
   first (`libipv6addr.c:3104`), so "^lisp" lets LISP addresses through and drops 6to4 ones.

Others are part of the models, where the properties are stated so as to leave
them out, or were met while reading:

- Module: the value for disabled actions is set on a miss only (`mod_ipv6calc.c:914`
  returns before `:1197`); with the registry action off, a known GeonameID is not told
  (`:1165`); with two different limits the ring's last index passes the smaller one and never
  wraps again (`:970`).
- Module with threads: a hit can answer with the data of another address, because its
  slot is overwritten while it is read; two stores at a time can share a slot; the
  index can run past the limit, since the test for the wrap is for equality. All
  of it takes a store that overlaps a request or another store.
- Configuration: with `keep-type-geonameid` the support of the method is not looked at, and
  with `keep-type-asn-cc` the fallback is only taken if neither method is supported (`:493`,
  `:513`). Only the main server is looked at: a virtual host with a record of its own
  stays enabled when the databases fail, anonymizes with the default method but
  tells the main server's, and, if the main server is not enabled, runs with
  databases nobody initialised. The fallback replaces masks that options had set.
  The directives are allowed in `.htaccess` files (`:216`), whose effect stays in the
  child. A debug level out of range is reported and assigned nevertheless (`:1486`).
- Wrapper: `NOT_TWO` in `DbWrapper`, a text of a country that is refused, leaves its source with an earlier
  country (`libipv6calc_db_wrapper.c:1775`); the number of a file's error can be told as a GeonameID; the
  two lookups of registries compare pointers to addresses, so their memory is never
  used. AS numbers above 65535 do not survive the 17 bits of an IPv4 address, since
  `:2071` masks other bits than it shifts, so that the AS counters of an anonymized
  log can differ from the raw log's.
- Statistics of an anonymized log: `man/ipv6loganon.8:56` says of `keep-type-asn-cc` that the "ipv6logstats(8) result
  should be the same as with raw data". It is not where a country is unknown: the anonymizer stores the index
  of the registry (`libipv4addr.c:1106-1111`), ipv6logstats counts per index (`ipv6logstats.c:345`) and
  prints a row per index (`:764-799`), all labelled "unknown". 1.2.3.4, of which only the registry is
  known, and 10.1.2.3 give one such row with 2 raw, and two with 1 each when anonymized
  (`UnknownIsDivided` in `MCLogPipe`). Each address keeps its label (`CountryKept`), so the sums over rows of
  one label agree. An IPv6 LISP address changes its index likewise. `SameResult` says what does hold.
- Addresses: the checksum lacks the step of ISO 7064 MOD 17,16 that replaces 0 by 16
  (`libipv6addr.c:404`).
- ipv6logconv: the loops over older slots are in the else branch of the test of the newest
  slot's conversion (`ipv6logconv.c:432`), so under a single output type only the newest slot is
  ever compared, and two addresses in turn fill the cache with copies.
- Filters: a family's name clears the types given before it (`libipv4addr.c:1304`); the negation of a
  type without bits restricts nothing; a token without a family's name that one family has
  no room for is left to the other; MAC lines are never printed.

Properties of passing runs leave out what these and some lesser effects make
impossible, each named where the property is defined: AS numbers above 65535 for
IPv4 in `AsnKept` and `LispKept`; LISP addresses in `CountryKept` and `GeonameKept`; an IPv6 address with
unknown country and unknown registry, whose index 1021 is that of LISP, in
`LispKept`; special ranges under masks shorter than 24 bits in `SpecialKept`, and such masks and
other methods than kp in `SameResult`; MAC tokens in
`CacheIsTransparent`; tokens outside `Regular` in `SameResult`, and
those outside `Located` in what it says of countries; databases with texts of other than two
characters for countries in `SourceIsPreferred`; requests that met another thread's store in
`RightUnlessOverlapped`; servers other than the main one in `MethodIsNamed`; expressions that are not `Plain` in
`SelectsAsMeant`.

## What is not modelled

- Parsing and formatting of addresses; tokens are already classified.
- The interface identifier of IPv6 addresses, its anonymization and its counters.
- Addresses with an IPv4 address in them (6to4, Teredo, NAT64, ISATAP) in the
  anonymizer and in ipv6logstats. The module's handling of them is modelled.
- MAC vendors with prefixes longer than 24 bits, and the masks beyond the presets.
- RFC conversions: pure functions between texts.
- The choice of action, input and output type in ipv6calc's `main`, and `--showinfo`: long case
  distinctions over the options of one call, without state.
- Logging of all programs and of the module, help texts, the CGI script, and the
  record formats of the external database libraries.

Of the repository's 128,000 lines of implementation about 84,000 are generated tables (the
IEEE headers and the IPv4 assignments), which the models take as arbitrary functions.
Most of the rest formats text, parses options, prints help, reads the files of
other people's libraries or is vendored. The lines that keep state or
make decisions are the ones modelled here, so the share of all lines must stay small.

`PROJECT.json` lists the reason for each component, and the hazards that no
property covers yet.

## Plan

In this order, most important behaviour first:

1. Interface identifiers and embedded IPv4 addresses in `AnonIPv6` and `LogStats`.
2. The composition of `ModConfig` with `ModRequest`: the configurations that can be left by
   `ChooseMethod` and `Override` as those the hook serves.
3. RFC conversions as pairs of functions with their inverses.
4. Theorems: that a ring of `ModThreads` whose stores do not overlap implements `LriList`, as
   `ModRequest` does; for the interface identifiers of 1, that anonymization is final; for 2, that the
   method told is the one that the hook's answers were anonymized with.
