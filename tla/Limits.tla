------------------------------- MODULE Limits -------------------------------
(***************************************************************************)
(* limits.rs, and what main.rs and service.rs derive from it: the ceilings *)
(* a process starts with, the settings of one call under them, and the     *)
(* limits it advertises.  The numbers are scaled down and keep their       *)
(* relations: a size is given in units of Mib bytes, a byte count has the  *)
(* width of Word64 and an option or an advertised limit that of Word32.  A *)
(* release build multiplies without a check, so a product wraps.           *)
(***************************************************************************)
EXTENDS Integers

CONSTANTS
    Mib,             \* MIB
    Word64, Word32,  \* 2^64 and 2^32
    BudgetUnit,      \* BUDGET_UNIT
    MaxPermits,      \* Semaphore::MAX_PERMITS
    Environments,    \* what operators set, 0 standing for nothing readable
    ParseOptions     \* what calls ask for, 0 standing for no preference

\* What an environment sets, each as env_u64 reads it.
Settings ==
    [document : 0..Word64 - 1, uncompressed : 0..Word64 - 1, buffered : 0..Word64 - 1,
     entries : 0..Word64 - 1, ratio : 0..Word64 - 1, floor : 0..Word64 - 1,
     parses : 0..Word64 - 1, chunk : 0..Word64 - 1, idle : 0..Word64 - 1]

\* The ParseOptions of a call; the switches are asked for alike.
Options ==
    [document : 0..Word32 - 1, uncompressed : 0..Word32 - 1, entries : 0..Word32 - 1,
     ratio : 0..Word32 - 1, switch : {"unset", "on", "off"}, emit_document : BOOLEAN]

ASSUME LimitsAssumption ==
    /\ {Mib, Word64, Word32, BudgetUnit, MaxPermits} \subseteq Nat \ {0}
    /\ Mib < Word32 /\ Word32 < Word64
    /\ BudgetUnit * MaxPermits >= Word64
    /\ Environments \subseteq Settings
    /\ ParseOptions \subseteq Options

VARIABLES env, asked   \* the environment of the process, and the options of a call

limitVars == <<env, asked>>

Lesser(a, b) == IF a <= b THEN a ELSE b
Greater(a, b) == IF a >= b THEN a ELSE b

-----------------------------------------------------------------------------
(* Arithmetic.                                                             *)

Wrapping(n) == n % Word64
Saturating(n) == Lesser(n, Word64 - 1)
DivCeil(n, unit) == (n + unit - 1) \div unit

\* u32::try_from(n).unwrap_or(u32::MAX)
Narrowed(n) == Lesser(n, Word32 - 1)

-----------------------------------------------------------------------------
(* The process.                                                            *)

DefaultDocument == 2        \* DEFAULT_MAX_DOCUMENT_MIB
DefaultUncompressed == 2 * DefaultDocument
DefaultParses == 2          \* DEFAULT_MAX_CONCURRENT_PARSES
DefaultEntries == 3         \* DEFAULT_MAX_ENTRIES
DefaultRatio == 4           \* DEFAULT_MAX_COMPRESSION_RATIO
DefaultTimeout == 5         \* DEFAULT_IDLE_TIMEOUT, in milliseconds

\* env_u64: zero and what does not parse mean the default.
EnvU64(value, default) == IF value = 0 THEN default ELSE value

\* Mutant: the budget is taken as it is set.
BufferedMib_AsSet(e) ==
    EnvU64(e.buffered, Saturating(EnvU64(e.document, DefaultDocument) * EnvU64(e.parses, DefaultParses)))

\* One upload per parse slot unless set, and never less than one upload.
BufferedMib(e) ==
    Greater(EnvU64(e.document, DefaultDocument),
            EnvU64(e.buffered, Saturating(EnvU64(e.document, DefaultDocument)
                                          * EnvU64(e.parses, DefaultParses))))

\* Limits::from_env.
FromEnv(e) ==
    [max_document |-> Wrapping(EnvU64(e.document, DefaultDocument) * Mib),
     max_uncompressed |-> Wrapping(EnvU64(e.uncompressed, DefaultUncompressed) * Mib),
     max_entries |-> Narrowed(EnvU64(e.entries, DefaultEntries)),
     max_ratio |-> Narrowed(EnvU64(e.ratio, DefaultRatio)),
     floor |-> EnvU64(e.floor, Mib),
     max_chunk |-> EnvU64(e.chunk, Mib),
     max_parses |-> EnvU64(e.parses, DefaultParses),
     max_buffered |-> Saturating(BufferedMib(e) * Mib)]

\* with_metrics: the permits of the upload budget, which is no smaller than one
\* upload whoever made the limits.
BudgetPermits(limits) ==
    Lesser(DivCeil(Greater(limits.max_buffered, limits.max_document), BudgetUnit), MaxPermits)

\* serve and with_idle_timeout: zero is the default, and no timeout is zero.
Timeout(seconds) == IF seconds = 0 THEN DefaultTimeout ELSE seconds * 1000
AtLeastOneMilli(timeout) == Greater(timeout, 1)

\* into_service: the message size at which the transport gives up.
Backstop(limits) == Saturating(2 * limits.max_chunk)

-----------------------------------------------------------------------------
(* A call.                                                                 *)

\* Mutant: a request counts as it is.
Narrow_AsAsked(requested, ceiling, unit) ==
    IF requested = 0 THEN ceiling ELSE Saturating(requested * unit)

\* narrow, the lower of the two.
Narrow(requested, ceiling, unit) ==
    IF requested = 0 THEN ceiling ELSE Lesser(ceiling, Saturating(requested * unit))

\* An optional switch, its default when the call does not say.
Switch(value, default) == IF value = "unset" THEN default ELSE value = "on"

\* Limits::resolve.
Resolve(limits, o) ==
    [max_document |-> Narrow(o.document, limits.max_document, Mib),
     max_uncompressed |-> Narrow(o.uncompressed, limits.max_uncompressed, Mib),
     max_entries |-> Narrow(o.entries, limits.max_entries, 1),
     max_ratio |-> Narrow(o.ratio, limits.max_ratio, 1),
     floor |-> limits.floor,
     emit_document |-> o.emit_document,
     include_images |-> Switch(o.switch, TRUE),
     include_stylesheets |-> Switch(o.switch, FALSE),
     include_all_resources |-> Switch(o.switch, FALSE),
     parse_navigation |-> Switch(o.switch, TRUE),
     parse_media_overlays |-> Switch(o.switch, FALSE)]

\* Mutant: cut to the width of the field.
AdvertisedMib_Cut(bytes) == Greater(bytes \div Mib, 1) % Word32

\* mib of to_proto: rounded down, and never zero.
AdvertisedMib(bytes) == Narrowed(Greater(bytes \div Mib, 1))

\* to_proto, as GetServiceInfo answers it.
Advertised(limits) ==
    [document |-> AdvertisedMib(limits.max_document),
     uncompressed |-> AdvertisedMib(limits.max_uncompressed),
     entries |-> limits.max_entries, ratio |-> limits.max_ratio, floor |-> limits.floor,
     chunk |-> limits.max_chunk, parses |-> Narrowed(limits.max_parses),
     buffered |-> AdvertisedMib(limits.max_buffered)]

-----------------------------------------------------------------------------
DefaultEnvironment ==
    [document |-> 0, uncompressed |-> 0, buffered |-> 0, entries |-> 0, ratio |-> 0, floor |-> 0,
     parses |-> 0, chunk |-> 0, idle |-> 0]
NoPreference ==
    [document |-> 0, uncompressed |-> 0, entries |-> 0, ratio |-> 0, switch |-> "unset",
     emit_document |-> FALSE]

\* What GetServiceInfo says of the limits in force.
ServiceInfo == Advertised(FromEnv(env))

LimitsInit == env \in Environments /\ asked = NoPreference

Ask == asked' \in ParseOptions /\ UNCHANGED env

-----------------------------------------------------------------------------
(* Properties, of every environment and every call.                        *)

\* A call gets no more than the process allows, whatever it asks for and
\* whatever the process made of its environment; and asking never turns a
\* limit that is there into none.
NeverLooser ==
    LET limits == FromEnv(env)
        call == Resolve(limits, asked)
    IN  \A f \in {"max_document", "max_uncompressed", "max_entries", "max_ratio"} :
            /\ call[f] <= limits[f]
            /\ limits[f] > 0 => call[f] > 0

\* The limits fit together even where a product wraps or saturates: the budget
\* holds the largest upload a call may send, in whole permits; a chunk just
\* past its cap is still read, to be refused by name; and no timeout is zero.
LimitsFitTogether ==
    LET limits == FromEnv(env)
    IN  /\ limits.max_buffered >= limits.max_document
        /\ DivCeil(limits.max_document, BudgetUnit) <= BudgetPermits(limits)
        /\ limits.max_chunk < Word64 - 1 => Backstop(limits) > limits.max_chunk
        /\ AtLeastOneMilli(Timeout(env.idle)) > 0

\* What GetServiceInfo tells is what calls get: the advertised size is never
\* more than the ceiling, and a call that asks for it loses less than one unit.
AdvertisedIsGranted ==
    LET limits == FromEnv(env)
        told == ServiceInfo
        call == Resolve(limits, [NoPreference EXCEPT !.document = told.document,
                                                     !.uncompressed = told.uncompressed])
    IN  \A size \in {<<told.document, call.max_document, limits.max_document>>,
                     <<told.uncompressed, call.max_uncompressed, limits.max_uncompressed>>} :
            /\ size[3] >= Mib => size[1] * Mib <= size[3]
            /\ size[1] < Word32 - 1 => size[2] > size[3] - Mib
=============================================================================
