----------------------------- MODULE RunRegistries -----------------------------
(***************************************************************************)
(* The two append-only registries of a run: the stream names of            *)
(* twinflow.rng (registry.py, derive.py) and the sensitivity hooks of      *)
(* twinflow.kernel (_impl/environment.py).                                 *)
(*                                                                         *)
(* A stream name is the sequence of its segments and a draw-order version  *)
(* (0 when it has none).  A segment is text, a slot filled from the        *)
(* template arguments, or something the grammar refuses.  The digest of    *)
(* derive_spawn_key and numpy's seeding are external and taken to be       *)
(* injective: a generator is named by its address and its four entropy     *)
(* words.                                                                  *)
(***************************************************************************)
EXTENDS Integers, Sequences, SequencesExt, FiniteSetsExt

CONSTANTS
    StreamNames,       \* names a caller may register or ask for
    Slugs, BadIds,     \* entity ids, and values that are none
    STREAM_COUNT_CEILING,
    Word,              \* 2^32
    BaseSeed, ReplicationIndex,
    HookNames, BadHookNames,
    MaxHandouts

VARIABLES
    declared,          \* _declared: sequence of [name, retired]
    handouts,          \* _handouts: sequence of the names handed out
    issued,            \* history: [name, args, generator]
    hooks              \* _hooks

registry_vars == <<declared, handouts, issued, hooks>>
-----------------------------------------------------------------------------
(* Names and addresses.                                                    *)

NameGrammar(name) ==
    /\ Len(name.segments) >= 2
    /\ \A i \in DOMAIN name.segments : name.segments[i].kind \in {"text", "slot"}
    /\ name.version >= 0

\* _PLACEHOLDER.findall
Placeholders(name) ==
    {name.segments[i].of : i \in {j \in DOMAIN name.segments :
                                     name.segments[j].kind = "slot"}}

\* Every occurrence of every placeholder is replaced by its entity id.
Resolve(name, args) ==
    [name EXCEPT !.segments =
        [i \in DOMAIN @ |-> IF @[i].kind = "slot"
                            THEN [kind |-> "text", of |-> args[@[i].of]] ELSE @[i]]]

\* _entropy: two 64-bit numbers as four words, refused outside of 64 bits.
Fits(n) == 0 <= n /\ n < Word * Word
Entropy(base_seed, replication) ==
    <<base_seed % Word, base_seed \div Word, replication % Word, replication \div Word>>

\* generator_for: the name is the address.
generator_for(address) ==
    [key |-> address, entropy |-> Entropy(BaseSeed, ReplicationIndex)]

ASSUME RegistryAssumption ==
    /\ Fits(BaseSeed) /\ Fits(ReplicationIndex)
    /\ STREAM_COUNT_CEILING \in Nat /\ MaxHandouts \in Nat
    /\ \A name \in StreamNames : /\ DOMAIN name = {"segments", "version"}
                                /\ name.segments \in Seq(Range(name.segments))
    /\ \A b, r, c, s \in 0..(Word * Word - 1) :
          Entropy(b, r) = Entropy(c, s) => b = c /\ r = s
-----------------------------------------------------------------------------
Declares(name) == \E i \in DOMAIN declared : declared[i].name = name
Retired(name) == \E i \in DOMAIN declared : declared[i].name = name /\ declared[i].retired

Register(name, retired) ==
    /\ NameGrammar(name)
    /\ ~Declares(name)
    /\ Len(declared) < STREAM_COUNT_CEILING
    /\ declared' = Append(declared, [name |-> name, retired |-> retired])
    /\ UNCHANGED <<handouts, issued, hooks>>

\* get(): the arguments are exactly the placeholders and every value is a slug.
Get(name, args) ==
    /\ Declares(name) /\ ~Retired(name)
    /\ DOMAIN args = Placeholders(name)
    /\ \A key \in DOMAIN args : args[key] \in Slugs
    /\ Len(handouts) < MaxHandouts
    /\ handouts' = Append(handouts, name)
    /\ issued' = Append(issued, [name |-> name, args |-> args,
                                 generator |-> generator_for(Resolve(name, args))])
    /\ UNCHANGED <<declared, hooks>>

RegisterHook(hook) ==
    /\ hook \in HookNames
    /\ ~Contains(hooks, hook)
    /\ hooks' = Append(hooks, hook)
    /\ UNCHANGED <<declared, handouts, issued>>

\* handout_counts
HandoutCount(name) == Cardinality({i \in DOMAIN handouts : handouts[i] = name})

ArgsFor(name) ==
    UNION {[keys -> Slugs \cup BadIds] : keys \in {Placeholders(name), {}}}

RegistryInit == declared = <<>> /\ handouts = <<>> /\ issued = <<>> /\ hooks = <<>>

RegistryNext ==
    \/ \E name \in StreamNames :
          \/ \E retired \in BOOLEAN : Register(name, retired)
          \/ \E args \in ArgsFor(name) : Get(name, args)
    \/ \E hook \in HookNames \cup BadHookNames : RegisterHook(hook)
-----------------------------------------------------------------------------
\* StreamRegistry.get: a name and its entity ids always address the same
\* stream, whatever was registered or handed out before, two different sets of
\* ids under one name never share one, and no address keeps a placeholder.
OneAddressOneStream ==
    \A i, j \in DOMAIN issued :
        /\ issued[i].name = issued[j].name =>
              (issued[i].args = issued[j].args <=> issued[i].generator = issued[j].generator)
        /\ Placeholders(Resolve(issued[i].name, issued[i].args)) = {}

\* StreamRegistry: the record of handouts accounts for every generator in use,
\* each under a name that is declared once, still live, and within the ceiling.
CatalogIsComplete ==
    /\ Len(declared) <= STREAM_COUNT_CEILING
    /\ \A i, j \in DOMAIN declared : declared[i].name = declared[j].name => i = j
    /\ \A i \in DOMAIN issued :
          /\ Declares(issued[i].name) /\ ~Retired(issued[i].name)
          /\ HandoutCount(issued[i].name)
               = Cardinality({j \in DOMAIN issued : issued[j].name = issued[i].name})
    /\ IsInjective(hooks)
=============================================================================
