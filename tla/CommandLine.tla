---------------------------- MODULE CommandLine ----------------------------
(***************************************************************************)
(* The arguments of the binary (imi/src/cli.rs) and the configuration they *)
(* become (imi-core/src/config.rs), with the arithmetic of the two numbers *)
(* a run paces itself by: the rate cap and the cooldown.                   *)
(***************************************************************************)
EXTENDS Naturals

CONSTANTS
  U64_MAX,         \* the largest u64
  KIB,             \* 1024
  Digits,          \* the numbers an argument can hold
  BUF_SIZE,        \* bytes of one chunk
  TicksPerSecond,  \* ticks of cancellable_sleep in a second
  MAX_COOLDOWN_SECS,
  DEFAULT_COOLDOWN_SECS,
  None             \* an option that was left out, a number that does not parse

ASSUME CommandLineAssumption ==
  /\ U64_MAX \in Nat /\ KIB \in Nat \ {0, 1} /\ KIB < U64_MAX
  /\ Digits \subseteq 0 .. U64_MAX
  /\ BUF_SIZE \in Nat \ {0} /\ TicksPerSecond \in Nat \ {0}
  /\ BUF_SIZE * TicksPerSecond <= U64_MAX
  /\ DEFAULT_COOLDOWN_SECS \in 1 .. MAX_COOLDOWN_SECS
  /\ MAX_COOLDOWN_SECS < U64_MAX
  /\ None \notin Nat

\* A rate is digits and a suffix, in either case; "none" is a bare number, "?"
\* a character that is no suffix.
RateText == [num : Digits \cup {None}, suffix : {"none", "K", "M", "G", "?"}]

Multiplier(suffix) ==
  CASE suffix = "K" -> KIB
    [] suffix = "M" -> KIB * KIB
    [] suffix = "G" -> KIB * KIB * KIB
    [] suffix = "none" -> 1

Refusal == [ok |-> FALSE]
Value(n) == [ok |-> TRUE, value |-> n]

\* Mutant of parse_rate: zero is taken for "no cap".
ZeroTaken(s) ==
  IF \/ s.suffix = "?" \/ s.num = None
     \/ s.num * Multiplier(s.suffix) > U64_MAX
  THEN Refusal
  ELSE Value(s.num * Multiplier(s.suffix))

\* Mutant of parse_rate: the product is not checked.
Unchecked(s) ==
  IF s.suffix = "?" \/ s.num = None \/ s.num = 0 THEN Refusal
  ELSE Value(s.num * Multiplier(s.suffix))

\* checked_mul: a product beyond a u64 is refused, never wrapped.
parse_rate(s) ==
  IF \/ s.suffix = "?" \/ s.num = None \/ s.num = 0
     \/ s.num * Multiplier(s.suffix) > U64_MAX
  THEN Refusal
  ELSE Value(s.num * Multiplier(s.suffix))

validate_cooldown_secs(secs) == secs \in 1 .. MAX_COOLDOWN_SECS

\* Plain seconds: 30s does not parse.
parse_cooldown_secs(n) ==
  IF n # None /\ validate_cooldown_secs(n) THEN Value(n) ELSE Refusal

\* An option with a parser: left out, or what the parser makes of it.
Optional(given, parsed) == IF given THEN parsed ELSE Value(None)

\* -t without a value.
DefaultRate == [num |-> 8, suffix |-> "M"]

\* clap refuses what a parser refuses, and both cooldown options together.
Arguments ==
  [dev : BOOLEAN, yes : BOOLEAN, skip_verification : BOOLEAN, skip_cooldown : BOOLEAN,
   throttle : {Optional(FALSE, Refusal), Optional(TRUE, parse_rate(DefaultRate))}
                \cup {Optional(TRUE, parse_rate(s)) : s \in RateText},
   cooldown_secs : {Optional(FALSE, Refusal)}
                     \cup {Optional(TRUE, parse_cooldown_secs(n)) : n \in Digits \cup {None}}]

WellFormed(args) ==
  /\ args.throttle.ok /\ args.cooldown_secs.ok
  /\ ~(args.skip_cooldown /\ args.cooldown_secs.value # None)

-----------------------------------------------------------------------------
Config == [yes : BOOLEAN, skip_verification : BOOLEAN, skip_cooldown : BOOLEAN,
           throttle : (0 .. U64_MAX) \cup {None},
           cooldown_secs : (0 .. U64_MAX) \cup {None}]

\* Config::new: every safety step enabled, no cap.
new == [yes |-> FALSE, skip_verification |-> FALSE, skip_cooldown |-> FALSE,
        throttle |-> None, cooldown_secs |-> None]

to_config(args) ==
  [new EXCEPT !.yes = args.yes,
              !.skip_verification = args.skip_verification,
              !.skip_cooldown = args.skip_cooldown,
              !.throttle = args.throttle.value,
              !.cooldown_secs = args.cooldown_secs.value]

resolved_cooldown_secs(config) ==
  IF config.cooldown_secs = None THEN DEFAULT_COOLDOWN_SECS ELSE config.cooldown_secs

\* chunk_target_nanos, in ticks: how long one chunk should take.  A zero rate
\* is an error there too.
chunk_target_ok(throttle) == throttle # 0
chunk_target(throttle) ==
  IF throttle = None THEN 0 ELSE (BUF_SIZE * TicksPerSecond) \div throttle
=============================================================================
