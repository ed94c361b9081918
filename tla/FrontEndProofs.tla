--------------------------- MODULE FrontEndProofs ---------------------------
(***************************************************************************)
(* Proofs about the process around a run, for every image length, rate,    *)
(* cooldown and answer: what the screen shows, what an error says of       *)
(* itself, what the exit code is worth and how an interrupt is heard.      *)
(***************************************************************************)
EXTENDS FrontEnd, SequenceTheorems, TLAPS

-----------------------------------------------------------------------------
(* The options. *)

\* A product of positive numbers is positive.
LEMMA TimesPositive ==
  \A a, b \in Nat \ {0} : a * b \in Nat \ {0}
  OBVIOUS

\* What a rate is multiplied by is never zero.
LEMMA MultiplierPositive ==
  ASSUME NEW s \in {"none", "K", "M", "G"}
  PROVE  Multiplier(s) \in Nat \ {0}
<1>1. KIB \in Nat \ {0}
  BY CommandLineAssumption DEF CommandLineAssumption
<1>2. KIB * KIB \in Nat \ {0}
  BY <1>1, TimesPositive
<1>3. KIB * KIB * KIB \in Nat \ {0}
  BY <1>1, <1>2, TimesPositive
<1> QED
  BY <1>1, <1>2, <1>3 DEF Multiplier

\* A rate that parses is a positive u64.
LEMMA RateParsed ==
  ASSUME NEW s \in RateText \cup {DefaultRate}, parse_rate(s).ok
  PROVE  parse_rate(s).value \in 1 .. U64_MAX
<1>1. s.num \in Nat \cup {None} /\ s.suffix \in {"none", "K", "M", "G", "?"}
  <2>1. CASE s \in RateText
    <3>1. s.num \in Digits \cup {None} /\ s.suffix \in {"none", "K", "M", "G", "?"}
      BY <2>1 DEF RateText
    <3>2. Digits \subseteq Nat
      BY CommandLineAssumption DEF CommandLineAssumption
    <3> QED
      BY <3>1, <3>2
  <2>2. CASE s = DefaultRate
    BY <2>2 DEF DefaultRate
  <2> QED
    BY <2>1, <2>2
<1>2. /\ s.suffix # "?" /\ s.num # None /\ s.num # 0
      /\ ~(s.num * Multiplier(s.suffix) > U64_MAX)
      /\ parse_rate(s).value = s.num * Multiplier(s.suffix)
  BY DEF parse_rate, Refusal, Value
<1>3. s.num \in Nat \ {0} /\ Multiplier(s.suffix) \in Nat \ {0} /\ U64_MAX \in Nat
  BY <1>1, <1>2, MultiplierPositive, CommandLineAssumption DEF CommandLineAssumption
<1> QED
  BY <1>2, <1>3, TimesPositive

\* The options of a configuration that came out of the command line.
ConfigIsValid ==
  /\ config \in Config
  /\ config.throttle # 0
  /\ config.cooldown_secs # None => validate_cooldown_secs(config.cooldown_secs)

LEMMA OptionsParsed ==
  ASSUME NEW args \in Arguments, WellFormed(args), config' = to_config(args)
  PROVE  ConfigIsValid'
<1>1. args.throttle.ok /\ args.cooldown_secs.ok
  BY DEF WellFormed
<1>2. /\ args.yes \in BOOLEAN
      /\ args.skip_verification \in BOOLEAN /\ args.skip_cooldown \in BOOLEAN
  BY Zenon DEF Arguments
<1>3. args.throttle.value \in (1 .. U64_MAX) \cup {None}
  <2>1. \/ args.throttle = Value(None)
        \/ \E s \in RateText \cup {DefaultRate} : args.throttle = parse_rate(s)
    BY DEF Arguments, Optional
  <2> QED
    BY <1>1, <2>1, RateParsed DEF Value
<1>4. /\ args.cooldown_secs.value \in (0 .. U64_MAX) \cup {None}
      /\ args.cooldown_secs.value # None => validate_cooldown_secs(args.cooldown_secs.value)
  <2>1. \/ args.cooldown_secs = Value(None)
        \/ \E n \in Digits \cup {None} : args.cooldown_secs = parse_cooldown_secs(n)
    BY DEF Arguments, Optional
  <2>2. CASE args.cooldown_secs = Value(None)
    BY <2>2 DEF Value
  <2>3. ASSUME NEW n \in Digits \cup {None}, args.cooldown_secs = parse_cooldown_secs(n)
        PROVE  <1>4!:
    BY <1>1, <2>3, CommandLineAssumption DEF CommandLineAssumption, parse_cooldown_secs, Value, Refusal
  <2> QED
    BY <2>1, <2>2, <2>3
<1>5. /\ config'.throttle = args.throttle.value
      /\ config'.cooldown_secs = args.cooldown_secs.value
      /\ config' = [yes |-> args.yes, skip_verification |-> args.skip_verification,
                    skip_cooldown |-> args.skip_cooldown,
                    throttle |-> args.throttle.value,
                    cooldown_secs |-> args.cooldown_secs.value]
  BY DEF to_config, new
<1>6. config' \in Config
  BY <1>2, <1>3, <1>4, <1>5, CommandLineAssumption DEF CommandLineAssumption, Config
<1> QED
  BY <1>3, <1>4, <1>5, <1>6, CommandLineAssumption DEF CommandLineAssumption, ConfigIsValid

\* What a chunk should have taken is a number of ticks, whatever the rate.
LEMMA PaceType ==
  ASSUME ConfigIsValid, NEW took \in {0, chunk_target(config.throttle)}
  PROVE  chunk_target(config.throttle) - took \in Nat
<1>1. \A a \in Nat, b \in Nat \ {0} : a \div b \in Nat
  BY Z3
<1>2. \A a, b \in Nat : a * b \in Nat
  BY Z3
<1>3. BUF_SIZE * TicksPerSecond \in Nat
  BY <1>2, CommandLineAssumption DEF CommandLineAssumption
<1>4. config.throttle = None \/ config.throttle \in Nat \ {0}
  BY CommandLineAssumption DEF CommandLineAssumption, ConfigIsValid, Config
<1>5. chunk_target(config.throttle) \in Nat
  BY <1>1, <1>3, <1>4 DEF chunk_target
<1> QED
  BY <1>5

\* So the checks of Phases 0, 4 and 5 never refuse.
LEMMA OptionsHold ==
  ASSUME ConfigIsValid
  PROVE  /\ chunk_target_ok(config.throttle)
         /\ validate_cooldown_secs(resolved_cooldown_secs(config))
         /\ resolved_cooldown_secs(config) \in Nat \ {0}
  BY CommandLineAssumption
     DEF CommandLineAssumption, ConfigIsValid, chunk_target_ok, resolved_cooldown_secs, validate_cooldown_secs

-----------------------------------------------------------------------------
(* The error on its way up. *)

\* What a cause makes of the error around it.
Kind(type) ==
  CASE type = "cancelled" -> "Cancelled"
    [] type = "mismatch" -> "VerificationFailed"
    [] OTHER -> "Failed"

Distinct(s) == \A i, j \in DOMAIN s : s[i] = s[j] => i = j

\* An error of a cause of this type that says what is in Words, each once.
Says(e, type, Words) ==
  /\ e \in Error(Text)
  /\ e.kind = Kind(type)
  /\ Distinct(e.chain)
  /\ \A i \in DOMAIN e.chain : e.chain[i] \in Words

\* A chain with one more layer on top.
LEMMA OnTop ==
  ASSUME NEW S, NEW d \in S, NEW s \in Seq(S), Distinct(s), \A i \in DOMAIN s : s[i] # d
  PROVE  /\ <<d>> \o s \in Seq(S)
         /\ Distinct(<<d>> \o s)
         /\ \A i \in DOMAIN (<<d>> \o s) :
              (<<d>> \o s)[i] = d \/ \E j \in DOMAIN s : (<<d>> \o s)[i] = s[j]
<1> DEFINE t == <<d>> \o s
<1>1. <<d>> \in Seq(S) /\ Len(<<d>>) = 1 /\ <<d>>[1] = d
  OBVIOUS
<1>2. /\ t \in Seq(S) /\ Len(t) = 1 + Len(s)
      /\ \A i \in 1 .. 1 + Len(s) : t[i] = IF i <= 1 THEN <<d>>[i] ELSE s[i - 1]
  BY <1>1, ConcatProperties
<1>3. Len(s) \in Nat /\ DOMAIN s = 1 .. Len(s) /\ DOMAIN t = 1 .. 1 + Len(s)
  BY <1>2, LenProperties
<1> HIDE DEF t
<1>4. t[1] = d
  BY <1>1, <1>2, <1>3
<1>5. ASSUME NEW i \in DOMAIN t, i # 1
      PROVE  i - 1 \in DOMAIN s /\ t[i] = s[i - 1] /\ i \in Int
  BY <1>2, <1>3, <1>5
<1>6. ASSUME NEW i \in DOMAIN t, NEW j \in DOMAIN t, t[i] = t[j]
      PROVE  i = j
  <2>1. CASE i = 1 \/ j = 1
    BY <1>4, <1>5, <1>6, <2>1
  <2>2. CASE i # 1 /\ j # 1
    <3>1. i - 1 \in DOMAIN s /\ j - 1 \in DOMAIN s /\ s[i - 1] = s[j - 1] /\ i \in Int /\ j \in Int
      BY <1>5, <1>6, <2>2
    <3>2. i - 1 = j - 1
      BY <3>1 DEF Distinct
    <3> QED
      BY <3>1, <3>2
  <2> QED
    BY <2>1, <2>2
<1>7. ASSUME NEW i \in DOMAIN t
      PROVE  t[i] = d \/ \E j \in DOMAIN s : t[i] = s[j]
  BY <1>4, <1>5
<1>8. t \in Seq(S) /\ Distinct(t)
  BY <1>2, <1>6 DEF Distinct
<1> QED
  BY <1>7, <1>8 DEF t

\* A message by itself, and a value that became one.
LEMMA MsgSays ==
  ASSUME NEW d \in Text, NEW type \in {"refused", "option"}
  PROVE  Says(msg(d), type, {d})
  BY DEF Says, msg, Error, ErrorKind, DeviceState, Kind, Distinct

LEMMA SourceSays ==
  ASSUME NEW type \in {"cancelled", "mismatch", "io"}, NEW d \in Text
  PROVE  Says(from_source([type |-> type, text |-> d]), type, {d})
<1>1. kind_of([type |-> type, text |-> d]) = Kind(type)
  BY DEF kind_of, IsError, Kind
<1>2. Kind(type) \in ErrorKind
  BY DEF Kind, ErrorKind
<1> QED
  BY <1>1, <1>2 DEF Says, from_source, Error, DeviceState, Distinct

\* A layer over such an error, and over a value.
LEMMA LayerSays ==
  ASSUME NEW Words, NEW d \in Text, d \notin Words, NEW e, NEW type, Says(e, type, Words)
  PROVE  Says(layer(d, e), type, Words \cup {d})
<1>1. e.chain \in Seq(Text) /\ Distinct(e.chain) /\ e.kind = Kind(type)
      /\ e.device \in DeviceState /\ e.kind \in ErrorKind /\ IsError(e)
      /\ \A i \in DOMAIN e.chain : e.chain[i] \in Words
  BY DEF Says, Error, IsError
<1>2. layer(d, e) = [chain |-> <<d>> \o e.chain, kind |-> e.kind, device |-> e.device]
  BY <1>1 DEF layer, Beneath, kind_of
<1> DEFINE t == <<d>> \o e.chain
<1>3. /\ t \in Seq(Text) /\ Distinct(t)
      /\ \A i \in DOMAIN t : t[i] = d \/ \E j \in DOMAIN e.chain : t[i] = e.chain[j]
  BY <1>1, OnTop
<1> HIDE DEF t
<1> QED
  BY <1>1, <1>2, <1>3 DEF Says, Error, t

LEMMA LayerOfValue ==
  ASSUME NEW type \in {"cancelled", "mismatch", "io"}, NEW x \in Text, NEW d \in Text, d # x
  PROVE  Says(layer(d, [type |-> type, text |-> x]), type, {x, d})
<1> DEFINE v == [type |-> type, text |-> x]
<1>1. layer(d, v) = [chain |-> <<d>> \o <<x>>, kind |-> kind_of(v), device |-> "Indeterminate"]
  BY DEF layer, Beneath, IsError
<1>2. kind_of(v) = Kind(type) /\ Kind(type) \in ErrorKind
  BY DEF kind_of, IsError, Kind, ErrorKind
<1> DEFINE s == <<x>>
           t == <<d>> \o s
<1>3. s \in Seq(Text) /\ Distinct(s) /\ \A i \in DOMAIN s : s[i] = x /\ s[i] # d
  BY DEF Distinct
<1>4. layer(d, v) = [chain |-> t, kind |-> kind_of(v), device |-> "Indeterminate"]
  BY <1>1
<1> HIDE DEF s, v
<1>5. /\ t \in Seq(Text) /\ Distinct(t)
      /\ \A i \in DOMAIN t : t[i] = d \/ \E j \in DOMAIN s : t[i] = s[j]
  BY <1>3, OnTop
<1> HIDE DEF t
<1>6. Says(layer(d, v), type, {x, d})
  BY <1>2, <1>3, <1>4, <1>5 DEF Says, Error, DeviceState
<1> QED
  BY <1>6 DEF v

\* context, which keeps all of the error but its chain.
LEMMA ContextSays ==
  ASSUME NEW Words, NEW d \in Text, d \notin Words, NEW e, NEW type, Says(e, type, Words)
  PROVE  Says(context(e, d), type, Words \cup {d})
<1>1. e \in Error(Text) /\ Distinct(e.chain) /\ e.kind = Kind(type)
      /\ \A i \in DOMAIN e.chain : e.chain[i] \in Words
  BY DEF Says
<1> DEFINE t == <<d>> \o e.chain
<1>2. /\ t \in Seq(Text) /\ Distinct(t)
      /\ \A i \in DOMAIN t : t[i] = d \/ \E j \in DOMAIN e.chain : t[i] = e.chain[j]
  BY <1>1, OnTop DEF Error
<1>3. context(e, d) = [e EXCEPT !.chain = t]
  BY DEF context
<1> HIDE DEF t
<1> QED
  BY <1>1, <1>2, <1>3 DEF Says, Error

\* What the boundary of a phase makes of it.
Settled(type, device) ==
  IF Kind(type) = "Failed" /\ device = "Untouched" THEN "Refused" ELSE Kind(type)

LEMMA AtSettles ==
  ASSUME NEW Words, NEW e, NEW type, Says(e, type, Words), NEW device \in DeviceState
  PROVE  /\ at(e, device) \in Error(Text)
         /\ at(e, device).device = device
         /\ at(e, device).kind = Settled(type, device)
         /\ Distinct(at(e, device).chain)
<1>1. e \in Error(Text) /\ e.kind = Kind(type) /\ Distinct(e.chain)
  BY DEF Says
<1>2. /\ at(e, device).chain = e.chain
      /\ at(e, device).device = device
      /\ at(e, device).kind = Settled(type, device)
  BY <1>1 DEF at, Settled, Error
<1>3. Settled(type, device) \in ErrorKind
  BY DEF Settled, Kind, ErrorKind
<1>4. at(e, device) \in Error(Text)
  BY <1>1, <1>3 DEF at, Settled, Error, ErrorKind
<1> QED
  BY <1>1, <1>2, <1>3, <1>4

-----------------------------------------------------------------------------
(* The screen. *)

\* Neither of the last lines has been printed.
Plain(t) == {"FATAL", "SUCCESS", "help"} \cap t.said = {} /\ t.last # "error"

\* Nothing is being drawn; `kept` stays on the screen.
Over(t, kept) ==
  /\ t \in Screen /\ ~t.torn /\ Plain(t)
  /\ t.bar = NoBar /\ t.row = "free" /\ t.kept = kept

Calm(t) == Over(t, {})

\* The cursor may be on the row of the countdown.
Counting(t) ==
  /\ t \in Screen /\ ~t.torn /\ Plain(t)
  /\ t.bar = NoBar /\ t.row \in {"free", "countdown"} /\ t.kept = {}

\* The bar of a phase is there and its clock runs.
Drawing(t, phase) ==
  /\ t \in Screen /\ ~t.torn /\ Plain(t)
  /\ t.bar # NoBar /\ t.bar.phase = phase /\ t.bar.timed /\ t.bar_started /\ t.kept = {}

\* The lines a run prints on its way.
Ordinary == Line \ {"FATAL", "SUCCESS", "error", "help"}

\* A line, and what it is printed on.
LEMMA Printed ==
  ASSUME NEW t \in Screen, NEW line \in Line
  PROVE  LET u == Println(t, line) IN
         /\ u \in Screen
         /\ u.bar = t.bar /\ u.bar_started = t.bar_started /\ u.row = t.row /\ u.kept = t.kept
         /\ u.said = t.said \cup {line} /\ u.last = line
         /\ t.row = "free" => u.torn = t.torn
<1> DEFINE u == Println(t, line)
           said == t.said \cup {line}
           torn == t.torn \/ t.row # "free"
<1>1. u = [t EXCEPT !.said = said, !.last = line, !.torn = torn]
  BY DEF Println
<1>2. said \in SUBSET Line /\ torn \in BOOLEAN
  BY DEF Screen
<1>3. t.row = "free" => torn = t.torn
  BY DEF Screen
<1> HIDE DEF said, torn
<1>4. u \in Screen
  BY <1>1, <1>2 DEF Screen
<1>5. /\ u.bar = t.bar /\ u.bar_started = t.bar_started /\ u.row = t.row /\ u.kept = t.kept
      /\ u.said = said /\ u.last = line /\ u.torn = torn
  BY <1>1 DEF Screen
<1> QED
  BY <1>3, <1>4, <1>5 DEF said

LEMMA CalmPrints ==
  ASSUME NEW t, Calm(t), NEW line \in Ordinary
  PROVE  Calm(Println(t, line))
  BY Printed DEF Calm, Over, Plain, Ordinary

\* Where nothing is drawn, the start and the end of a phase are lines at most.
LEMMA CalmStarts ==
  ASSUME NEW t, Calm(t), NEW phase
  PROVE  /\ Calm(phase_started(t, phase))
         /\ phase_started(t, phase).bar_started = FALSE
<1> DEFINE u == [t EXCEPT !.bar_started = FALSE]
<1>1. Calm(u) /\ u.bar_started = FALSE
  BY DEF Calm, Over, Plain, Screen
<1>2. phase_started(t, phase) = PrintIfAny(u, PhaseLine, phase)
  BY DEF phase_started
<1> HIDE DEF u
<1>3. CASE phase \in DOMAIN PhaseLine
  <2>1. PhaseLine[phase] \in Ordinary
    <3>1. phase \in {"Wipe", "Flash", "Verify", "KernelSync"}
      BY <1>3 DEF PhaseLine
    <3>2. /\ PhaseLine["Wipe"] = "wiping" /\ PhaseLine["Flash"] = "flashing"
          /\ PhaseLine["Verify"] = "verifying" /\ PhaseLine["KernelSync"] = "securing"
      BY DEF PhaseLine
    <3> QED
      BY <3>1, <3>2 DEF Ordinary, Line
  <2> QED
    BY <1>1, <1>2, <1>3, <2>1, CalmPrints, Printed DEF PrintIfAny, Ordinary, Calm, Over
<1>4. CASE phase \notin DOMAIN PhaseLine
  BY <1>1, <1>2, <1>4 DEF PrintIfAny
<1> QED
  BY <1>3, <1>4

LEMMA CalmSkips ==
  ASSUME NEW t, Calm(t), NEW phase
  PROVE  Calm(phase_skipped(t, phase))
<1>1. CASE phase \in DOMAIN SkipLine
  <2>1. SkipLine[phase] \in Ordinary
    <3>1. phase \in {"Cooldown", "Verify"}
      BY <1>1 DEF SkipLine
    <3>2. /\ SkipLine["Cooldown"] = "cooldown skipped"
          /\ SkipLine["Verify"] = "verification skipped"
      BY DEF SkipLine
    <3> QED
      BY <3>1, <3>2 DEF Ordinary, Line
  <2> QED
    BY <1>1, <2>1, CalmPrints DEF phase_skipped, PrintIfAny
<1>2. CASE phase \notin DOMAIN SkipLine
  BY <1>2 DEF phase_skipped, PrintIfAny
<1> QED
  BY <1>1, <1>2

LEMMA CalmFinishes ==
  ASSUME NEW t, Calm(t), NEW phase, phase # "Cooldown", NEW outcome
  PROVE  phase_finished(t, phase, outcome) = t
  BY DEF Calm, Over, phase_finished, TakeBar

LEMMA CalmSays ==
  ASSUME NEW t, Calm(t)
  PROVE  /\ Calm(action(t)) /\ Calm(warning(t))
         /\ \A answer \in Answer : Calm(confirm(t, answer))
<1>1. {"action", "warning", "banner", "no terminal"} \subseteq Ordinary
  BY DEF Ordinary, Line
<1>2. Calm(Println(t, "banner"))
  BY <1>1, CalmPrints
<1>3. Calm(Println(Println(t, "banner"), "no terminal"))
  BY <1>1, <1>2, CalmPrints
<1>4. \A answer \in Answer : Calm(confirm(t, answer))
  BY <1>2, <1>3 DEF confirm
<1> QED
  BY <1>1, <1>4, CalmPrints DEF action, warning

\* The opening tick puts the bar there.
LEMMA BarOpens ==
  ASSUME NEW t, Calm(t), t.bar_started = FALSE, NEW phase \in Phase, NEW unknown \in BOOLEAN
  PROVE  Drawing(progress(t, phase, 0, unknown), phase)
<1> DEFINE bar == make_bar(phase, unknown)
           u == progress(t, phase, 0, unknown)
<1>1. /\ bar \in ProgressBar /\ bar.phase = phase
      /\ [bar EXCEPT !.timed = TRUE] \in ProgressBar
      /\ [bar EXCEPT !.timed = TRUE].phase = phase
      /\ [bar EXCEPT !.timed = TRUE].timed = TRUE
  <2>1. (~uses_verify_bar(phase) /\ unknown) \in BOOLEAN
    OBVIOUS
  <2> QED
    BY <2>1 DEF make_bar, ProgressBar
<1>2. TheBar(t, phase, unknown) = bar
  BY DEF TheBar, Calm, Over
<1> HIDE DEF bar
<1>3. u = [t EXCEPT !.bar = [bar EXCEPT !.timed = TRUE], !.bar_started = TRUE,
                    !.row = IF bar.unknown THEN "bar" ELSE @]
  BY <1>2 DEF progress
<1>4. u \in Screen
  BY <1>1, <1>3 DEF Calm, Over, Screen
<1>5. /\ u.bar = [bar EXCEPT !.timed = TRUE] /\ u.bar_started = TRUE
      /\ u.kept = {} /\ ~u.torn /\ u.said = t.said /\ u.last = t.last
  BY <1>3 DEF Calm, Over, Screen
<1> HIDE DEF u
<1>6. u.bar # NoBar
  BY <1>1, <1>5, FrontEndAssumption DEF FrontEndAssumption
<1>7. Plain(u)
  BY <1>5 DEF Calm, Over, Plain
<1>8. Drawing(u, phase)
  BY <1>1, <1>4, <1>5, <1>6, <1>7 DEF Drawing
<1> QED
  BY <1>8 DEF u

\* A later tick moves it, whichever phase it is given.
LEMMA BarMoves ==
  ASSUME NEW t, NEW phase, Drawing(t, phase), NEW p, NEW done \in Nat, NEW unknown
  PROVE  Drawing(progress(t, p, done, unknown), phase)
<1> DEFINE u == progress(t, p, done, unknown)
           b == [t.bar EXCEPT !.position = done]
<1>1. /\ t.bar \in ProgressBar /\ t.bar.phase = phase /\ t.bar.timed /\ t.bar_started
      /\ t \in Screen
  BY DEF Drawing, Screen
<1>2. u = [t EXCEPT !.bar = b, !.row = "bar"]
  BY <1>1 DEF progress, TheBar, Drawing
<1>3. b \in ProgressBar /\ b.phase = phase /\ b.timed
  BY <1>1 DEF ProgressBar
<1> HIDE DEF b
<1>4. u \in Screen
  BY <1>1, <1>2, <1>3 DEF Screen
<1>5. /\ u.bar = b /\ u.bar_started /\ u.kept = {} /\ ~u.torn /\ u.said = t.said
      /\ u.last = t.last
  BY <1>1, <1>2 DEF Drawing, Screen
<1> HIDE DEF u
<1>6. b # NoBar
  BY <1>3, FrontEndAssumption DEF FrontEndAssumption
<1>7. Drawing(u, phase)
  BY <1>3, <1>4, <1>5, <1>6 DEF Drawing, Plain
<1> QED
  BY <1>7 DEF u

\* The end of its phase takes it off, or leaves it.
LEMMA BarEnds ==
  ASSUME NEW t, NEW phase \in Phase, Drawing(t, phase), phase # "Cooldown"
  PROVE  /\ Calm(phase_finished(t, phase, "Completed"))
         /\ Over(phase_finished(t, phase, "Failed"), {phase})
<1>1. \A outcome : phase_finished(t, phase, outcome) =
        [t EXCEPT !.bar = NoBar, !.row = "free",
                  !.kept = IF outcome = "Failed" THEN @ \cup {phase} ELSE @]
  BY DEF Drawing, phase_finished, TakeBar, keeps_bar_on_screen
<1>2. phase_finished(t, phase, "Completed") = [t EXCEPT !.bar = NoBar, !.row = "free", !.kept = @]
  BY <1>1
<1>3. phase_finished(t, phase, "Failed") =
        [t EXCEPT !.bar = NoBar, !.row = "free", !.kept = @ \cup {phase}]
  BY <1>1
<1>4. Calm(phase_finished(t, phase, "Completed"))
  BY <1>2 DEF Drawing, Calm, Over, Plain, Screen
<1>5. Over(phase_finished(t, phase, "Failed"), {phase})
  <2> DEFINE kept == {} \cup {phase}
  <2>1. kept = {phase} /\ kept \in SUBSET Phase
    OBVIOUS
  <2>2. phase_finished(t, phase, "Failed") =
          [t EXCEPT !.bar = NoBar, !.row = "free", !.kept = kept]
    BY <1>3 DEF Drawing
  <2> HIDE DEF kept
  <2>3. Over(phase_finished(t, phase, "Failed"), kept)
    BY <2>1, <2>2 DEF Drawing, Over, Plain, Screen
  <2> QED
    BY <2>1, <2>3
<1> QED
  BY <1>4, <1>5

\* The countdown rewrites its row, and the end of the phase frees it.
LEMMA Counts ==
  ASSUME NEW t, Counting(t), NEW done, NEW total
  PROVE  /\ Counting(Countdown(t, done, total))
         /\ \A outcome : Calm(phase_finished(t, "Cooldown", outcome))
<1>1. Counting(Countdown(t, done, total))
  BY DEF Counting, Plain, Countdown, Screen
<1>2. ASSUME NEW outcome
      PROVE  Calm(phase_finished(t, "Cooldown", outcome))
  <2> DEFINE u == [t EXCEPT !.row = "free"]
  <2>1. Calm(u)
    BY DEF Counting, Calm, Over, Plain, Screen
  <2>2. TakeBar(t, outcome) = t
    BY DEF Counting, TakeBar
  <2>3. \E line \in {"cooled down", "line closed"} :
          phase_finished(t, "Cooldown", outcome) = Println(u, line)
    BY <2>2 DEF phase_finished, CloseCountdown
  <2>4. {"cooled down", "line closed"} \subseteq Ordinary
    BY DEF Ordinary, Line
  <2> HIDE DEF u
  <2> QED
    BY <2>1, <2>3, <2>4, CalmPrints
<1> QED
  BY <1>1, <1>2

-----------------------------------------------------------------------------
(* The invariant. *)

Start == {"parse", "pick", "install"}
Drawn == {"write", "write pace", "write sleep"}
Counted == {"countdown", "second"}
Compared == {"compare", "compare pace", "compare sleep", "compare paced"}
Settling == {"settle", "settle sleep", "sweep", "sweep pace", "sweep sleep"}
Failing == {"drop", "report"}

\* The window the guard is armed in.
Armed == {"wipe", "flash", "cooldown", "verify", "disarm", "unwinding"}
           \cup Drawn \cup Counted \cup Compared

Types ==
  /\ picked \in BOOLEAN /\ raw \in BOOLEAN /\ cancel \in BOOLEAN
  /\ touched \in BOOLEAN /\ early \in BOOLEAN
  /\ pc \in Steps /\ exit \in {0, 1, 2, 101, 130, Running}
  /\ chunk \in Nat /\ left \in Nat /\ slept \in Nat
  /\ session \in {"none", "Session", "ArmedSession"} /\ phase_u8 \in 0 .. 4
  /\ err = NoError \/ err \in Error(Text)
  /\ cause \in [at : Phase \cup {"nowhere", "pick"},
                type : {"none", "cancelled", "mismatch", "io", "refused"}]

\* Where the device may have been written to, and what run_with holds there.
Window ==
  /\ touched => pc \notin Start \cup BeforeWipe \cup {"wipe"}
  /\ pc \in (Armed \ {"wipe"}) \cup Settling \cup {"release", "succeeded"} => touched
  /\ pc \in Start \cup (BeforeWipe \ {"gate"}) \cup Settling
           \cup {"report", "succeeded", "done"} => session = "none"
  /\ pc \in {"gate", "release"} => session = "Session"
  /\ pc \in Armed => session = "ArmedSession"
  /\ pc = "drop" => (err.device = "Indeterminate" <=> session = "ArmedSession")
  /\ phase_u8 = 0 <=> session # "ArmedSession"

\* An error is raised once, on the way to the exit.
Outcome ==
  /\ exit = Running <=> pc # "done"
  /\ exit = 1 => cause # NoCause
  /\ exit = 101 => touched
  /\ exit = 0 => ~early
  /\ exit \in {2, 130} => ~touched
  /\ pc = "drop" => cause.at \in Phase
  /\ pc = "report" => cause.at \in Phase \cup {"pick"}

EarlyStops ==
  early => cancel /\ ~touched /\ pc \in BeforeWipe \cup Failing \cup {"done"}

\* Only what is being slept when the handler is called is slept to its end.
SleepBound ==
  /\ ~cancel => slept = 0
  /\ pc \in {"parse", "write pace", "compare pace", "second"} => slept = 0
  /\ pc \in Counted => ~config.skip_cooldown
  /\ slept <= IF config.skip_cooldown THEN 1 ELSE TicksPerSecond

Quietened == {"flash", "wipe", "cooldown", "verify", "disarm", "release"}

ScreenStage ==
  /\ term \in Screen
  /\ pc \in Start \cup BeforeWipe \cup Quietened \cup Settling => Calm(term)
  /\ pc \in Drawn => Drawing(term, "Flash")
  /\ pc \in Counted => Counting(term)
  /\ pc \in Compared => Drawing(term, "Verify")
  /\ pc \in {"unwinding", "drop"} => Plain(term)
  /\ pc \in Failing \cup {"succeeded"} \/ exit \in {0, 1, 2, 130} =>
       term.bar = NoBar /\ term.row = "free" /\ ~term.torn
  /\ pc = "succeeded" \/ exit \in {0, 2, 130} => term.kept = {}
  /\ pc \in Failing \/ exit = 1 =>
       /\ term.kept \subseteq {cause.at}
       /\ cause.type = "mismatch" => term.kept = {"Verify"}
  /\ pc = "report" =>
       /\ {"SUCCESS", "help"} \cap term.said = {} /\ term.last # "error"
       /\ "FATAL" \in term.said <=> cause.at # "pick" /\ err.device = "Indeterminate"
  /\ pc = "succeeded" =>
       {"FATAL", "help"} \cap term.said = {} /\ "SUCCESS" \in term.said /\ term.last = "SUCCESS"

\* What the exit code has to do with the last lines: ExitTellsTheTruth but for
\* what SUCCESS is worth.
ExitsAgree ==
  exit # Running =>
    /\ exit = 0 <=> "SUCCESS" \in term.said \/ "help" \in term.said
    /\ exit = 1 <=> term.last = "error"
    /\ "FATAL" \in term.said <=>
         \/ exit = 101
         \/ exit = 1 /\ cause.at # "pick" /\ err.device = "Indeterminate"
    /\ exit \in {2, 130} \/ "help" \in term.said => ~touched /\ session = "none"

IInv ==
  /\ Types
  /\ ConfigIsValid
  /\ Window
  /\ Outcome
  /\ EarlyStops
  /\ SleepBound
  /\ ScreenStage
  /\ ErrorIsClassified
  /\ ExitsAgree

-----------------------------------------------------------------------------
(* What a step that fails does. *)

Raised(p, device, type) ==
  /\ pc' = "drop" /\ Frame
  /\ cause' = [at |-> p, type |-> type]
  /\ err' \in Error(Text) /\ Distinct(err'.chain)
  /\ err'.device = device /\ err'.kind = Settled(type, device)

Fails(device) ==
  \E p \in Phase, type \in {"cancelled", "mismatch", "io", "refused"} :
    /\ Raised(p, device, type)
    /\ device = "Written" <=> p = "Automount"
    /\ type = "cancelled" => cancel
    /\ \E kept \in SUBSET {p} :
         Over(term', kept) /\ (type = "mismatch" => kept = {"Verify"})

LEMMA RaiseFails ==
  ASSUME NEW p \in Phase, NEW type \in {"cancelled", "mismatch", "io", "refused"},
         NEW device \in DeviceState, device = "Written" <=> p = "Automount",
         NEW e, NEW Words, Says(e, type, Words),
         NEW t, NEW kept \in SUBSET {p}, Over(phase_finished(t, p, "Failed"), kept),
         type = "cancelled" => cancel,
         type = "mismatch" => kept = {"Verify"},
         Raise(p, e, device, type, t)
  PROVE  Fails(device)
<1>1. Raised(p, device, type)
  BY AtSettles DEF Raise, Raised
<1>2. Over(term', kept)
  BY DEF Raise
<1> QED
  BY <1>1, <1>2 DEF Fails

\* Before anything is drawn.
LEMMA CalmFails ==
  ASSUME NEW p \in Phase \ {"Cooldown"}, NEW type \in {"cancelled", "io", "refused"},
         NEW device \in DeviceState, device = "Written" <=> p = "Automount",
         NEW e, NEW Words, Says(e, type, Words), NEW t, Calm(t),
         type = "cancelled" => cancel,
         Raise(p, e, device, type, t)
  PROVE  Fails(device)
<1>1. Over(phase_finished(t, p, "Failed"), {})
  BY CalmFinishes DEF Calm
<1> QED
  BY <1>1, RaiseFails

\* While a bar is there.
LEMMA DrawingFails ==
  ASSUME NEW p \in {"Flash", "Verify"},
         NEW type \in {"cancelled", "mismatch", "io", "refused"}, type = "mismatch" => p = "Verify",
         NEW e, NEW Words, Says(e, type, Words), NEW t, Drawing(t, p),
         type = "cancelled" => cancel,
         Raise(p, e, "Indeterminate", type, t)
  PROVE  Fails("Indeterminate")
<1>1. p \in Phase /\ p # "Cooldown"
  BY DEF Phase
<1>2. Over(phase_finished(t, p, "Failed"), {p})
  BY <1>1, BarEnds
<1> QED
  BY <1>1, <1>2, RaiseFails DEF DeviceState

\* A failure is the same thing wherever it happens.
LEMMA FailKeeps ==
  ASSUME IInv, exit = Running, NEW device \in DeviceState, Fails(device),
         chunk' \in Nat, left' \in Nat, UNCHANGED slept,
         session' \in {"none", "Session", "ArmedSession"}, phase_u8' \in 0 .. 4,
         phase_u8' = 0 <=> session' # "ArmedSession",
         device = "Indeterminate" <=> session' = "ArmedSession",
         touched' \in BOOLEAN, touched' <=> device # "Untouched",
         early => ~touched'
  PROVE  IInv'
<1>1. PICK p \in Phase, type \in {"cancelled", "mismatch", "io", "refused"} :
        /\ Raised(p, device, type)
        /\ device = "Written" <=> p = "Automount"
        /\ type = "cancelled" => cancel
        /\ \E kept \in SUBSET {p} :
             Over(term', kept) /\ (type = "mismatch" => kept = {"Verify"})
  BY DEF Fails
<1>2. PICK kept \in SUBSET {p} : Over(term', kept) /\ (type = "mismatch" => kept = {"Verify"})
  BY <1>1
<1>3. /\ pc' = "drop" /\ UNCHANGED <<config, picked, raw, cancel, exit, early>>
      /\ cause' = [at |-> p, type |-> type]
      /\ err' \in Error(Text) /\ Distinct(err'.chain)
      /\ err'.device = device /\ err'.kind = Settled(type, device)
  BY <1>1 DEF Raised, Frame, callVars
<1>4. cause'.at = p /\ cause'.type = type /\ p # "pick"
  BY <1>3 DEF Phase
<1>5. Types'
  <2>1. UNCHANGED <<picked, raw, cancel, early>>
    BY <1>3
  <2>2. (picked \in BOOLEAN /\ raw \in BOOLEAN /\ cancel \in BOOLEAN /\ early \in BOOLEAN)'
    BY <2>1, Zenon DEF IInv, Types
  <2>3. cause' \in [at : Phase \cup {"nowhere", "pick"},
                    type : {"none", "cancelled", "mismatch", "io", "refused"}]
    BY <1>3
  <2> QED
    BY <1>3, <2>2, <2>3 DEF IInv, Types, Steps
<1>6. ConfigIsValid'
  BY <1>3 DEF IInv, ConfigIsValid, validate_cooldown_secs
<1>7. Window' /\ Outcome' /\ EarlyStops' /\ SleepBound'
  <2>1. Window'
    BY <1>3 DEF Window, Start, BeforeWipe, Armed, Drawn, Counted, Compared, Settling
  <2>2. Outcome'
    BY <1>3, <1>4 DEF Outcome, Running
  <2>3. EarlyStops'
    BY <1>3 DEF IInv, EarlyStops, Failing
  <2>4. SleepBound'
    BY <1>3 DEF IInv, SleepBound, Counted
  <2> QED
    BY <2>1, <2>2, <2>3, <2>4
<1>8. ScreenStage'
  BY <1>2, <1>3, <1>4 DEF ScreenStage, Over, Start, BeforeWipe, Quietened,
     Drawn, Counted, Compared, Settling, Failing, Running
<1>9. ErrorIsClassified'
  BY <1>1, <1>3, <1>4 DEF ErrorIsClassified, Settled, Kind, Distinct
<1>10. ExitsAgree'
  BY <1>3 DEF ExitsAgree
<1> QED
  BY <1>5, <1>6, <1>7, <1>8, <1>9, <1>10 DEF IInv

\* So is a step that goes on, but for what it is about.
LEMMA GoKeeps ==
  ASSUME IInv, exit = Running, pc' \in Steps \ {"drop", "report", "done"}, Frame, Quiet,
         chunk' \in Nat, left' \in Nat, slept' \in Nat,
         session' \in {"none", "Session", "ArmedSession"}, phase_u8' \in 0 .. 4,
         touched' \in BOOLEAN,
         Window', EarlyStops', SleepBound', ScreenStage'
  PROVE  IInv'
<1>1. UNCHANGED <<config, picked, raw, cancel, exit, early, err, cause>>
  BY DEF Frame, Quiet, callVars
<1>2. Types'
  <2>1. (picked \in BOOLEAN /\ raw \in BOOLEAN /\ cancel \in BOOLEAN /\ early \in BOOLEAN)'
    BY <1>1, Zenon DEF IInv, Types
  <2>2. (err = NoError \/ err \in Error(Text))'
    BY <1>1 DEF IInv, Types, NoError
  <2>3. (cause \in [at : Phase \cup {"nowhere", "pick"},
                   type : {"none", "cancelled", "mismatch", "io", "refused"}])'
    BY <1>1 DEF IInv, Types
  <2> QED
    BY <1>1, <2>1, <2>2, <2>3 DEF IInv, Types
<1>3. ConfigIsValid'
  BY <1>1 DEF IInv, ConfigIsValid, validate_cooldown_secs
<1>4. Outcome'
  BY <1>1 DEF Outcome, Running
<1>5. ErrorIsClassified' /\ ExitsAgree'
  BY <1>1 DEF ErrorIsClassified, ExitsAgree
<1> QED
  BY <1>2, <1>3, <1>4, <1>5 DEF IInv

\* The screen at a step that draws nothing, and at the ones that do.
LEMMA CalmStage ==
  ASSUME exit' = Running, pc' \in Start \cup BeforeWipe \cup Quietened \cup Settling, Calm(term')
  PROVE  ScreenStage'
<1>1. pc' \notin Drawn \cup Counted \cup Compared \cup Failing \cup {"unwinding", "succeeded"}
  BY DEF Start, BeforeWipe, Quietened, Settling, Drawn, Counted, Compared, Failing
<1> QED
  BY <1>1 DEF ScreenStage, Calm, Over, Running, Failing

LEMMA DrawnStage ==
  ASSUME exit' = Running,
         \/ pc' \in Drawn /\ Drawing(term', "Flash")
         \/ pc' \in Compared /\ Drawing(term', "Verify")
  PROVE  ScreenStage'
<1>1. /\ pc' \notin Start \cup BeforeWipe \cup Quietened \cup Settling
      /\ pc' \notin Counted \cup Failing \cup {"unwinding", "succeeded"}
      /\ pc' \in Drawn <=> pc' \notin Compared
  BY DEF Start, BeforeWipe, Quietened, Settling, Drawn, Counted, Compared, Failing
<1> QED
  BY <1>1 DEF ScreenStage, Drawing, Running, Failing

LEMMA CountedStage ==
  ASSUME exit' = Running, pc' \in Counted, Counting(term')
  PROVE  ScreenStage'
<1>1. pc' \notin Start \cup BeforeWipe \cup Quietened \cup Settling \cup Drawn \cup Compared
                 \cup Failing \cup {"unwinding", "succeeded"}
  BY DEF Start, BeforeWipe, Quietened, Settling, Drawn, Counted, Compared, Failing
<1> QED
  BY <1>1 DEF ScreenStage, Counting, Running, Failing

\* What is held before, in and after the window.
LEMMA UnarmedWindow ==
  ASSUME pc' \in BeforeWipe, ~touched', phase_u8' = 0,
         session' = IF pc' = "gate" THEN "Session" ELSE "none"
  PROVE  Window'
<1>1. /\ pc' \notin Armed \cup Settling \cup {"release", "succeeded", "report", "done", "drop"}
      /\ pc' \notin Start /\ phase_u8' = 0 /\ session' # "ArmedSession"
  BY DEF Start, BeforeWipe, Armed, Drawn, Counted, Compared, Settling
<1>2. /\ pc' \in BeforeWipe \ {"gate"} => session' = "none"
      /\ pc' = "gate" => session' = "Session"
  OBVIOUS
<1> QED
  BY <1>1, <1>2 DEF Window

LEMMA ArmedWindow ==
  ASSUME pc' \in Armed, session' = "ArmedSession", phase_u8' \in 1 .. 4, touched' <=> pc' # "wipe"
  PROVE  Window'
<1>1. pc' \notin Start \cup BeforeWipe \cup Settling
                 \cup {"release", "succeeded", "report", "done", "drop", "gate"}
  BY DEF Start, BeforeWipe, Armed, Drawn, Counted, Compared, Settling
<1>2. pc' \in (Armed \ {"wipe"}) \cup Settling \cup {"release", "succeeded"} => touched'
  BY <1>1
<1> QED
  BY <1>1, <1>2 DEF Window

LEMMA SettlingWindow ==
  ASSUME pc' \in Settling \cup {"succeeded"}, session' = "none", phase_u8' = 0, touched'
  PROVE  Window'
<1>1. pc' \notin Start \cup BeforeWipe \cup Armed \cup {"wipe", "gate", "release", "report", "done", "drop"}
  BY DEF Start, BeforeWipe, Armed, Drawn, Counted, Compared, Settling
<1> QED
  BY <1>1 DEF Window

\* No second is slept in this step, and none is about to be that should not be.
LEMMA SleepKeeps ==
  ASSUME IInv, UNCHANGED <<config, cancel, slept>>,
         pc' \in {"parse", "write pace", "compare pace", "second"} => ~cancel,
         pc' \in Counted => ~config.skip_cooldown
  PROVE  SleepBound'
  BY DEF IInv, SleepBound

-----------------------------------------------------------------------------
(* main: arguments, device, handler. *)

LEMMA StartStep ==
  ASSUME IInv, pc \in Start
  PROVE  /\ exit = Running /\ session = "none" /\ phase_u8 = 0 /\ ~touched /\ ~early
         /\ Calm(term)
  BY DEF IInv, Start, Outcome, Window, EarlyStops, ScreenStage, BeforeWipe, Failing, Types

\* The process ends before the handler is in.
LEMMA BadArgumentsStep ==
  ASSUME IInv, BadArguments \/ PrintHelp \/ Killed
  PROVE  IInv'
<1>1. /\ pc \in Start /\ pc' = "done"
      /\ UNCHANGED <<config, picked, raw, chunk, left, cancel, session, phase_u8, err,
                     touched, cause, early, slept>>
  BY DEF BadArguments, PrintHelp, Killed, Start, callVars, loopVars, guardVars, history
<1>2. /\ exit = Running /\ session = "none" /\ phase_u8 = 0 /\ ~touched /\ ~early /\ Calm(term)
  BY <1>1, StartStep
<1>3. /\ term' \in Screen /\ ~term'.torn /\ term'.bar = NoBar /\ term'.row = "free" /\ term'.kept = {}
      /\ {"FATAL", "SUCCESS"} \cap term'.said = {} /\ term'.last # "error"
      /\ \/ exit' \in {2, 130} /\ "help" \notin term'.said
         \/ exit' = 0 /\ "help" \in term'.said
  <2>1. CASE BadArguments
    <3>1. "usage" \in Ordinary
      BY DEF Ordinary, Line
    <3> QED
      BY <1>2, <2>1, <3>1, CalmPrints DEF BadArguments, Calm, Over, Plain
  <2>2. CASE Killed
    BY <1>2, <2>2 DEF Killed, Calm, Over, Plain
  <2>3. CASE PrintHelp
    <3>1. "help" \in Line
      BY DEF Line
    <3> QED
      BY <1>2, <2>3, <3>1, Printed DEF PrintHelp, Calm, Over, Plain
  <2> QED
    BY <2>1, <2>2, <2>3
<1>4. Types'
  <2>1. (picked \in BOOLEAN /\ raw \in BOOLEAN /\ cancel \in BOOLEAN
         /\ early \in BOOLEAN /\ touched \in BOOLEAN)'
    BY <1>1, Zenon DEF IInv, Types
  <2>2. (err = NoError \/ err \in Error(Text))'
    BY <1>1 DEF IInv, Types, NoError
  <2>3. (chunk \in Nat /\ left \in Nat /\ slept \in Nat
         /\ session \in {"none", "Session", "ArmedSession"} /\ phase_u8 \in 0 .. 4)'
    BY <1>1 DEF IInv, Types
  <2>4. (cause \in [at : Phase \cup {"nowhere", "pick"},
                   type : {"none", "cancelled", "mismatch", "io", "refused"}])'
    BY <1>1 DEF IInv, Types
  <2>5. pc' \in Steps /\ exit' \in {0, 1, 2, 101, 130, Running}
    BY <1>1, <1>3 DEF Steps
  <2> QED
    BY <2>1, <2>2, <2>3, <2>4, <2>5 DEF Types
<1>5. ConfigIsValid'
  BY <1>1 DEF IInv, ConfigIsValid, validate_cooldown_secs
<1>6. Window' /\ Outcome'
  BY <1>1, <1>2, <1>3 DEF Window, Outcome, Running, Start, BeforeWipe, Armed, Drawn, Counted,
     Compared, Settling
<1>7. EarlyStops' /\ SleepBound'
  BY <1>1, <1>2 DEF IInv, EarlyStops, SleepBound, Counted
<1>8. ScreenStage'
  BY <1>1, <1>3 DEF ScreenStage, Over, Start, BeforeWipe, Quietened, Drawn, Counted, Compared,
     Settling, Failing
<1>9. ErrorIsClassified' /\ ExitsAgree'
  BY <1>1, <1>2, <1>3 DEF ErrorIsClassified, ExitsAgree, Over, Plain
<1> QED
  BY <1>4, <1>5, <1>6, <1>7, <1>8, <1>9 DEF IInv

LEMMA ParseStep ==
  ASSUME IInv, Parse
  PROVE  IInv'
<1>1. /\ pc = "parse" /\ pc' = "pick"
      /\ UNCHANGED <<raw, chunk, left, term, cancel, session, phase_u8, err, exit,
                     touched, cause, early, slept>>
  BY DEF Parse, loopVars, guardVars, history
<1>2. /\ exit = Running /\ session = "none" /\ phase_u8 = 0 /\ ~touched /\ ~early /\ Calm(term)
  BY <1>1, StartStep DEF Start
<1>3. PICK args \in Arguments : WellFormed(args) /\ config' = to_config(args) /\ picked' = args.dev
  BY DEF Parse
<1>4. Types'
  <2>1. picked' \in BOOLEAN
    BY <1>3, Zenon DEF Arguments
  <2>2. (raw \in BOOLEAN /\ cancel \in BOOLEAN /\ early \in BOOLEAN /\ touched \in BOOLEAN)'
    BY <1>1, Zenon DEF IInv, Types
  <2>3. (err = NoError \/ err \in Error(Text))'
    BY <1>1 DEF IInv, Types, NoError
  <2> QED
    BY <1>1, <2>1, <2>2, <2>3 DEF IInv, Types, Steps
<1>5. ConfigIsValid'
  BY <1>3, OptionsParsed
<1>6. Window' /\ Outcome'
  BY <1>1, <1>2 DEF IInv, Window, Outcome, Running, Start, BeforeWipe, Armed, Drawn, Counted,
     Compared, Settling
<1>7. EarlyStops' /\ SleepBound'
  BY <1>1, <1>2, CommandLineAssumption
  DEF CommandLineAssumption, IInv, Types, EarlyStops, SleepBound, Counted
<1>8. ScreenStage'
  BY <1>1, <1>2 DEF ScreenStage, Calm, Over, Running, Start, BeforeWipe, Quietened, Drawn, Counted,
     Compared, Settling, Failing
<1>9. ErrorIsClassified' /\ ExitsAgree'
  BY <1>1, <1>2 DEF ErrorIsClassified, ExitsAgree
<1> QED
  BY <1>4, <1>5, <1>6, <1>7, <1>8, <1>9 DEF IInv

\* Without a device, or without a handler: what is printed is anyhow's error.
LEMMA PickStep ==
  ASSUME IInv, ResolveDevice \/ InstallHandler
  PROVE  IInv'
<1>1. /\ pc \in {"pick", "install"} /\ Frame
      /\ UNCHANGED <<config, picked, raw, cancel, exit, early, chunk, left, session, phase_u8,
                     touched, slept>>
  BY DEF ResolveDevice, InstallHandler, Same, Go, Frame, callVars, loopVars, guardVars
<1>2. /\ exit = Running /\ session = "none" /\ phase_u8 = 0 /\ ~touched /\ ~early /\ Calm(term)
  BY <1>1, StartStep DEF Start
<1>3. CASE pc' \in {"install", "preflight"} /\ Quiet /\ Calm(term')
  <2>1. Window'
    BY <1>1, <1>2, <1>3 DEF Window, Start, BeforeWipe, Armed, Drawn, Counted, Compared, Settling
  <2>2. EarlyStops'
    BY <1>1, <1>2 DEF EarlyStops
  <2>3. SleepBound'
    BY <1>1, <1>3 DEF IInv, SleepBound, Counted
  <2>4. ScreenStage'
    BY <1>1, <1>2, <1>3, CalmStage DEF Start, BeforeWipe
  <2> QED
    BY <1>1, <1>2, <1>3, <2>1, <2>2, <2>3, <2>4, GoKeeps DEF IInv, Types, Steps
<1>4. CASE /\ pc' = "report" /\ UNCHANGED term
           /\ err' \in {msg("no device"), layer("no handler", IoError)}
           /\ \E type \in {"refused", "io"} : cause' = [at |-> "pick", type |-> type]
  <2>1. err' \in Error(Text)
    <3>1. Says(msg("no device"), "refused", {"no device"})
      BY MsgSays DEF Text
    <3>2. Says(layer("no handler", IoError), "io", {"io error", "no handler"})
      BY LayerOfValue DEF Text, IoError
    <3> QED
      BY <1>4, <3>1, <3>2 DEF Says
  <2>2. PICK type \in {"refused", "io"} : cause' = [at |-> "pick", type |-> type]
    BY <1>4
  <2>3. Types'
    <3>1. (picked \in BOOLEAN /\ raw \in BOOLEAN /\ cancel \in BOOLEAN
           /\ early \in BOOLEAN /\ touched \in BOOLEAN)'
      BY <1>1, Zenon DEF IInv, Types
    <3>2. (cause \in [at : Phase \cup {"nowhere", "pick"},
                     type : {"none", "cancelled", "mismatch", "io", "refused"}])'
      BY <2>2
    <3> QED
      BY <1>1, <1>4, <2>1, <3>1, <3>2 DEF IInv, Types, Steps
  <2>4. ConfigIsValid'
    BY <1>1 DEF IInv, ConfigIsValid, validate_cooldown_secs
  <2>5. Window'
    BY <1>1, <1>2, <1>4 DEF Window, Start, BeforeWipe, Armed, Drawn, Counted, Compared, Settling
  <2>6. Outcome' /\ EarlyStops' /\ SleepBound'
    <3>1. Outcome'
      <4>1. exit' = Running /\ pc' = "report" /\ cause'.at = "pick"
        BY <1>1, <1>2, <1>4, <2>2
      <4> QED
        BY <4>1 DEF Outcome, Running
    <3>2. EarlyStops'
      BY <1>1, <1>2 DEF EarlyStops
    <3>3. SleepBound'
      BY <1>1, <1>4 DEF IInv, SleepBound, Counted
    <3> QED
      BY <3>1, <3>2, <3>3
  <2>7. ScreenStage'
    BY <1>1, <1>2, <1>4, <2>2 DEF ScreenStage, Calm, Over, Plain, Start, BeforeWipe, Quietened,
       Drawn, Counted, Compared, Settling, Failing, Running
  <2>8. ErrorIsClassified' /\ ExitsAgree'
    BY <1>1, <1>2, <2>2 DEF ErrorIsClassified, ExitsAgree
  <2> QED
    BY <2>3, <2>4, <2>5, <2>6, <2>7, <2>8 DEF IInv
<1>5. CASE ResolveDevice
  BY <1>2, <1>3, <1>4, <1>5 DEF ResolveDevice, Go
<1>6. CASE InstallHandler
  <2>1. Calm(phase_started(term, "Preflight"))
    BY <1>2, CalmStarts
  <2> QED
    BY <1>3, <1>4, <1>6, <2>1 DEF InstallHandler, Go
<1> QED
  BY <1>5, <1>6

-----------------------------------------------------------------------------
(* Phases 0 to 3. *)

\* What the steps before the window start from.
LEMMA BeforeWipeStep ==
  ASSUME IInv, pc \in BeforeWipe
  PROVE  /\ exit = Running /\ phase_u8 = 0 /\ ~touched /\ Calm(term)
         /\ session = IF pc = "gate" THEN "Session" ELSE "none"
  BY DEF IInv, BeforeWipe, Outcome, Window, ScreenStage

\* The texts of a refusal and of a failed call.
LEMMA RefusedFails ==
  ASSUME NEW p \in {"Preflight", "Topology", "Claim"},
         NEW text \in {"Phase 0", "Phase 1", "Phase 2"}, Calm(term),
         Refused(p, text, "Untouched") \/ IoFailed(p, text, "Untouched")
  PROVE  Fails("Untouched")
<1>1. /\ Says(msg("refused"), "refused", {"refused"})
      /\ Says(layer(text, msg("refused")), "refused", {"refused", text})
  <2>1. Says(msg("refused"), "refused", {"refused"})
    BY MsgSays DEF Text
  <2>2. Says(layer(text, msg("refused")), "refused", {"refused"} \cup {text})
    BY <2>1, LayerSays DEF Text
  <2>3. {"refused"} \cup {text} = {"refused", text}
    OBVIOUS
  <2> QED
    BY <2>1, <2>2, <2>3
<1>2. Says(layer(text, IoError), "io", {"io error", text})
  BY LayerOfValue DEF Text, IoError
<1>3. p \in Phase \ {"Cooldown"} /\ p # "Automount" /\ "Untouched" \in DeviceState
  BY DEF Phase, DeviceState
<1> QED
  BY <1>1, <1>2, <1>3, CalmFails DEF Refused, IoFailed

\* Nothing is held yet: an error leaves the device untouched.
LEMMA UntouchedKeeps ==
  ASSUME IInv, pc \in BeforeWipe, Fails("Untouched"), Same \/ UNCHANGED <<loopVars, guardVars, touched, slept>>
  PROVE  IInv'
<1>1. UNCHANGED <<chunk, left, session, phase_u8, touched, slept>>
  BY DEF Same, loopVars, guardVars
<1> QED
  BY <1>1, BeforeWipeStep, FailKeeps DEF IInv, Types, DeviceState

\* On to the next of them.
LEMMA BeforeWipeGoes ==
  ASSUME IInv, pc \in BeforeWipe, pc' \in BeforeWipe, Frame, Quiet,
         UNCHANGED <<loopVars, touched, slept>>, Calm(term'), phase_u8' = 0,
         session' = IF pc' = "gate" THEN "Session" ELSE "none"
  PROVE  IInv'
<1>1. UNCHANGED <<config, cancel, exit, early, chunk, left, touched, slept>>
  BY DEF Frame, callVars, loopVars
<1>2. /\ exit = Running /\ ~touched
  BY BeforeWipeStep
<1>3. Window'
  BY <1>1, <1>2, UnarmedWindow
<1>4. EarlyStops' /\ SleepBound'
  <2>1. SleepBound'
    BY <1>1, SleepKeeps DEF BeforeWipe, Counted
  <2>2. EarlyStops'
    BY <1>1 DEF IInv, EarlyStops
  <2> QED
    BY <2>1, <2>2
<1>5. ScreenStage'
  BY <1>1, <1>2, CalmStage
<1>6. pc' \in Steps \ {"drop", "report", "done"} /\ session' \in {"none", "Session", "ArmedSession"}
  BY DEF BeforeWipe, Steps
<1> QED
  BY <1>1, <1>2, <1>3, <1>4, <1>5, <1>6, GoKeeps DEF IInv, Types

LEMMA PreflightStep ==
  ASSUME IInv, Preflight
  PROVE  IInv'
<1>1. pc = "preflight" /\ pc \in BeforeWipe /\ Same
  BY DEF Preflight, BeforeWipe
<1>2. Calm(term) /\ session = "none" /\ phase_u8 = 0
  BY <1>1, BeforeWipeStep
<1>3. CASE Go("confirm", term)
  BY <1>1, <1>2, <1>3, BeforeWipeGoes DEF Go, Same, BeforeWipe, guardVars
<1>4. CASE Refused("Preflight", "Phase 0", "Untouched") \/ IoFailed("Preflight", "Phase 0", "Untouched")
  BY <1>1, <1>2, <1>4, RefusedFails, UntouchedKeeps
<1> QED
  BY <1>3, <1>4, OptionsHold DEF Preflight, IInv

LEMMA ConfirmStep ==
  ASSUME IInv, ConfirmDestruction
  PROVE  IInv'
<1>1. pc = "confirm" /\ pc \in BeforeWipe /\ Same
  BY DEF ConfirmDestruction, BeforeWipe
<1>2. Calm(term) /\ session = "none" /\ phase_u8 = 0
  BY <1>1, BeforeWipeStep
<1>3. PICK t : /\ Calm(t)
               /\ \/ Go("topology", phase_started(phase_finished(t, "Preflight", "Completed"),
                                                  "Topology"))
                  \/ Raise("Preflight", msg("refused"), "Untouched", "refused", t)
  BY <1>2, CalmSays DEF ConfirmDestruction
<1>4. CASE Go("topology", phase_started(phase_finished(t, "Preflight", "Completed"), "Topology"))
  <2>1. Calm(phase_started(phase_finished(t, "Preflight", "Completed"), "Topology"))
    BY <1>3, CalmFinishes, CalmStarts
  <2> QED
    BY <1>1, <1>2, <1>4, <2>1, BeforeWipeGoes DEF Go, Same, BeforeWipe, guardVars
<1>5. CASE Raise("Preflight", msg("refused"), "Untouched", "refused", t)
  <2>1. Says(msg("refused"), "refused", {"refused"}) /\ "Preflight" \in Phase \ {"Cooldown"}
    BY MsgSays DEF Text, Phase
  <2> QED
    BY <1>1, <1>3, <1>5, <2>1, CalmFails, UntouchedKeeps DEF DeviceState
<1> QED
  BY <1>3, <1>4, <1>5

LEMMA TopologyStep ==
  ASSUME IInv, Topology
  PROVE  IInv'
<1>1. pc = "topology" /\ pc \in BeforeWipe /\ Same
  BY DEF Topology, BeforeWipe
<1>2. Calm(term) /\ session = "none" /\ phase_u8 = 0
  BY <1>1, BeforeWipeStep
<1>3. ASSUME NEW t \in {term, action(term)},
             Go("claim", phase_started(phase_finished(t, "Topology", "Completed"), "Claim"))
      PROVE  IInv'
  <2>1. Calm(phase_started(phase_finished(t, "Topology", "Completed"), "Claim"))
    BY <1>2, CalmSays, CalmFinishes, CalmStarts
  <2> QED
    BY <1>1, <1>2, <1>3, <2>1, BeforeWipeGoes DEF Go, Same, BeforeWipe, guardVars
<1>4. CASE Refused("Topology", "Phase 1", "Untouched") \/ IoFailed("Topology", "Phase 1", "Untouched")
  BY <1>1, <1>2, <1>4, RefusedFails, UntouchedKeeps
<1> QED
  BY <1>3, <1>4 DEF Topology

\* The byte of the guard encodes its phase.
LEMMA Encoded ==
  /\ Encode("Disarmed") = 0
  /\ \A phase \in {"WipingSignatures", "Writing", "Cooldown", "Verifying"} : Encode(phase) \in 1 .. 4
  /\ \A v \in 0 .. 4 : from_u8(v) # "Disarmed" <=> v # 0
<1>1. /\ DOMAIN GuardPhase = 1 .. 5
      /\ GuardPhase[1] = "Disarmed" /\ GuardPhase[2] = "WipingSignatures"
      /\ GuardPhase[3] = "Writing" /\ GuardPhase[4] = "Cooldown" /\ GuardPhase[5] = "Verifying"
  BY DEF GuardPhase
<1>2. \A i \in 1 .. 5 : i \in {1, 2, 3, 4, 5}
  OBVIOUS
<1>3. \A phase : Encode(phase) = (CHOOSE i \in 1 .. 5 : GuardPhase[i] = phase) - 1
  BY <1>1 DEF Encode
<1>4. (CHOOSE i \in 1 .. 5 : GuardPhase[i] = "Disarmed") = 1
  BY <1>1, <1>2
<1>5. ASSUME NEW phase \in {"WipingSignatures", "Writing", "Cooldown", "Verifying"}
      PROVE  (CHOOSE i \in 1 .. 5 : GuardPhase[i] = phase) \in 2 .. 5
  <2>1. \E i \in 1 .. 5 : GuardPhase[i] = phase
    BY <1>1
  <2>2. \A i \in 1 .. 5 : GuardPhase[i] = phase => i \in 2 .. 5
    BY <1>1, <1>2
  <2> QED
    BY <2>1, <2>2
<1>6. \A phase \in {"WipingSignatures", "Writing", "Cooldown", "Verifying"} : Encode(phase) \in 1 .. 4
  BY <1>3, <1>5
<1>7. \A v \in 0 .. 4 : from_u8(v) # "Disarmed" <=> v # 0
  BY <1>1, <1>2 DEF from_u8
<1> QED
  BY <1>3, <1>4, <1>6, <1>7

LEMMA ClaimStep ==
  ASSUME IInv, Claim
  PROVE  IInv'
<1>1. pc = "claim" /\ pc \in BeforeWipe /\ UNCHANGED <<loopVars, touched, slept>>
  BY DEF Claim, BeforeWipe
<1>2. Calm(term) /\ session = "none" /\ phase_u8 = 0
  BY <1>1, BeforeWipeStep
<1>3. CASE Hold("Session", "Disarmed") /\ Go("gate", phase_finished(term, "Claim", "Completed"))
  <2>1. Calm(phase_finished(term, "Claim", "Completed"))
    BY <1>2, CalmFinishes
  <2> QED
    BY <1>1, <1>3, <2>1, Encoded, BeforeWipeGoes DEF Go, Hold, BeforeWipe
<1>4. CASE /\ Refused("Claim", "Phase 2", "Untouched") \/ IoFailed("Claim", "Phase 2", "Untouched")
           /\ UNCHANGED guardVars
  BY <1>1, <1>2, <1>4, RefusedFails, UntouchedKeeps
<1> QED
  BY <1>3, <1>4 DEF Claim

\* The flag is looked at before the guard is armed.
LEMMA GateStep ==
  ASSUME IInv, Gate
  PROVE  IInv'
<1>1. pc = "gate" /\ pc \in BeforeWipe /\ UNCHANGED <<loopVars, touched, slept>>
  BY DEF Gate, BeforeWipe
<1>2. exit = Running /\ Calm(term) /\ ~touched
  BY <1>1, BeforeWipeStep
<1>3. CASE cancel
  <2>1. Says(from_source(Cancelled), "cancelled", {"cancelled by user"})
    BY SourceSays DEF Cancelled, Text
  <2>2. "Wipe" \in Phase \ {"Cooldown"} /\ "Untouched" \in DeviceState
    BY DEF Phase, DeviceState
  <2>3. Fails("Untouched")
    BY <1>2, <1>3, <2>1, <2>2, CalmFails DEF Gate
  <2> QED
    BY <1>1, <1>3, <2>3, UntouchedKeeps DEF Gate
<1>4. CASE ~cancel
  <2>1. /\ pc' = "wipe" /\ Frame /\ Quiet /\ session' = "ArmedSession" /\ phase_u8' \in 1 .. 4
        /\ term' = phase_started(term, "Wipe")
    BY <1>4, Encoded DEF Gate, Go, Hold
  <2>2. Calm(term')
    BY <1>2, <2>1, CalmStarts
  <2>3. UNCHANGED <<config, cancel, exit, early, chunk, left, touched, slept>>
    BY <1>1, <2>1 DEF Frame, callVars, loopVars
  <2>4. Window'
    BY <1>2, <2>1, <2>3, ArmedWindow DEF Armed
  <2>5. EarlyStops' /\ SleepBound'
    BY <1>4, <2>1, <2>3, SleepKeeps DEF IInv, EarlyStops, Counted
  <2>6. ScreenStage'
    BY <1>2, <2>1, <2>2, <2>3, CalmStage DEF Quietened
  <2>7. /\ pc' \in Steps \ {"drop", "report", "done"} /\ phase_u8' \in 0 .. 4
        /\ session' \in {"none", "Session", "ArmedSession"}
    BY <2>1 DEF Steps
  <2>8. chunk' \in Nat /\ left' \in Nat /\ slept' \in Nat
    BY <2>3 DEF IInv, Types
  <2>9. touched' \in BOOLEAN
    BY <2>3, Zenon DEF IInv, Types
  <2> QED
    BY <1>2, <2>1, <2>4, <2>5, <2>6, <2>7, <2>8, <2>9, GoKeeps
<1> QED
  BY <1>3, <1>4

-----------------------------------------------------------------------------
(* In the window. *)

LEMMA ArmedStep ==
  ASSUME IInv, pc \in Armed
  PROVE  /\ exit = Running /\ session = "ArmedSession" /\ phase_u8 \in 1 .. 4
         /\ ~early /\ (touched <=> pc # "wipe")
<1>1. pc \notin BeforeWipe \cup Failing \cup {"done"}
  BY DEF Armed, Drawn, Counted, Compared, BeforeWipe, Failing
<1>2. exit = Running /\ ~early
  BY <1>1 DEF IInv, Outcome, EarlyStops
<1>3. session = "ArmedSession" /\ phase_u8 # 0 /\ (touched <=> pc # "wipe")
  BY DEF IInv, Window
<1>4. phase_u8 \in 1 .. 4
  BY <1>3 DEF IInv, Types
<1> QED
  BY <1>2, <1>3, <1>4

\* A step that goes on in it.
LEMMA ArmedGoes ==
  ASSUME IInv, pc \in Armed, pc' \in Armed \ {"wipe"}, Frame, Quiet,
         chunk' \in Nat, left' \in Nat, slept' \in Nat,
         session' = session, phase_u8' \in 1 .. 4, touched' = TRUE,
         SleepBound', ScreenStage'
  PROVE  IInv'
<1>1. Window'
  BY ArmedStep, ArmedWindow
<1>2. EarlyStops'
  BY ArmedStep DEF EarlyStops, Frame
<1>3. pc' \in Steps \ {"drop", "report", "done"}
  BY DEF Armed, Drawn, Counted, Compared, Steps
<1>4. phase_u8' \in 0 .. 4 /\ session' = "ArmedSession"
  BY ArmedStep
<1> QED
  BY <1>1, <1>2, <1>3, <1>4, ArmedStep, GoKeeps

\* A step that fails in it.
LEMMA ArmedFails ==
  ASSUME IInv, pc \in Armed, Fails("Indeterminate"),
         chunk' \in Nat, left' \in Nat, UNCHANGED slept,
         session' = session, phase_u8' \in 1 .. 4, touched' = TRUE
  PROVE  IInv'
  BY ArmedStep, FailKeeps DEF DeviceState

\* Moving the phase on leaves the guard armed.
LEMMA SetPhase ==
  ASSUME IInv, pc \in Armed, NEW phase \in {"Writing", "Cooldown", "Verifying"}, set_phase(phase)
  PROVE  session' = session /\ phase_u8' \in 1 .. 4
<1>1. from_u8(phase_u8) # "Disarmed" /\ Encode(phase) \in 1 .. 4
  BY ArmedStep, Encoded
<1> QED
  BY <1>1 DEF set_phase

\* What stays as it is.
LEMMA SameStep ==
  ASSUME IInv, UNCHANGED <<loopVars, guardVars, touched, slept>>, pc \in Armed \ {"wipe"}
  PROVE  /\ chunk' = chunk /\ chunk' \in Nat /\ left' \in Nat
         /\ slept' = slept /\ slept' \in Nat
         /\ session' = session /\ phase_u8' \in 1 .. 4 /\ touched' = TRUE
<1>1. touched = TRUE
  BY ArmedStep DEF IInv, Types
<1> QED
  BY <1>1, ArmedStep DEF loopVars, guardVars, IInv, Types

LEMMA WipeStep ==
  ASSUME IInv, Wipe
  PROVE  IInv'
<1>1. /\ pc = "wipe" /\ pc \in Armed /\ touched' = TRUE
      /\ UNCHANGED <<chunk, left, session, phase_u8, slept>>
  BY DEF Wipe, Armed, loopVars, guardVars
<1>2. exit = Running /\ Calm(term)
  BY <1>1, ArmedStep DEF IInv, ScreenStage, Quietened
<1>3. phase_u8' \in 1 .. 4 /\ chunk' \in Nat /\ left' \in Nat /\ slept' \in Nat
  BY <1>1, ArmedStep DEF IInv, Types
<1>4. CASE Go("flash", phase_finished(term, "Wipe", "Completed"))
  <2>1. /\ pc' = "flash" /\ Frame /\ Quiet /\ UNCHANGED <<config, cancel, exit>> /\ Calm(term')
    BY <1>2, <1>4, CalmFinishes DEF Go, Frame, callVars
  <2>2. ScreenStage'
    BY <1>2, <2>1, CalmStage DEF Quietened
  <2>3. SleepBound'
    BY <1>1, <2>1, SleepKeeps DEF Counted
  <2> QED
    BY <1>1, <1>3, <2>1, <2>2, <2>3, ArmedGoes DEF Armed
<1>5. CASE Raise("Wipe", layer("Phase 3", layer("writing", IoError)), "Indeterminate", "io", term)
  <2>1. Says(layer("writing", IoError), "io", {"io error", "writing"})
    BY LayerOfValue DEF Text, IoError
  <2>2. Says(layer("Phase 3", layer("writing", IoError)), "io",
             {"io error", "writing"} \cup {"Phase 3"})
    BY <2>1, LayerSays DEF Text
  <2>3. Fails("Indeterminate")
    BY <1>2, <1>5, <2>2, CalmFails DEF Phase, DeviceState
  <2> QED
    BY <1>1, <1>3, <2>3, ArmedFails
<1> QED
  BY <1>4, <1>5 DEF Wipe

-----------------------------------------------------------------------------
(* cancellable_sleep. *)

\* It is over at once, or left to be slept tick by tick.
LEMMA SleepBegins ==
  ASSUME IInv, NEW total \in Nat, NEW at_step, NEW sleeping, NEW next,
         BeginSleep(total, at_step, sleeping, next)
  PROVE  /\ pc = at_step /\ UNCHANGED <<term, chunk, session, phase_u8, touched>> /\ Frame /\ Quiet
         /\ left' \in Nat /\ slept' \in Nat
         /\ \/ total <= 1 /\ pc' = next /\ slept' = IF cancel THEN slept + total ELSE slept
            \/ total > 1 /\ pc' = sleeping /\ UNCHANGED slept
  BY DEF BeginSleep, SleepFrame, Slept, guardVars, IInv, Types

LEMMA SleepGoesOn ==
  ASSUME IInv, NEW sleeping, NEW next, Sleep(sleeping, next)
  PROVE  /\ pc = sleeping /\ UNCHANGED <<term, chunk, session, phase_u8, touched, slept>>
         /\ Frame /\ Quiet
         /\ left' \in Nat /\ pc' \in {sleeping, next}
  BY DEF Sleep, SleepFrame, guardVars, IInv, Types

\* The pace of a chunk, in either loop.
LEMMA PaceStep ==
  ASSUME IInv, WritePace \/ ComparePace
  PROVE  IInv'
<1>1. PICK total \in Nat :
        \/ BeginSleep(total, "write pace", "write sleep", "write")
        \/ \E next \in {"compare", "compare paced"} :
             BeginSleep(total, "compare pace", "compare sleep", next)
  BY PaceType DEF WritePace, ComparePace, PacedNext, Pace, IInv
<1>2. /\ UNCHANGED <<term, chunk, session, phase_u8, touched>> /\ Frame /\ Quiet
      /\ left' \in Nat /\ slept' \in Nat
      /\ \/ pc = "write pace" /\ pc' \in {"write sleep", "write"}
         \/ pc = "compare pace" /\ pc' \in {"compare sleep", "compare", "compare paced"}
      /\ slept' = slept \/ (total <= 1 /\ cancel /\ slept' = slept + total)
  BY <1>1, SleepBegins
<1>3. pc \in Armed \ {"wipe"} /\ pc' \in Armed \ {"wipe"}
  BY <1>2 DEF Armed, Drawn, Compared
<1>4. exit' = Running /\ touched' = TRUE /\ phase_u8' \in 1 .. 4 /\ chunk' \in Nat
  BY <1>2, <1>3, ArmedStep DEF Frame, IInv, Types
<1>5. ScreenStage'
  BY <1>2, <1>4, DrawnStage DEF IInv, ScreenStage, Drawn, Compared
<1>6. SleepBound'
  <2>1. UNCHANGED <<config, cancel>>
    BY <1>2 DEF Frame, callVars
  <2>2. slept = 0 /\ TicksPerSecond \in Nat \ {0}
    BY <1>2, CommandLineAssumption DEF CommandLineAssumption, IInv, SleepBound
  <2>3. pc' \notin {"parse", "write pace", "compare pace", "second"} \cup Counted
    BY <1>2 DEF Counted
  <2>4. slept' \in 0 .. 1 /\ (~cancel => slept' = 0)
    <3>1. CASE slept' = slept
      BY <2>2, <3>1
    <3>2. CASE total <= 1 /\ cancel /\ slept' = slept + total
      BY <2>2, <3>2
    <3> QED
      BY <1>2, <3>1, <3>2
  <2>5. slept' <= IF config'.skip_cooldown THEN 1 ELSE TicksPerSecond
    BY <2>2, <2>4
  <2> QED
    BY <2>1, <2>3, <2>4, <2>5 DEF SleepBound
<1> QED
  BY <1>2, <1>3, <1>4, <1>5, <1>6, ArmedGoes

LEMMA PaceSleepStep ==
  ASSUME IInv, WriteSleep \/ CompareSleep
  PROVE  IInv'
<1>1. /\ UNCHANGED <<term, chunk, session, phase_u8, touched, slept>> /\ Frame /\ Quiet
      /\ left' \in Nat
      /\ \/ pc = "write sleep" /\ pc' \in {"write sleep", "write"}
         \/ pc = "compare sleep" /\ pc' \in {"compare sleep", "compare", "compare paced"}
  BY SleepGoesOn DEF WriteSleep, CompareSleep, PacedNext
<1>2. pc \in Armed \ {"wipe"} /\ pc' \in Armed \ {"wipe"}
  BY <1>1 DEF Armed, Drawn, Compared
<1>3. /\ exit' = Running /\ touched' = TRUE /\ phase_u8' \in 1 .. 4 /\ chunk' \in Nat
      /\ slept' \in Nat /\ UNCHANGED <<config, cancel>>
  BY <1>1, <1>2, ArmedStep DEF Frame, callVars, IInv, Types
<1>4. ScreenStage'
  BY <1>1, <1>3, DrawnStage DEF IInv, ScreenStage, Drawn, Compared
<1>5. SleepBound'
  BY <1>1, <1>3, SleepKeeps DEF Counted
<1> QED
  BY <1>1, <1>2, <1>3, <1>4, <1>5, ArmedGoes

-----------------------------------------------------------------------------
(* Phase 4. *)

\* What the errors of the two loops say.
LEMMA LoopErrors ==
  /\ Says(layer("Phase 4", from_source(Cancelled)), "cancelled", {"cancelled by user", "Phase 4"})
  /\ \A d \in {"writing", "reading"} :
       /\ Says(layer("Phase 4", context(from_source(IoError), d)), "io", {"io error", d, "Phase 4"})
       /\ Says(layer("Phase 4", layer(d, IoError)), "io", {"io error", d, "Phase 4"})
       /\ Says(layer("Phase 5b", context(from_source(IoError), d)), "io", {"io error", d, "Phase 5b"})
       /\ Says(layer("Phase 5b", layer(d, IoError)), "io", {"io error", d, "Phase 5b"})
  /\ Says(layer("Phase 4", msg("refused")), "refused", {"refused", "Phase 4"})
  /\ Says(layer("Phase 5b", from_source(Cancelled)), "cancelled", {"cancelled by user", "Phase 5b"})
  /\ Says(layer("Phase 5b", from_source(VerificationMismatch)), "mismatch",
          {"verification mismatch", "Phase 5b"})
<1>1. \A a, b \in Text : {a} \cup {b} = {a, b}
  OBVIOUS
<1>2. \A a, b, c \in Text : {a, b} \cup {c} = {a, b, c}
  OBVIOUS
<1>3. Says(from_source(Cancelled), "cancelled", {"cancelled by user"})
  BY SourceSays DEF Cancelled, Text
<1>4. Says(from_source(VerificationMismatch), "mismatch", {"verification mismatch"})
  BY SourceSays DEF VerificationMismatch, Text
<1>5. Says(from_source(IoError), "io", {"io error"})
  BY SourceSays DEF IoError, Text
<1>6. Says(msg("refused"), "refused", {"refused"})
  BY MsgSays DEF Text
<1>7. {"cancelled by user", "verification mismatch", "io error", "refused", "writing", "reading",
       "Phase 4", "Phase 5b"} \subseteq Text
  BY DEF Text
<1>8. ASSUME NEW d \in {"writing", "reading"}
      PROVE  /\ Says(context(from_source(IoError), d), "io", {"io error", d})
             /\ Says(layer(d, IoError), "io", {"io error", d})
  <2>1. Says(context(from_source(IoError), d), "io", {"io error"} \cup {d})
    BY <1>5, <1>7, ContextSays
  <2>2. Says(layer(d, IoError), "io", {"io error", d})
    BY <1>7, LayerOfValue DEF IoError
  <2>3. {"io error"} \cup {d} = {"io error", d}
    OBVIOUS
  <2> QED
    BY <2>1, <2>2, <2>3
<1>9. ASSUME NEW d \in {"writing", "reading"}, NEW text \in {"Phase 4", "Phase 5b"}
      PROVE  /\ Says(layer(text, context(from_source(IoError), d)), "io", {"io error", d, text})
             /\ Says(layer(text, layer(d, IoError)), "io", {"io error", d, text})
  <2>1. {"io error", d} \cup {text} = {"io error", d, text} /\ text \notin {"io error", d} /\ text \in Text
    BY <1>7
  <2>2. /\ Says(layer(text, context(from_source(IoError), d)), "io", {"io error", d} \cup {text})
        /\ Says(layer(text, layer(d, IoError)), "io", {"io error", d} \cup {text})
    BY <1>8, <2>1, LayerSays
  <2> QED
    BY <2>1, <2>2
<1>10. /\ Says(layer("Phase 4", from_source(Cancelled)), "cancelled", {"cancelled by user"} \cup {"Phase 4"})
       /\ Says(layer("Phase 4", msg("refused")), "refused", {"refused"} \cup {"Phase 4"})
       /\ Says(layer("Phase 5b", from_source(Cancelled)), "cancelled",
               {"cancelled by user"} \cup {"Phase 5b"})
       /\ Says(layer("Phase 5b", from_source(VerificationMismatch)), "mismatch",
               {"verification mismatch"} \cup {"Phase 5b"})
  BY <1>3, <1>4, <1>6, <1>7, LayerSays
<1>11. /\ {"cancelled by user"} \cup {"Phase 4"} = {"cancelled by user", "Phase 4"}
       /\ {"refused"} \cup {"Phase 4"} = {"refused", "Phase 4"}
       /\ {"cancelled by user"} \cup {"Phase 5b"} = {"cancelled by user", "Phase 5b"}
       /\ {"verification mismatch"} \cup {"Phase 5b"} = {"verification mismatch", "Phase 5b"}
  OBVIOUS
<1>12. /\ Says(layer("Phase 4", from_source(Cancelled)), "cancelled", {"cancelled by user", "Phase 4"})
       /\ Says(layer("Phase 4", msg("refused")), "refused", {"refused", "Phase 4"})
       /\ Says(layer("Phase 5b", from_source(Cancelled)), "cancelled", {"cancelled by user", "Phase 5b"})
       /\ Says(layer("Phase 5b", from_source(VerificationMismatch)), "mismatch",
               {"verification mismatch", "Phase 5b"})
  BY <1>10, <1>11
<1> QED
  BY <1>9, <1>12

LEMMA FlashStartStep ==
  ASSUME IInv, FlashStart
  PROVE  IInv'
<1> DEFINE t == phase_started(term, "Flash")
           opened == progress(t, "Flash", 0, ~raw)
<1>1. /\ pc = "flash" /\ pc \in Armed \ {"wipe"} /\ set_phase("Writing") /\ chunk' = 0
      /\ UNCHANGED <<left, touched, slept>>
  BY DEF FlashStart, Armed
<1>2. /\ exit = Running /\ session' = session /\ phase_u8' \in 1 .. 4 /\ chunk' \in Nat
      /\ left' \in Nat /\ slept' \in Nat
  BY <1>1, ArmedStep, SetPhase DEF IInv, Types
<1>3. touched' = TRUE
  BY <1>1, ArmedStep DEF IInv, Types
<1>4. Calm(term) /\ Calm(t) /\ t.bar_started = FALSE
  BY <1>1, CalmStarts DEF IInv, ScreenStage, Quietened
<1>5. Drawing(opened, "Flash")
  <2>1. (~raw) \in BOOLEAN
    BY Zenon
  <2> QED
    BY <1>4, <2>1, BarOpens DEF Phase
<1>6. \/ Go("write", opened)
      \/ \E u \in {t, opened} :
           Raise("Flash", layer("Phase 4", layer("reading", IoError)), "Indeterminate", "io", u)
  BY OptionsHold DEF FlashStart, IInv
<1> HIDE DEF t, opened
<1>7. CASE Go("write", opened)
  <2>1. pc' = "write" /\ Frame /\ Quiet /\ term' = opened /\ UNCHANGED <<config, cancel, exit>>
    BY <1>7 DEF Go, Frame, callVars
  <2>2. ScreenStage'
    BY <1>2, <1>5, <2>1, DrawnStage DEF Drawn
  <2>3. SleepBound'
    BY <1>1, <2>1, SleepKeeps DEF Counted
  <2> QED
    BY <1>1, <1>2, <1>3, <2>1, <2>2, <2>3, ArmedGoes DEF Armed, Drawn
<1>8. ASSUME NEW u \in {t, opened},
             Raise("Flash", layer("Phase 4", layer("reading", IoError)), "Indeterminate", "io", u)
      PROVE  Fails("Indeterminate")
  <2>1. Says(layer("Phase 4", layer("reading", IoError)), "io", {"io error", "reading", "Phase 4"})
    BY LoopErrors
  <2>2. CASE u = t
    BY <1>4, <1>8, <2>1, <2>2, CalmFails DEF Phase, DeviceState
  <2>3. CASE u = opened
    BY <1>5, <1>8, <2>1, <2>3, DrawingFails
  <2> QED
    BY <2>2, <2>3
<1> QED
  BY <1>1, <1>2, <1>3, <1>6, <1>7, <1>8, ArmedFails

\* A chunk of either loop, and its report.
LEMMA ChunkStep ==
  ASSUME IInv, WriteChunk \/ CompareChunk
  PROVE  IInv'
<1>1. /\ ~cancel /\ chunk' = chunk + 1 /\ Frame /\ Quiet
      /\ UNCHANGED <<left, session, phase_u8, touched, slept>>
      /\ \/ pc = "write" /\ pc' = "write pace" /\ term' = progress(term, "Flash", chunk + 1, ~raw)
         \/ pc = "compare" /\ pc' = "compare pace" /\ term' = progress(term, "Verify", chunk + 1, FALSE)
  BY DEF WriteChunk, CompareChunk, Go, guardVars
<1>2. pc \in Armed \ {"wipe"} /\ pc' \in Armed \ {"wipe"}
  BY <1>1 DEF Armed, Drawn, Compared
<1>3. /\ exit' = Running /\ phase_u8' \in 1 .. 4 /\ chunk' \in Nat /\ left' \in Nat /\ slept' \in Nat
      /\ UNCHANGED <<config, cancel>>
  <2>1. UNCHANGED <<config, cancel, exit>>
    BY <1>1 DEF Frame, callVars
  <2>2. chunk \in Nat /\ left \in Nat /\ slept \in Nat
    BY DEF IInv, Types
  <2>3. exit = Running /\ phase_u8 \in 1 .. 4
    BY <1>2, ArmedStep
  <2>4. chunk' = chunk + 1 /\ left' = left /\ slept' = slept /\ phase_u8' = phase_u8
    BY <1>1
  <2>5. chunk' \in Nat /\ left' \in Nat /\ slept' \in Nat /\ phase_u8' \in 1 .. 4
    BY <2>2, <2>3, <2>4
  <2> QED
    BY <2>1, <2>3, <2>5
<1>4. touched' = TRUE
  BY <1>1, <1>2, ArmedStep DEF IInv, Types
<1>5. ScreenStage'
  <2>1. chunk + 1 \in Nat
    BY DEF IInv, Types
  <2>2. CASE pc = "write"
    <3>1. Drawing(term, "Flash")
      BY <2>2 DEF IInv, ScreenStage, Drawn
    <3>2. pc' = "write pace" /\ Drawing(term', "Flash")
      BY <1>1, <2>1, <2>2, <3>1, BarMoves
    <3> QED
      BY <1>3, <3>2, DrawnStage DEF Drawn
  <2>3. CASE pc = "compare"
    <3>1. Drawing(term, "Verify")
      BY <2>3 DEF IInv, ScreenStage, Compared
    <3>2. pc' = "compare pace" /\ Drawing(term', "Verify")
      BY <1>1, <2>1, <2>3, <3>1, BarMoves
    <3> QED
      BY <1>3, <3>2, DrawnStage DEF Compared
  <2> QED
    BY <1>1, <2>2, <2>3
<1>6. SleepBound'
  BY <1>1, <1>3, SleepKeeps DEF Counted
<1> QED
  BY <1>1, <1>2, <1>3, <1>4, <1>5, <1>6, ArmedGoes

\* A loop stops: at the flag, at what it read or wrote, at a difference.
LEMMA LoopStopsStep ==
  ASSUME IInv, WriteStops \/ CompareStops \/ (ComparePaced /\ cancel)
  PROVE  IInv'
<1>1. /\ pc \in {"write", "compare", "compare paced"} /\ pc \in Armed \ {"wipe"}
      /\ UNCHANGED <<chunk, left, session, phase_u8, touched, slept>>
  BY DEF WriteStops, CompareStops, ComparePaced, FlashFailed, VerifyFailed, loopVars, guardVars, Armed, Drawn, Compared
<1>2. /\ phase_u8' \in 1 .. 4 /\ chunk' \in Nat /\ left' \in Nat
      /\ pc = "write" => Drawing(term, "Flash")
      /\ pc \in {"compare", "compare paced"} => Drawing(term, "Verify")
  BY <1>1, ArmedStep DEF IInv, Types, ScreenStage, Drawn, Compared
<1>3. touched' = TRUE
  BY <1>1, ArmedStep DEF IInv, Types
<1>4. CASE WriteStops
  <2>1. pc = "write" /\ Drawing(term, "Flash")
    BY <1>2, <1>4 DEF WriteStops
  <2>2. ASSUME NEW e, NEW type \in {"cancelled", "io", "refused"}, NEW Words,
               Says(layer("Phase 4", e), type, Words), type = "cancelled" => cancel, FlashFailed(e, type)
        PROVE  Fails("Indeterminate")
    BY <2>1, <2>2, DrawingFails DEF FlashFailed
  <2>3. Fails("Indeterminate")
    BY <1>4, <2>2, LoopErrors DEF WriteStops
  <2> QED
    BY <1>1, <1>2, <1>3, <2>3, ArmedFails
<1>5. CASE CompareStops \/ (ComparePaced /\ cancel)
  <2>1. Drawing(term, "Verify")
    BY <1>2, <1>5 DEF CompareStops, ComparePaced
  <2>2. ASSUME NEW e, NEW type \in {"cancelled", "mismatch", "io"}, NEW Words,
               Says(layer("Phase 5b", e), type, Words), type = "cancelled" => cancel,
               VerifyFailed("Phase 5b", e, type)
        PROVE  Fails("Indeterminate")
    BY <2>1, <2>2, DrawingFails DEF VerifyFailed
  <2>3. Fails("Indeterminate")
    BY <1>5, <2>2, LoopErrors DEF CompareStops, ComparePaced
  <2> QED
    BY <1>1, <1>2, <1>3, <2>3, ArmedFails
<1> QED
  BY <1>4, <1>5

\* The pipelined comparison goes on after the throttle.
LEMMA ComparePacedStep ==
  ASSUME IInv, ComparePaced, ~cancel
  PROVE  IInv'
<1>1. /\ pc = "compare paced" /\ pc \in Armed \ {"wipe"} /\ pc' = "compare" /\ Frame /\ Quiet
      /\ UNCHANGED term /\ UNCHANGED <<loopVars, guardVars, touched, slept>>
  BY DEF ComparePaced, Go, Same, Armed, Compared
<1>2. UNCHANGED <<config, cancel, exit>> /\ exit' = Running
  BY <1>1, ArmedStep DEF Frame, callVars
<1>3. ScreenStage'
  BY <1>1, <1>2, DrawnStage DEF IInv, ScreenStage, Compared
<1>4. SleepBound'
  BY <1>1, <1>2, SameStep, SleepKeeps DEF Counted
<1>5. pc' \in Armed \ {"wipe"}
  BY <1>1 DEF Armed, Compared
<1> QED
  BY <1>1, <1>3, <1>4, <1>5, SameStep, ArmedGoes

LEMMA FlashEndsStep ==
  ASSUME IInv, FlashEnds
  PROVE  IInv'
<1> DEFINE t == progress(term, "Flash", chunk, ~raw)
<1>1. pc = "write" /\ pc \in Armed \ {"wipe"} /\ UNCHANGED <<loopVars, guardVars, touched, slept>>
  BY DEF FlashEnds, Armed, Drawn
<1>2. exit = Running /\ chunk \in Nat /\ Drawing(term, "Flash")
  BY <1>1, ArmedStep DEF IInv, Types, ScreenStage, Drawn
<1>3. Drawing(t, "Flash")
  BY <1>2, BarMoves
<1>4. \/ Go("cooldown", phase_finished(t, "Flash", "Completed"))
      \/ Raise("Flash", layer("Phase 4", layer("writing", IoError)), "Indeterminate", "io", t)
  BY DEF FlashEnds
<1> HIDE DEF t
<1>5. CASE Go("cooldown", phase_finished(t, "Flash", "Completed"))
  <2>1. /\ pc' = "cooldown" /\ Frame /\ Quiet /\ UNCHANGED <<config, cancel, exit>>
        /\ Calm(term')
    BY <1>3, <1>5, BarEnds DEF Go, Frame, callVars, Phase
  <2>2. ScreenStage'
    BY <1>2, <2>1, CalmStage DEF Quietened
  <2>3. SleepBound'
    BY <1>1, <2>1, SameStep, SleepKeeps DEF Counted
  <2> QED
    BY <1>1, <2>1, <2>2, <2>3, SameStep, ArmedGoes DEF Armed
<1>6. CASE Raise("Flash", layer("Phase 4", layer("writing", IoError)), "Indeterminate", "io", t)
  <2>1. Says(layer("Phase 4", layer("writing", IoError)), "io", {"io error", "writing", "Phase 4"})
    BY LoopErrors
  <2>2. Fails("Indeterminate")
    BY <1>3, <1>6, <2>1, DrawingFails
  <2> QED
    BY <1>1, <2>2, SameStep, ArmedFails
<1> QED
  BY <1>4, <1>5, <1>6

\* A panic keeps what the run held.
LEMMA PanicsStep ==
  ASSUME IInv, Panics
  PROVE  IInv'
<1>1. /\ pc \in Drawn \cup Compared /\ pc \in Armed \ {"wipe"} /\ pc' = "unwinding"
      /\ Frame /\ Quiet /\ UNCHANGED term /\ UNCHANGED <<loopVars, guardVars, touched, slept>>
  BY DEF Same, Panics, Drawn, Compared, Armed
<1>2. exit' = Running /\ UNCHANGED <<config, cancel, exit>>
  BY <1>1, ArmedStep DEF Frame, callVars
<1>3. ScreenStage'
  <2>1. pc' \notin Start \cup BeforeWipe \cup Quietened \cup Settling \cup Drawn \cup Counted
                   \cup Compared \cup Failing \cup {"drop", "succeeded"}
    BY <1>1 DEF Start, BeforeWipe, Quietened, Settling, Drawn, Counted, Compared, Failing
  <2>2. term' \in Screen /\ Plain(term')
    BY <1>1 DEF IInv, ScreenStage, Drawing
  <2> QED
    BY <1>1, <1>2, <2>1, <2>2 DEF ScreenStage, Running
<1>4. SleepBound'
  BY <1>1, <1>2, SameStep, SleepKeeps DEF Counted
<1> QED
  BY <1>1, <1>3, <1>4, SameStep, ArmedGoes DEF Armed

-----------------------------------------------------------------------------
(* Phase 5. *)

LEMMA CooldownStartStep ==
  ASSUME IInv, CooldownStart
  PROVE  IInv'
<1>1. /\ pc = "cooldown" /\ pc \in Armed \ {"wipe"} /\ chunk' = 0
      /\ UNCHANGED <<left, touched, slept>>
  BY DEF CooldownStart, Armed
<1>2. exit = Running /\ Calm(term)
  BY <1>1, ArmedStep DEF IInv, ScreenStage, Quietened
<1>3. session' = session /\ phase_u8' \in 1 .. 4
  <2>1. CASE UNCHANGED guardVars
    BY <1>1, <2>1, ArmedStep DEF guardVars
  <2>2. CASE set_phase("Cooldown")
    BY <1>1, <2>2, SetPhase
  <2> QED
    BY <2>1, <2>2 DEF CooldownStart
<1>4. chunk' \in Nat /\ left' \in Nat /\ slept' \in Nat
  BY <1>1 DEF IInv, Types
<1>5. touched' = TRUE
  BY <1>1, ArmedStep DEF IInv, Types
<1>6. \/ config.skip_cooldown /\ Go("verify", phase_skipped(term, "Cooldown"))
      \/ ~config.skip_cooldown /\ Go("countdown", phase_started(term, "Cooldown"))
  BY OptionsHold DEF CooldownStart, IInv
<1>7. /\ Frame /\ Quiet /\ UNCHANGED <<config, cancel, exit>>
      /\ \/ pc' = "verify" /\ term' = phase_skipped(term, "Cooldown")
         \/ ~config.skip_cooldown /\ pc' = "countdown" /\ term' = phase_started(term, "Cooldown")
  BY <1>6 DEF Go, Frame, callVars
<1>8. Calm(term')
  BY <1>2, <1>7, CalmSkips, CalmStarts
<1>9. ScreenStage'
  <2>1. Counting(term')
    BY <1>8 DEF Calm, Over, Counting
  <2> QED
    BY <1>2, <1>7, <1>8, <2>1, CalmStage, CountedStage DEF Quietened, Counted
<1>10. SleepBound'
  BY <1>1, <1>7, SleepKeeps DEF Counted
<1>11. pc' \in Armed \ {"wipe"}
  BY <1>7 DEF Armed, Counted
<1> QED
  BY <1>1, <1>3, <1>4, <1>5, <1>7, <1>9, <1>10, <1>11, ArmedGoes

LEMMA CooldownSecondStep ==
  ASSUME IInv, CooldownSecond
  PROVE  IInv'
<1>1. /\ pc = "countdown" /\ pc \in Armed \ {"wipe"} /\ ~cancel /\ UNCHANGED <<loopVars, guardVars, touched, slept>> /\ pc' = "second"
      /\ Frame /\ Quiet /\ term' = Countdown(term, chunk, resolved_cooldown_secs(config))
  BY DEF Same, CooldownSecond, Go, Armed, Counted
<1>2. UNCHANGED <<config, cancel, exit>> /\ exit' = Running /\ ~config.skip_cooldown
  BY <1>1, ArmedStep DEF Frame, callVars, IInv, SleepBound, Counted
<1>3. ScreenStage'
  <2>1. Counting(term')
    BY <1>1, Counts DEF IInv, ScreenStage, Counted
  <2> QED
    BY <1>1, <1>2, <2>1, CountedStage DEF Counted
<1>4. SleepBound'
  BY <1>1, <1>2, SameStep, SleepKeeps
<1>5. pc' \in Armed \ {"wipe"}
  BY <1>1 DEF Armed, Counted
<1> QED
  BY <1>1, <1>3, <1>4, <1>5, SameStep, ArmedGoes

\* The one second that is slept to its end.
LEMMA CooldownSleepStep ==
  ASSUME IInv, CooldownSleep
  PROVE  IInv'
<1>1. /\ pc = "second" /\ pc \in Armed \ {"wipe"} /\ pc' = "countdown" /\ term' = term
      /\ chunk' = chunk + 1 /\ Slept(TicksPerSecond) /\ Frame /\ Quiet
      /\ UNCHANGED <<left, session, phase_u8, touched>>
  BY DEF CooldownSleep, Go, guardVars, Armed, Counted
<1>2. /\ UNCHANGED <<config, cancel, exit>> /\ exit' = Running /\ ~config.skip_cooldown
      /\ slept = 0 /\ Counting(term)
  BY <1>1, ArmedStep DEF Frame, callVars, IInv, SleepBound, ScreenStage, Counted
<1>3. slept' = IF cancel THEN TicksPerSecond ELSE 0
  BY <1>1, <1>2, CommandLineAssumption DEF CommandLineAssumption, Slept
<1>4. chunk' \in Nat /\ left' \in Nat
  BY <1>1 DEF IInv, Types
<1>5. slept' \in Nat
  BY <1>3, CommandLineAssumption DEF CommandLineAssumption
<1>6. phase_u8' \in 1 .. 4
  BY <1>1, ArmedStep
<1>7. touched' = TRUE
  BY <1>1, ArmedStep DEF IInv, Types
<1>8. ScreenStage'
  BY <1>1, <1>2, CountedStage DEF Counted
<1>9. SleepBound'
  BY <1>1, <1>2, <1>3, CommandLineAssumption DEF CommandLineAssumption, SleepBound
<1>10. pc' \in Armed \ {"wipe"}
  BY <1>1 DEF Armed, Counted
<1> QED
  BY <1>1, <1>4, <1>5, <1>6, <1>7, <1>8, <1>9, <1>10, ArmedGoes

LEMMA CooldownEndsStep ==
  ASSUME IInv, CooldownEnds
  PROVE  IInv'
<1>1. /\ pc = "countdown" /\ pc \in Armed \ {"wipe"} /\ UNCHANGED <<loopVars, guardVars, touched, slept>> /\ pc' = "verify" /\ Frame /\ Quiet
      /\ term' = phase_finished(Countdown(term, chunk, chunk), "Cooldown", "Completed")
  BY DEF Same, CooldownEnds, Go, Armed, Counted
<1>2. UNCHANGED <<config, cancel, exit>> /\ exit' = Running
  BY <1>1, ArmedStep DEF Frame, callVars
<1>3. ScreenStage'
  <2>1. Counting(term)
    BY <1>1 DEF IInv, ScreenStage, Counted
  <2>2. Counting(Countdown(term, chunk, chunk))
    BY <2>1, Counts
  <2>3. Calm(term')
    BY <1>1, <2>2, Counts
  <2> QED
    BY <1>1, <1>2, <2>3, CalmStage DEF Quietened
<1>4. SleepBound'
  BY <1>1, <1>2, SameStep, SleepKeeps DEF Counted
<1>5. pc' \in Armed \ {"wipe"}
  BY <1>1 DEF Armed
<1> QED
  BY <1>1, <1>3, <1>4, <1>5, SameStep, ArmedGoes

\* Two phases are finished: the countdown's row is closed by the first.
LEMMA CooldownStopsStep ==
  ASSUME IInv, CooldownStops
  PROVE  IInv'
<1> DEFINE text == "cancelled by user during cooldown"
           e == layer("Phase 5a", from_source(CancelledDuring(text)))
           t == phase_finished(term, "Cooldown", "Failed")
<1>1. /\ pc = "countdown" /\ pc \in Armed \ {"wipe"} /\ UNCHANGED <<loopVars, guardVars, touched, slept>> /\ cancel
      /\ Raise("Verify", e, "Indeterminate", "cancelled", t)
  BY DEF Same, CooldownStops, Armed, Counted
<1>2. Says(e, "cancelled", {text} \cup {"Phase 5a"})
  <2>1. Says(from_source(CancelledDuring(text)), "cancelled", {text})
    BY SourceSays DEF CancelledDuring, Text
  <2> QED
    BY <2>1, LayerSays DEF Text
<1>3. Calm(t)
  BY <1>1, Counts DEF IInv, ScreenStage, Counted
<1> HIDE DEF e, t
<1>4. Fails("Indeterminate")
  BY <1>1, <1>2, <1>3, CalmFails DEF Phase, DeviceState
<1> QED
  BY <1>1, <1>4, SameStep, ArmedFails

LEMMA VerifyStartStep ==
  ASSUME IInv, VerifyStart
  PROVE  IInv'
<1> DEFINE t == phase_started(term, "Verify")
           opened == progress(t, "Verify", 0, FALSE)
           e == layer("Phase 5b", layer("reading", IoError))
<1>1. /\ pc = "verify" /\ pc \in Armed \ {"wipe"} /\ chunk' = 0
      /\ UNCHANGED <<left, touched, slept>>
  BY DEF VerifyStart, Armed
<1>2. exit = Running /\ Calm(term) /\ Calm(t) /\ t.bar_started = FALSE
  BY <1>1, ArmedStep, CalmStarts DEF IInv, ScreenStage, Quietened
<1>3. Drawing(opened, "Verify")
  BY <1>2, BarOpens DEF Phase
<1>4. session' = session /\ phase_u8' \in 1 .. 4
  <2>1. CASE UNCHANGED guardVars
    BY <1>1, <2>1, ArmedStep DEF guardVars
  <2>2. CASE set_phase("Verifying")
    BY <1>1, <2>2, SetPhase
  <2> QED
    BY <2>1, <2>2 DEF VerifyStart
<1>5. chunk' \in Nat /\ left' \in Nat /\ slept' \in Nat
  BY <1>1 DEF IInv, Types
<1>6. touched' = TRUE
  BY <1>1, ArmedStep DEF IInv, Types
<1>7. \/ Go("disarm", phase_finished(phase_skipped(term, "Verify"), "Verify", "Completed"))
      \/ Go("compare", opened)
      \/ \E u \in {t, opened} : Raise("Verify", e, "Indeterminate", "io", u)
  BY OptionsHold DEF VerifyStart, IInv
<1> HIDE DEF t, opened
<1>8. CASE Go("disarm", phase_finished(phase_skipped(term, "Verify"), "Verify", "Completed"))
  <2>1. pc' = "disarm" /\ Frame /\ Quiet /\ UNCHANGED <<config, cancel, exit>> /\ Calm(term')
    BY <1>2, <1>8, CalmSkips, CalmFinishes DEF Go, Frame, callVars
  <2>2. ScreenStage'
    BY <1>2, <2>1, CalmStage DEF Quietened
  <2>3. SleepBound'
    BY <1>1, <2>1, SleepKeeps DEF Counted
  <2>4. pc' \in Armed \ {"wipe"}
    BY <2>1 DEF Armed
  <2> QED
    BY <1>1, <1>4, <1>5, <1>6, <2>1, <2>2, <2>3, <2>4, ArmedGoes
<1>9. CASE Go("compare", opened)
  <2>1. pc' = "compare" /\ Frame /\ Quiet /\ UNCHANGED <<config, cancel, exit>> /\ term' = opened
    BY <1>9 DEF Go, Frame, callVars
  <2>2. ScreenStage'
    BY <1>2, <1>3, <2>1, DrawnStage DEF Compared
  <2>3. SleepBound'
    BY <1>1, <2>1, SleepKeeps DEF Counted
  <2>4. pc' \in Armed \ {"wipe"}
    BY <2>1 DEF Armed, Compared
  <2> QED
    BY <1>1, <1>4, <1>5, <1>6, <2>1, <2>2, <2>3, <2>4, ArmedGoes
<1>10. ASSUME NEW u \in {t, opened}, Raise("Verify", e, "Indeterminate", "io", u)
       PROVE  Fails("Indeterminate")
  <2>1. Says(e, "io", {"io error", "reading", "Phase 5b"})
    BY LoopErrors
  <2> HIDE DEF e
  <2>2. CASE u = t
    BY <1>2, <1>10, <2>1, <2>2, CalmFails DEF Phase, DeviceState
  <2>3. CASE u = opened
    BY <1>3, <1>10, <2>1, <2>3, DrawingFails
  <2> QED
    BY <2>2, <2>3
<1> QED
  BY <1>1, <1>4, <1>5, <1>6, <1>7, <1>8, <1>9, <1>10, ArmedFails

LEMMA CompareEndsStep ==
  ASSUME IInv, CompareEnds
  PROVE  IInv'
<1>1. /\ pc = "compare" /\ pc \in Armed \ {"wipe"} /\ pc' = "disarm" /\ Frame /\ Quiet
      /\ UNCHANGED <<loopVars, guardVars, touched, slept>>
      /\ term' = phase_finished(term, "Verify", "Completed")
  BY DEF CompareEnds, Go, Armed, Compared
<1>2. UNCHANGED <<config, cancel, exit>> /\ exit' = Running
  BY <1>1, ArmedStep DEF Frame, callVars
<1>3. ScreenStage'
  <2>1. Drawing(term, "Verify")
    BY <1>1 DEF IInv, ScreenStage, Compared
  <2>2. Calm(term')
    BY <1>1, <2>1, BarEnds DEF Phase
  <2> QED
    BY <1>1, <1>2, <2>2, CalmStage DEF Quietened
<1>4. SleepBound'
  BY <1>1, <1>2, SameStep, SleepKeeps DEF Counted
<1>5. pc' \in Armed \ {"wipe"}
  BY <1>1 DEF Armed
<1> QED
  BY <1>1, <1>3, <1>4, <1>5, SameStep, ArmedGoes

-----------------------------------------------------------------------------
(* Phases 6 and 7. *)

\* The window closes: what was written stays written.
LEMMA DisarmStep ==
  ASSUME IInv, Disarm
  PROVE  IInv'
<1>1. /\ pc = "disarm" /\ pc \in Armed /\ pc' = "release" /\ Frame /\ Quiet
      /\ session' = "Session" /\ phase_u8' = Encode("Disarmed")
      /\ term' = phase_started(term, "KernelSync")
      /\ UNCHANGED <<chunk, left, touched, slept>>
  BY DEF Disarm, Hold, Go, loopVars, Armed
<1>2. phase_u8' = 0 /\ phase_u8' \in 0 .. 4
  BY <1>1, Encoded
<1>3. UNCHANGED <<config, cancel, exit, early>>
  BY <1>1 DEF Frame, callVars
<1>4. exit = Running /\ ~early /\ touched
  BY <1>1, ArmedStep
<1>5. chunk' \in Nat /\ left' \in Nat /\ slept' \in Nat
  BY <1>1 DEF IInv, Types
<1>6. touched' \in BOOLEAN
  BY <1>1, Zenon DEF IInv, Types
<1>7. Window'
  <2>1. pc' \notin Start \cup BeforeWipe \cup Armed \cup Settling
                   \cup {"wipe", "report", "succeeded", "done", "drop"}
    BY <1>1 DEF Start, BeforeWipe, Armed, Drawn, Counted, Compared, Settling
  <2> QED
    BY <1>1, <1>2, <1>4, <2>1 DEF Window
<1>8. ScreenStage'
  <2>1. Calm(term')
    BY <1>1, CalmStarts DEF IInv, ScreenStage, Quietened
  <2> QED
    BY <1>1, <1>3, <1>4, <2>1, CalmStage DEF Quietened
<1>9. EarlyStops' /\ SleepBound'
  <2>1. SleepBound'
    BY <1>1, <1>3, SleepKeeps DEF Counted
  <2> QED
    BY <1>3, <1>4, <2>1 DEF EarlyStops
<1>10. pc' \in Steps \ {"drop", "report", "done"} /\ session' \in {"none", "Session", "ArmedSession"}
  BY <1>1 DEF Steps
<1> QED
  BY <1>1, <1>2, <1>4, <1>5, <1>6, <1>7, <1>8, <1>9, <1>10, GoKeeps

\* What the steps after the window start from.
LEMMA SettledStep ==
  ASSUME IInv, pc \in Settling \cup {"release"}
  PROVE  exit = Running /\ phase_u8 = 0 /\ touched /\ ~early /\ Calm(term)
<1>1. pc \notin BeforeWipe \cup Failing \cup {"done"}
  BY DEF Settling, BeforeWipe, Failing
<1>2. session # "ArmedSession"
  BY DEF IInv, Window
<1> QED
  BY <1>1, <1>2 DEF IInv, Outcome, EarlyStops, Window, ScreenStage, Quietened

\* A step that goes on there.
LEMMA SettledGoes ==
  ASSUME IInv, pc \in Settling \cup {"release"}, pc' \in Settling \cup {"succeeded"}, Frame, Quiet,
         chunk' \in Nat, left' \in Nat, UNCHANGED <<touched, slept>>,
         session' = "none", phase_u8' = 0, ScreenStage'
  PROVE  IInv'
<1>1. UNCHANGED <<config, cancel, early>>
  BY DEF Frame, callVars
<1>2. exit = Running /\ ~early /\ touched
  BY SettledStep
<1>3. Window'
  BY <1>2, SettlingWindow
<1>4. pc' \notin {"parse", "write pace", "compare pace", "second"} \cup Counted
  BY DEF Settling, Counted
<1>5. EarlyStops' /\ SleepBound'
  BY <1>1, <1>2, <1>4, SleepKeeps DEF EarlyStops
<1>6. pc' \in Steps \ {"drop", "report", "done"}
  BY DEF Settling, Steps
<1>7. slept' \in Nat
  BY DEF IInv, Types
<1>8. touched' \in BOOLEAN
  BY Zenon DEF IInv, Types
<1>9. phase_u8' \in 0 .. 4 /\ session' \in {"none", "Session", "ArmedSession"}
  OBVIOUS
<1> QED
  BY <1>2, <1>3, <1>5, <1>6, <1>7, <1>8, <1>9, GoKeeps

LEMMA ReleaseStep ==
  ASSUME IInv, Release
  PROVE  IInv'
<1>1. /\ pc = "release" /\ session' = "none" /\ phase_u8' = 0 /\ chunk' = 0
      /\ UNCHANGED <<left, touched, slept>>
  BY DEF Release
<1>2. PICK t \in {term, warning(term)} :
        Go("settle", phase_started(phase_finished(t, "KernelSync", "Completed"), "Automount"))
  BY DEF Release
<1>3. exit = Running /\ Calm(term)
  BY <1>1, SettledStep
<1>4. Calm(phase_started(phase_finished(t, "KernelSync", "Completed"), "Automount"))
  BY <1>3, CalmSays, CalmFinishes, CalmStarts
<1>5. /\ pc' = "settle" /\ Frame /\ Quiet /\ Calm(term')
      /\ term' = phase_started(phase_finished(t, "KernelSync", "Completed"), "Automount")
  BY <1>2, <1>4 DEF Go
<1>6. exit' = Running
  BY <1>3, <1>5 DEF Frame
<1>7. ScreenStage'
  BY <1>5, <1>6, CalmStage DEF Settling
<1>8. chunk' \in Nat /\ left' \in Nat
  BY <1>1 DEF IInv, Types
<1> QED
  BY <1>1, <1>5, <1>7, <1>8, SettledGoes DEF Settling

\* The two seconds of Phase 7, before and between the sweeps.
LEMMA SettleStep ==
  ASSUME IInv, Settle \/ SettleSleep \/ SweepPace \/ SweepSleep
  PROVE  IInv'
<1> DEFINE total == 2 * TicksPerSecond
<1>1. total \in Nat /\ ~(total <= 1)
  BY CommandLineAssumption DEF CommandLineAssumption
<1>2. /\ pc \in Settling /\ pc' \in Settling /\ Frame /\ Quiet /\ left' \in Nat
      /\ UNCHANGED <<term, chunk, session, phase_u8, touched, slept>>
  <2>1. CASE Settle
    <3>1. BeginSleep(total, "settle", "settle sleep", "sweep")
      BY <2>1 DEF Settle
    <3> HIDE DEF total
    <3> QED
      BY <1>1, <3>1, SleepBegins DEF Settling
  <2>2. CASE SweepPace
    <3>1. BeginSleep(total, "sweep pace", "sweep sleep", "sweep")
      BY <2>2 DEF SweepPace
    <3> HIDE DEF total
    <3> QED
      BY <1>1, <3>1, SleepBegins DEF Settling
  <2>3. CASE SettleSleep
    BY <2>3, SleepGoesOn DEF SettleSleep, Settling
  <2>4. CASE SweepSleep
    BY <2>4, SleepGoesOn DEF SweepSleep, Settling
  <2> QED
    BY <2>1, <2>2, <2>3, <2>4
<1>3. exit = Running /\ Calm(term) /\ phase_u8 = 0 /\ session = "none" /\ chunk \in Nat
  BY <1>2, SettledStep DEF IInv, Window, Types
<1>4. exit' = Running
  BY <1>2, <1>3 DEF Frame
<1>5. ScreenStage'
  BY <1>2, <1>3, <1>4, CalmStage
<1> QED
  BY <1>2, <1>3, <1>5, SettledGoes

LEMMA SweepPassStep ==
  ASSUME IInv, SweepPass
  PROVE  IInv'
<1> DEFINE t == action(warning(term))
<1>1. /\ pc = "sweep" /\ pc \in Settling /\ chunk' = chunk + 1
      /\ UNCHANGED <<left, session, phase_u8, touched, slept>>
  BY DEF SweepPass, Settling, guardVars
<1>2. Go("sweep pace", warning(t)) \/ Go("sweep pace", t)
  BY DEF SweepPass
<1>3. exit = Running /\ Calm(term) /\ phase_u8 = 0 /\ session = "none"
  BY <1>1, SettledStep DEF IInv, Window
<1>4. Calm(t) /\ Calm(warning(t))
  BY <1>3, CalmSays
<1> HIDE DEF t
<1>5. pc' = "sweep pace" /\ Frame /\ Quiet /\ Calm(term')
  BY <1>2, <1>4 DEF Go
<1>6. exit' = Running
  BY <1>3, <1>5 DEF Frame
<1>7. ScreenStage'
  BY <1>5, <1>6, CalmStage DEF Settling
<1>8. chunk' \in Nat /\ left' \in Nat
  BY <1>1 DEF IInv, Types
<1> QED
  BY <1>1, <1>3, <1>5, <1>7, <1>8, SettledGoes DEF Settling

\* The image is on the device and verified, whatever stops the sweeps.
LEMMA SweepStopsStep ==
  ASSUME IInv, SweepStops
  PROVE  IInv'
<1> DEFINE text == "cancelled by user: settling"
<1>1. /\ pc = "sweep" /\ pc \in Settling
      /\ UNCHANGED <<chunk, left, session, phase_u8, touched, slept>>
  BY DEF SweepStops, AutomountFailed, Settling, loopVars, guardVars
<1>2. /\ exit = Running /\ Calm(term) /\ phase_u8 = 0 /\ session = "none" /\ touched = TRUE /\ ~early
  BY <1>1, SettledStep DEF IInv, Window, Types
<1>3. Says(from_source(CancelledDuring(text)), "cancelled", {text})
  BY SourceSays DEF CancelledDuring, Text
<1>4. Says(layer("Phase 7", IoError), "io", {"io error", "Phase 7"})
  BY LayerOfValue DEF Text, IoError
<1>5. Says(msg("refused"), "refused", {"refused"})
  BY MsgSays DEF Text
<1>6. ASSUME NEW e, NEW type \in {"cancelled", "io", "refused"}, NEW Words, Says(e, type, Words),
             type = "cancelled" => cancel, AutomountFailed(e, type)
      PROVE  Fails("Written")
  BY <1>2, <1>6, CalmFails DEF AutomountFailed, Phase, DeviceState
<1>7. Fails("Written")
  BY <1>3, <1>4, <1>5, <1>6 DEF SweepStops
<1>8. chunk' \in Nat /\ left' \in Nat
  BY <1>1 DEF IInv, Types
<1> QED
  BY <1>1, <1>2, <1>7, <1>8, FailKeeps DEF DeviceState

LEMMA SweepCleanStep ==
  ASSUME IInv, SweepClean
  PROVE  IInv'
<1>1. /\ pc = "sweep" /\ pc \in Settling /\ pc' = "succeeded" /\ Frame /\ Quiet
      /\ term' = finished(phase_finished(term, "Automount", "Completed"))
      /\ UNCHANGED <<chunk, left, session, phase_u8, touched, slept>>
  BY DEF SweepClean, Go, Same, Settling, loopVars, guardVars
<1>2. exit = Running /\ Calm(term) /\ phase_u8 = 0 /\ session = "none"
  BY <1>1, SettledStep DEF IInv, Window
<1>3. exit' = Running
  BY <1>1, <1>2 DEF Frame
<1>4. term' = Println(term, "SUCCESS")
  BY <1>1, <1>2, CalmFinishes DEF finished
<1>5. /\ term' \in Screen /\ term'.bar = NoBar /\ term'.row = "free" /\ ~term'.torn /\ term'.kept = {}
      /\ {"FATAL", "help"} \cap term'.said = {} /\ "SUCCESS" \in term'.said /\ term'.last = "SUCCESS"
  <2>1. "SUCCESS" \in Line
    BY DEF Line
  <2> QED
    BY <1>2, <1>4, <2>1, Printed DEF Calm, Over, Plain
<1>6. ScreenStage'
  <2>1. pc' \notin Start \cup BeforeWipe \cup Quietened \cup Settling \cup Drawn \cup Counted
                   \cup Compared \cup Failing \cup {"unwinding", "drop", "report"}
    BY <1>1 DEF Start, BeforeWipe, Quietened, Settling, Drawn, Counted, Compared, Failing
  <2> QED
    BY <1>1, <1>3, <1>5, <2>1 DEF ScreenStage, Running
<1>7. chunk' \in Nat /\ left' \in Nat
  BY <1>1 DEF IInv, Types
<1> QED
  BY <1>1, <1>2, <1>6, <1>7, SettledGoes

-----------------------------------------------------------------------------
(* The way out. *)

\* The guard goes off exactly when it is armed, and the notice is printed on a
\* row that is free.
LEMMA Dropped ==
  ASSUME IInv, NEW next, DropSession(next)
  PROVE  /\ pc' = next /\ session' = "none" /\ phase_u8' = 0
         /\ would_warn_on_drop <=> session = "ArmedSession"
         /\ ~would_warn_on_drop => term' = term
         /\ would_warn_on_drop => term' = Notice(term)
<1>1. /\ phase_u8 \in 0 .. 4 /\ (phase_u8 = 0 <=> session # "ArmedSession")
      /\ from_u8(phase_u8) # "Disarmed" <=> phase_u8 # 0
  BY Encoded DEF IInv, Types, Window
<1>2. would_warn_on_drop <=> session = "ArmedSession"
  BY <1>1 DEF would_warn_on_drop
<1> QED
  BY <1>2 DEF DropSession

LEMMA Noticed ==
  ASSUME term \in Screen, Plain(term)
  PROVE  LET t == Notice(term) IN
         /\ t \in Screen /\ t.bar = term.bar /\ t.kept = term.kept
         /\ "FATAL" \in t.said /\ {"SUCCESS", "help"} \cap t.said = {} /\ t.last # "error"
         /\ term.bar = NoBar => t.row = "free" /\ t.torn = term.torn
<1> DEFINE row == IF term.bar = NoBar THEN "free" ELSE term.row
           u == [term EXCEPT !.row = row]
<1>1. row \in {"free", "bar", "countdown"}
  BY DEF Screen
<1>2. term.bar = NoBar => row = "free"
  OBVIOUS
<1>3. Notice(term) = Println(u, "FATAL")
  BY DEF Notice, Screen
<1> HIDE DEF row
<1>4. /\ u \in Screen /\ u.bar = term.bar /\ u.kept = term.kept /\ u.said = term.said
      /\ u.last = term.last /\ u.torn = term.torn /\ u.row = row
  BY <1>1 DEF Screen
<1> HIDE DEF u
<1>5. "FATAL" \in Line
  BY DEF Line
<1> QED
  BY <1>2, <1>3, <1>4, <1>5, Printed DEF Plain

\* The error goes up past the session, which is dropped.
LEMMA ReturnStep ==
  ASSUME IInv, Return
  PROVE  IInv'
<1>1. /\ pc = "drop" /\ DropSession("report") /\ Quiet /\ Frame
      /\ UNCHANGED <<chunk, left, touched, slept>>
  BY DEF Return, loopVars
<1>2. UNCHANGED <<config, picked, raw, cancel, exit, early, err, cause>>
  BY <1>1 DEF Frame, Quiet, callVars
<1>3. /\ pc' = "report" /\ session' = "none" /\ phase_u8' = 0
      /\ would_warn_on_drop <=> err.device = "Indeterminate"
      /\ ~would_warn_on_drop => term' = term
      /\ would_warn_on_drop => term' = Notice(term)
  BY <1>1, Dropped DEF IInv, Window
<1>4. /\ exit = Running /\ cause.at \in Phase
      /\ term \in Screen /\ Plain(term) /\ term.bar = NoBar /\ term.row = "free" /\ ~term.torn
      /\ term.kept \subseteq {cause.at}
      /\ cause.type = "mismatch" => term.kept = {"Verify"}
  BY <1>1 DEF IInv, Outcome, ScreenStage, Failing
<1>5. /\ term' \in Screen /\ term'.bar = NoBar /\ term'.row = "free" /\ ~term'.torn
      /\ term'.kept = term.kept
      /\ {"SUCCESS", "help"} \cap term'.said = {} /\ term'.last # "error"
      /\ "FATAL" \in term'.said <=> err.device = "Indeterminate"
  <2>1. CASE would_warn_on_drop
    BY <1>3, <1>4, <2>1, Noticed
  <2>2. CASE ~would_warn_on_drop
    BY <1>3, <1>4, <2>2 DEF Plain
  <2> QED
    BY <2>1, <2>2
<1>6. Types'
  <2>1. (picked \in BOOLEAN /\ raw \in BOOLEAN /\ cancel \in BOOLEAN
         /\ early \in BOOLEAN /\ touched \in BOOLEAN)'
    BY <1>1, <1>2, Zenon DEF IInv, Types
  <2>2. (err = NoError \/ err \in Error(Text))'
    BY <1>2 DEF IInv, Types, NoError
  <2>3. (cause \in [at : Phase \cup {"nowhere", "pick"},
                   type : {"none", "cancelled", "mismatch", "io", "refused"}])'
    BY <1>2 DEF IInv, Types
  <2>4. (chunk \in Nat /\ left \in Nat /\ slept \in Nat /\ exit \in {0, 1, 2, 101, 130, Running})'
    BY <1>1, <1>2 DEF IInv, Types
  <2> QED
    BY <1>3, <2>1, <2>2, <2>3, <2>4 DEF Types, Steps
<1>7. ConfigIsValid'
  BY <1>2 DEF IInv, ConfigIsValid, validate_cooldown_secs
<1>8. Window'
  <2>1. pc' \notin Start \cup BeforeWipe \cup Armed \cup Settling
                   \cup {"wipe", "gate", "release", "succeeded", "done", "drop"}
    BY <1>3 DEF Start, BeforeWipe, Armed, Drawn, Counted, Compared, Settling
  <2> QED
    BY <1>3, <2>1 DEF Window
<1>9. Outcome'
  <2>1. exit' = Running /\ cause'.at \in Phase /\ pc' = "report"
    BY <1>2, <1>3, <1>4
  <2> QED
    BY <2>1 DEF Outcome, Running
<1>10. EarlyStops' /\ SleepBound'
  <2>1. EarlyStops'
    BY <1>1, <1>2, <1>3 DEF IInv, EarlyStops, Failing
  <2>2. SleepBound'
    BY <1>1, <1>2, <1>3, SleepKeeps DEF Counted
  <2> QED
    BY <2>1, <2>2
<1>11. ScreenStage'
  <2>1. pc' \notin Start \cup BeforeWipe \cup Quietened \cup Settling \cup Drawn \cup Counted
                   \cup Compared \cup {"unwinding", "drop", "succeeded"}
    BY <1>3 DEF Start, BeforeWipe, Quietened, Settling, Drawn, Counted, Compared
  <2>2. exit' = Running /\ err' = err /\ cause' = cause /\ cause.at # "pick"
    BY <1>2, <1>4 DEF Phase
  <2> QED
    BY <1>3, <1>4, <1>5, <2>1, <2>2 DEF ScreenStage, Running
<1>12. ErrorIsClassified'
  <2>1. ErrorIsClassified
    BY DEF IInv
  <2>2. UNCHANGED <<cause, err, touched, cancel>>
    BY <1>1, <1>2
  <2> QED
    BY <1>1, <2>1, <2>2 DEF ErrorIsClassified
<1>13. ExitsAgree'
  BY <1>2, <1>4 DEF ExitsAgree
<1> QED
  BY <1>6, <1>7, <1>8, <1>9, <1>10, <1>11, <1>12, <1>13 DEF IInv

\* What the last step keeps, whichever it is: the process is over.
LEMMA OverKeeps ==
  ASSUME IInv, pc' = "done", exit' \in {0, 1, 2, 101, 130}, session' = "none", phase_u8' = 0,
         UNCHANGED <<callVars, loopVars, cancel, err, history>>
  PROVE  /\ Types' /\ ConfigIsValid' /\ Window' /\ EarlyStops' /\ SleepBound' /\ ErrorIsClassified'
<1>1. UNCHANGED <<config, picked, raw, chunk, left, cancel, err, touched, cause, early, slept>>
  BY DEF callVars, loopVars, history
<1>2. Types'
  <2>1. (picked \in BOOLEAN /\ raw \in BOOLEAN /\ cancel \in BOOLEAN
         /\ early \in BOOLEAN /\ touched \in BOOLEAN)'
    BY <1>1, Zenon DEF IInv, Types
  <2>2. (err = NoError \/ err \in Error(Text))'
    BY <1>1 DEF IInv, Types, NoError
  <2>3. (cause \in [at : Phase \cup {"nowhere", "pick"},
                   type : {"none", "cancelled", "mismatch", "io", "refused"}])'
    BY <1>1 DEF IInv, Types
  <2>4. (chunk \in Nat /\ left \in Nat /\ slept \in Nat)'
    BY <1>1 DEF IInv, Types
  <2> QED
    BY <2>1, <2>2, <2>3, <2>4 DEF Types, Steps
<1>3. ConfigIsValid'
  BY <1>1 DEF IInv, ConfigIsValid, validate_cooldown_secs
<1>4. Window'
  <2>1. pc' \notin Start \cup BeforeWipe \cup Armed \cup Settling
                   \cup {"wipe", "gate", "release", "succeeded", "report", "drop"}
    BY DEF Start, BeforeWipe, Armed, Drawn, Counted, Compared, Settling
  <2> QED
    BY <2>1 DEF Window
<1>5. EarlyStops'
  BY <1>1 DEF IInv, EarlyStops
<1>6. SleepBound'
  BY <1>1, SleepKeeps DEF Counted
<1>7. ErrorIsClassified'
  BY DEF ErrorIsClassified
<1> QED
  BY <1>2, <1>3, <1>4, <1>5, <1>6, <1>7

\* The screen of a process that is over.
LEMMA OverStage ==
  ASSUME pc' = "done", term' \in Screen,
         exit' \in {0, 1, 2, 130} => term'.bar = NoBar /\ term'.row = "free" /\ ~term'.torn,
         exit' \in {0, 2, 130} => term'.kept = {},
         exit' = 1 => /\ term'.kept \subseteq {cause'.at}
                      /\ cause'.type = "mismatch" => term'.kept = {"Verify"}
  PROVE  ScreenStage'
<1>1. pc' \notin Start \cup BeforeWipe \cup Quietened \cup Settling \cup Drawn \cup Counted
                 \cup Compared \cup Failing \cup {"unwinding", "drop", "report", "succeeded"}
  BY DEF Start, BeforeWipe, Quietened, Settling, Drawn, Counted, Compared, Failing
<1> QED
  BY <1>1 DEF ScreenStage

LEMMA ReportStep ==
  ASSUME IInv, Report
  PROVE  IInv'
<1>1. /\ pc = "report" /\ pc' = "done" /\ exit' = 1 /\ term' = Println(term, "error")
      /\ UNCHANGED <<session, phase_u8, cause, err, touched>>
      /\ UNCHANGED <<callVars, loopVars, cancel, err, history>>
  BY DEF Report, guardVars, history
<1>2. /\ session = "none" /\ phase_u8 = 0 /\ cause.at \in Phase \cup {"pick"}
      /\ term \in Screen /\ term.bar = NoBar /\ term.row = "free" /\ ~term.torn
      /\ term.kept \subseteq {cause.at}
      /\ cause.type = "mismatch" => term.kept = {"Verify"}
      /\ {"SUCCESS", "help"} \cap term.said = {}
      /\ "FATAL" \in term.said <=> cause.at # "pick" /\ err.device = "Indeterminate"
  BY <1>1 DEF IInv, Window, Outcome, ScreenStage, Failing
<1>3. /\ term' \in Screen /\ term'.bar = NoBar /\ term'.row = "free" /\ ~term'.torn
      /\ term'.kept = term.kept /\ term'.said = term.said \cup {"error"} /\ term'.last = "error"
  <2>1. "error" \in Line
    BY DEF Line
  <2> QED
    BY <1>1, <1>2, <2>1, Printed
<1>4. ScreenStage'
  BY <1>1, <1>2, <1>3, OverStage
<1>5. Outcome'
  <2>1. cause' # NoCause
    BY <1>1, <1>2 DEF NoCause, Phase
  <2> QED
    BY <1>1, <2>1 DEF Outcome, Running
<1>6. ExitsAgree'
  BY <1>1, <1>2, <1>3 DEF ExitsAgree
<1> QED
  BY <1>1, <1>2, <1>4, <1>5, <1>6, OverKeeps DEF IInv

LEMMA ExitStep ==
  ASSUME IInv, Exit
  PROVE  IInv'
<1>1. /\ pc = "succeeded" /\ pc' = "done" /\ exit' = 0 /\ UNCHANGED term
      /\ UNCHANGED <<session, phase_u8, cause, err, touched>>
      /\ UNCHANGED <<callVars, loopVars, cancel, err, history>>
  BY DEF Exit, guardVars, history
<1>2. session = "none" /\ phase_u8 = 0 /\ touched /\ ~early
  BY <1>1 DEF IInv, Window, EarlyStops, BeforeWipe, Failing
<1>3. /\ term \in Screen /\ term.bar = NoBar /\ term.row = "free" /\ ~term.torn /\ term.kept = {}
      /\ {"FATAL", "help"} \cap term.said = {} /\ "SUCCESS" \in term.said /\ term.last = "SUCCESS"
  BY <1>1 DEF IInv, ScreenStage
<1>4. ScreenStage'
  BY <1>1, <1>3, OverStage
<1>5. Outcome'
  BY <1>1, <1>2 DEF Outcome, Running, history
<1>6. ExitsAgree'
  BY <1>1, <1>3 DEF ExitsAgree
<1> QED
  BY <1>1, <1>2, <1>4, <1>5, <1>6, OverKeeps DEF IInv

\* The panic drops the session too.
LEMMA UnwindStep ==
  ASSUME IInv, Unwind
  PROVE  IInv'
<1>1. /\ pc = "unwinding" /\ exit' = 101 /\ DropSession("done")
      /\ UNCHANGED <<callVars, loopVars, cancel, err, history>>
  BY DEF Unwind
<1>2. /\ session = "ArmedSession" /\ touched /\ term \in Screen /\ Plain(term)
  BY <1>1 DEF IInv, Window, ScreenStage, Armed
<1>3. pc' = "done" /\ session' = "none" /\ phase_u8' = 0 /\ term' = Notice(term)
  BY <1>1, <1>2, Dropped
<1>4. /\ term' \in Screen /\ "FATAL" \in term'.said /\ {"SUCCESS", "help"} \cap term'.said = {}
      /\ term'.last # "error"
  BY <1>2, <1>3, Noticed
<1>5. ScreenStage'
  BY <1>1, <1>3, <1>4, OverStage
<1>6. Outcome'
  BY <1>1, <1>2, <1>3 DEF Outcome, Running, history
<1>7. ExitsAgree'
  BY <1>1, <1>3, <1>4 DEF ExitsAgree
<1> QED
  BY <1>1, <1>3, <1>5, <1>6, <1>7, OverKeeps DEF IInv

\* The handler is called at most once, as far as the flag is concerned.
LEMMA InterruptStep ==
  ASSUME IInv, Interrupt
  PROVE  IInv'
<1>1. /\ pc \notin Start \cup {"done"} /\ ~cancel /\ cancel' = TRUE /\ early' = (pc \in BeforeWipe)
      /\ UNCHANGED <<config, picked, raw, pc, chunk, left, term, session, phase_u8, err, exit,
                     touched, cause, slept>>
  BY DEF Interrupt, Start, callVars, loopVars, guardVars
<1>2. Types'
  <2>1. (picked \in BOOLEAN /\ raw \in BOOLEAN /\ touched \in BOOLEAN)'
    BY <1>1, Zenon DEF IInv, Types
  <2>2. cancel' \in BOOLEAN /\ early' \in BOOLEAN
    <3>1. CASE pc \in BeforeWipe
      BY <1>1, <3>1
    <3>2. CASE pc \notin BeforeWipe
      BY <1>1, <3>2
    <3> QED
      BY <3>1, <3>2
  <2>3. (err = NoError \/ err \in Error(Text))'
    BY <1>1 DEF IInv, Types, NoError
  <2> QED
    BY <1>1, <2>1, <2>2, <2>3 DEF IInv, Types
<1>3. ConfigIsValid'
  BY <1>1 DEF IInv, ConfigIsValid, validate_cooldown_secs
<1>4. Window' /\ Outcome'
  BY <1>1 DEF IInv, Window, Outcome, Running
<1>5. EarlyStops'
  BY <1>1 DEF IInv, Window, EarlyStops
<1>6. SleepBound'
  BY <1>1 DEF IInv, SleepBound
<1>7. ScreenStage'
  BY <1>1 DEF IInv, ScreenStage, Calm, Over, Plain, Drawing, Counting
<1>8. ErrorIsClassified'
  BY <1>1 DEF IInv, ErrorIsClassified
<1>9. ExitsAgree'
  BY <1>1 DEF IInv, ExitsAgree
<1> QED
  BY <1>2, <1>3, <1>4, <1>5, <1>6, <1>7, <1>8, <1>9 DEF IInv

LEMMA StutterKeeps ==
  ASSUME IInv, UNCHANGED vars
  PROVE  IInv'
<1>1. UNCHANGED <<config, picked, raw, pc, chunk, left, term, cancel, session, phase_u8, err, exit,
                  touched, cause, early, slept>>
  BY DEF vars, callVars, loopVars, guardVars, history
<1>2. Types'
  BY <1>1 DEF IInv, Types
<1>3. ConfigIsValid'
  BY <1>1 DEF IInv, ConfigIsValid, validate_cooldown_secs
<1>4. Window' /\ Outcome' /\ EarlyStops' /\ SleepBound'
  <2>1. Window'
    BY <1>1 DEF IInv, Window
  <2>2. Outcome'
    BY <1>1 DEF IInv, Outcome
  <2>3. EarlyStops'
    BY <1>1 DEF IInv, EarlyStops
  <2>4. SleepBound'
    BY <1>1 DEF IInv, SleepBound
  <2> QED
    BY <2>1, <2>2, <2>3, <2>4
<1>5. ScreenStage'
  BY <1>1 DEF IInv, ScreenStage, Calm, Over, Plain, Drawing, Counting
<1>6. ErrorIsClassified' /\ ExitsAgree'
  BY <1>1 DEF IInv, ErrorIsClassified, ExitsAgree
<1> QED
  BY <1>2, <1>3, <1>4, <1>5, <1>6 DEF IInv

-----------------------------------------------------------------------------
(* The specification. *)

LEMMA InitInv ==
  ASSUME Init
  PROVE  IInv
<1>1. /\ config = new /\ picked = FALSE /\ raw \in BOOLEAN /\ pc = "parse" /\ chunk = 0 /\ left = 0
      /\ term = new_screen /\ cancel = FALSE /\ session = "none" /\ phase_u8 = 0 /\ err = NoError
      /\ exit = Running /\ touched = FALSE /\ cause = NoCause /\ early = FALSE /\ slept = 0
  BY DEF Init
<1>2. Types
  <2>1. picked \in BOOLEAN /\ raw \in BOOLEAN /\ cancel \in BOOLEAN
        /\ early \in BOOLEAN /\ touched \in BOOLEAN
    BY <1>1, Zenon
  <2>2. cause \in [at : Phase \cup {"nowhere", "pick"},
                   type : {"none", "cancelled", "mismatch", "io", "refused"}]
    BY <1>1 DEF NoCause
  <2> QED
    BY <1>1, <2>1, <2>2 DEF Types, Steps
<1>3. ConfigIsValid
  BY <1>1, CommandLineAssumption DEF CommandLineAssumption, ConfigIsValid, Config, new
<1>4. Window /\ Outcome
  BY <1>1 DEF Window, Outcome, Running, BeforeWipe, Start, Armed, Drawn, Counted, Compared, Settling
<1>5. EarlyStops /\ SleepBound
  BY <1>1, CommandLineAssumption DEF CommandLineAssumption, EarlyStops, SleepBound, Counted
<1>6. ScreenStage
  <2>1. Calm(term)
    <3>1. term \in Screen
      BY <1>1 DEF new_screen, Screen
    <3> QED
      BY <1>1, <3>1 DEF new_screen, Calm, Over, Plain
  <2>2. pc \notin Drawn \cup Counted \cup Compared \cup Failing \cup {"unwinding", "drop", "report", "succeeded"}
    BY <1>1 DEF Drawn, Counted, Compared, Failing
  <2> QED
    BY <1>1, <2>1, <2>2 DEF ScreenStage, Calm, Over, Running
<1>7. ErrorIsClassified /\ ExitsAgree
  BY <1>1 DEF ErrorIsClassified, ExitsAgree
<1> QED
  BY <1>2, <1>3, <1>4, <1>5, <1>6, <1>7 DEF IInv

\* One step, whoever takes it.
LEMMA NextInv ==
  ASSUME IInv, Next
  PROVE  IInv'
<1>1. CASE BadArguments \/ PrintHelp \/ Parse \/ ResolveDevice \/ InstallHandler \/ Killed
  BY <1>1, BadArgumentsStep, ParseStep, PickStep
<1>2. CASE Preflight \/ ConfirmDestruction \/ Topology \/ Claim \/ Gate \/ Wipe
  BY <1>2, PreflightStep, ConfirmStep, TopologyStep, ClaimStep, GateStep, WipeStep
<1>3. CASE FlashStart \/ WriteChunk \/ WritePace \/ WriteSleep \/ WriteStops \/ FlashEnds \/ Panics
  BY <1>3, FlashStartStep, ChunkStep, PaceStep, PaceSleepStep, LoopStopsStep, FlashEndsStep, PanicsStep
<1>4. CASE CooldownStart \/ CooldownSecond \/ CooldownSleep \/ CooldownEnds \/ CooldownStops
  BY <1>4, CooldownStartStep, CooldownSecondStep, CooldownSleepStep, CooldownEndsStep, CooldownStopsStep
<1>5. CASE \/ VerifyStart \/ CompareChunk \/ ComparePace \/ CompareSleep \/ ComparePaced
           \/ CompareStops \/ CompareEnds
  BY <1>5, VerifyStartStep, ChunkStep, PaceStep, PaceSleepStep, ComparePacedStep, LoopStopsStep,
     CompareEndsStep
<1>6. CASE Disarm \/ Release \/ Settle \/ SettleSleep
           \/ SweepPass \/ SweepPace \/ SweepSleep \/ SweepStops \/ SweepClean
  BY <1>6, DisarmStep, ReleaseStep, SettleStep, SweepPassStep, SweepStopsStep, SweepCleanStep
<1>7. CASE Return \/ Unwind \/ Report \/ Exit \/ Interrupt \/ Terminated
  BY <1>7, ReturnStep, UnwindStep, ReportStep, ExitStep, InterruptStep, StutterKeeps DEF Terminated
<1> QED
  BY <1>1, <1>2, <1>3, <1>4, <1>5, <1>6, <1>7 DEF Next, Main

\* The options are valid, the guard's window is the one in which the device is
\* in an unknown state, and the screen is at the stage of its step: an
\* invariant, for every image, rate, cooldown and answer.
THEOREM FrontEndInvariant == Spec => []IInv
<1>1. Init => IInv
  BY InitInv
<1>2. IInv /\ [Next]_vars => IInv'
  BY NextInv, StutterKeeps
<1> QED
  BY <1>1, <1>2, PTL DEF Spec

-----------------------------------------------------------------------------
(* What SUCCESS is worth. *)

\* From where on the device holds the image, and has been read back.
Verified == {"disarm", "release", "succeeded"} \cup Settling
Written == {"cooldown", "verify"} \cup Counted \cup Compared \cup Verified

\* SUCCESS comes at the end of a path past the write, and past the comparison.
Reached ==
  /\ reached \subseteq {"written", "verified"}
  /\ pc \in Written \/ (exit = 0 /\ "SUCCESS" \in term.said) => "written" \in reached
  /\ pc \in Verified \/ (exit = 0 /\ "SUCCESS" \in term.said) =>
       config.skip_verification \/ "verified" \in reached

\* A step to somewhere else, and one that goes no further than it may.
LEMMA ReachedElsewhere ==
  ASSUME Reached, UNCHANGED reached, exit' # 0, pc' \notin Written
  PROVE  Reached'
  BY DEF Reached, Written

LEMMA ReachedKeeps ==
  ASSUME Reached, UNCHANGED <<reached, config>>, exit' # 0, pc \in Written,
         pc' \in Verified => pc \in Verified \/ config.skip_verification
  PROVE  Reached'
  BY DEF Reached

\* Nobody has exited yet.
LEMMA NotOver ==
  ASSUME IInv, pc # "done", UNCHANGED exit
  PROVE  exit' # 0
<1>1. exit = Running
  BY DEF IInv, Outcome
<1> QED
  BY <1>1 DEF Running

LEMMA ReachedStart ==
  ASSUME IInv, Reached, Parse \/ ResolveDevice \/ InstallHandler
  PROVE  Reached'
<1>1. /\ UNCHANGED <<reached, exit>> /\ pc \in Start
      /\ pc' \in {"pick", "install", "preflight", "report"}
  BY DEF Parse, ResolveDevice, InstallHandler, Go, Frame, Same, history, Start
<1>2. exit' # 0
  BY <1>1, StartStep DEF Running
<1>3. pc' \notin Written
  BY <1>1 DEF Written, Verified, Counted, Compared, Settling
<1> QED
  BY <1>1, <1>2, <1>3, ReachedElsewhere

LEMMA ReachedBeforeWipe ==
  ASSUME IInv, Reached, Preflight \/ ConfirmDestruction \/ Topology \/ Claim \/ Gate \/ Wipe
  PROVE  Reached'
<1>1. /\ UNCHANGED <<reached, exit>> /\ pc # "done"
      /\ pc' \in {"confirm", "topology", "claim", "gate", "wipe", "flash", "drop"}
  <2>1. CASE Preflight
    BY <2>1 DEF Preflight, Go, Raise, Refused, IoFailed, Frame, Same
  <2>2. CASE ConfirmDestruction
    BY <2>2 DEF ConfirmDestruction, Go, Raise, Frame, Same
  <2>3. CASE Topology
    BY <2>3 DEF Topology, Go, Raise, Refused, IoFailed, Frame, Same
  <2>4. CASE Claim
    BY <2>4 DEF Claim, Go, Raise, Refused, IoFailed, Frame
  <2>5. CASE Gate
    BY <2>5 DEF Gate, Go, Raise, Frame
  <2>6. CASE Wipe
    BY <2>6 DEF Wipe, Go, Raise, Frame
  <2> QED
    BY <2>1, <2>2, <2>3, <2>4, <2>5, <2>6
<1>2. exit' # 0
  BY <1>1, NotOver
<1>3. pc' \notin Written
  BY <1>1 DEF Written, Verified, Counted, Compared, Settling
<1> QED
  BY <1>1, <1>2, <1>3, ReachedElsewhere

LEMMA ReachedFlash ==
  ASSUME IInv, Reached,
         FlashStart \/ WriteChunk \/ WritePace \/ WriteSleep \/ WriteStops \/ FlashEnds \/ Panics
  PROVE  Reached'
<1>1. CASE FlashEnds /\ pc' = "cooldown"
  <2>1. reached' = {"written"} /\ UNCHANGED exit /\ pc = "write"
    BY <1>1 DEF FlashEnds, Go, Raise, Frame
  <2>2. exit' # 0
    BY <2>1, NotOver
  <2>3. pc' \notin Verified
    BY <1>1 DEF Verified, Settling
  <2> QED
    BY <2>1, <2>2, <2>3 DEF Reached
<1>2. CASE ~(FlashEnds /\ pc' = "cooldown")
  <2>1. /\ UNCHANGED <<reached, exit>> /\ pc # "done"
        /\ pc' \in {"write", "write pace", "write sleep", "drop", "unwinding"}
    <3>1. CASE FlashStart
      BY <3>1 DEF FlashStart, Go, Raise, Frame
    <3>2. CASE WriteChunk
      BY <3>2 DEF WriteChunk, Go, Frame
    <3>3. CASE WritePace \/ WriteSleep
      BY <3>3 DEF WritePace, WriteSleep, Pace, BeginSleep, Sleep, SleepFrame, Frame
    <3>4. CASE WriteStops
      BY <3>4 DEF WriteStops, FlashFailed, Raise, Frame
    <3>5. CASE FlashEnds
      BY <1>2, <3>5 DEF FlashEnds, Go, Raise, Frame
    <3>6. CASE Panics
      BY <3>6 DEF Panics, Frame, Same
    <3> QED
      BY <3>1, <3>2, <3>3, <3>4, <3>5, <3>6
  <2>2. exit' # 0
    BY <2>1, NotOver
  <2>3. pc' \notin Written
    BY <2>1 DEF Written, Verified, Counted, Compared, Settling
  <2> QED
    BY <2>1, <2>2, <2>3, ReachedElsewhere
<1> QED
  BY <1>1, <1>2

LEMMA ReachedVerify ==
  ASSUME IInv, Reached,
         \/ CooldownStart \/ CooldownSecond \/ CooldownSleep \/ CooldownEnds \/ CooldownStops
         \/ VerifyStart \/ CompareChunk \/ ComparePace \/ CompareSleep \/ ComparePaced
         \/ CompareStops \/ CompareEnds
  PROVE  Reached'
<1>1. /\ pc \in {"cooldown", "countdown", "second", "verify", "compare", "compare pace",
                 "compare sleep", "compare paced"}
      /\ UNCHANGED <<config, exit>>
  <2>1. CASE CooldownStart \/ CooldownSecond \/ CooldownSleep \/ CooldownEnds \/ CooldownStops
    BY <2>1 DEF CooldownStart, CooldownSecond, CooldownSleep, CooldownEnds, CooldownStops, Go, Raise,
       Frame, callVars
  <2>2. CASE VerifyStart \/ CompareChunk \/ ComparePaced \/ CompareStops \/ CompareEnds
    BY <2>2 DEF VerifyStart, CompareChunk, ComparePaced, CompareStops, CompareEnds, VerifyFailed, Go,
       Raise, Frame, callVars
  <2>3. CASE ComparePace \/ CompareSleep
    BY <2>3 DEF ComparePace, CompareSleep, Pace, BeginSleep, Sleep, SleepFrame, Frame, callVars
  <2> QED
    BY <2>1, <2>2, <2>3
<1>2. exit' # 0 /\ pc \in Written
  BY <1>1, NotOver DEF Written, Counted, Compared
<1>3. CASE CompareEnds
  <2>1. reached' = reached \cup {"verified"}
    BY <1>3 DEF CompareEnds
  <2> QED
    BY <1>2, <2>1 DEF Reached
<1>4. CASE ~CompareEnds
  <2>1. UNCHANGED reached /\ (pc' = "disarm" => config.skip_verification)
        /\ pc' \in {"drop", "countdown", "second", "verify", "compare", "compare pace",
                    "compare sleep", "compare paced", "disarm"}
    <3>1. CASE CooldownStart \/ CooldownSecond \/ CooldownSleep \/ CooldownEnds \/ CooldownStops
      BY <3>1 DEF CooldownStart, CooldownSecond, CooldownSleep, CooldownEnds, CooldownStops, Go, Raise,
         Same
    <3>2. CASE VerifyStart
      BY <3>2 DEF VerifyStart, Go, Raise
    <3>3. CASE CompareChunk \/ ComparePaced \/ CompareStops
      BY <3>3 DEF CompareChunk, ComparePaced, CompareStops, VerifyFailed, Go, Raise, Same
    <3>4. CASE ComparePace \/ CompareSleep
      BY <3>4 DEF ComparePace, CompareSleep, PacedNext, Pace, BeginSleep, Sleep, SleepFrame
    <3> QED
      BY <1>4, <3>1, <3>2, <3>3, <3>4
  <2>2. pc' \in Verified => config.skip_verification
    BY <2>1 DEF Verified, Settling
  <2> QED
    BY <1>1, <1>2, <2>1, <2>2, ReachedKeeps
<1> QED
  BY <1>3, <1>4

LEMMA ReachedSettle ==
  ASSUME IInv, Reached,
         \/ Disarm \/ Release \/ Settle \/ SettleSleep
         \/ SweepPass \/ SweepPace \/ SweepSleep \/ SweepStops \/ SweepClean
  PROVE  Reached'
<1>1. pc \in {"disarm", "release"} \cup Settling /\ UNCHANGED <<reached, config, exit>>
  <2>1. CASE Disarm \/ Release
    BY <2>1 DEF Disarm, Release, Go, Frame, callVars
  <2>2. CASE Settle \/ SettleSleep \/ SweepPace \/ SweepSleep
    BY <2>2 DEF Settle, SettleSleep, SweepPace, SweepSleep, BeginSleep, Sleep, SleepFrame, Frame,
       callVars, Settling
  <2>3. CASE SweepPass \/ SweepClean
    BY <2>3 DEF SweepPass, SweepClean, Go, Frame, Same, callVars, Settling
  <2>4. CASE SweepStops
    BY <2>4 DEF SweepStops, AutomountFailed, Raise, Frame, callVars, Settling
  <2> QED
    BY <2>1, <2>2, <2>3, <2>4
<1>2. pc \in Written /\ pc \in Verified /\ exit' # 0
  BY <1>1, NotOver DEF Written, Verified, Settling
<1> QED
  BY <1>1, <1>2, ReachedKeeps

\* The last steps: SUCCESS is on the screen of none but the one that exits with 0.
LEMMA ReachedOver ==
  ASSUME IInv, Reached,
         BadArguments \/ PrintHelp \/ Killed \/ Return \/ Unwind \/ Report \/ Exit
  PROVE  Reached'
<1>1. UNCHANGED <<reached, config>> /\ pc' \in {"done", "report"} /\ pc # "done"
  BY DEF BadArguments, PrintHelp, Killed, Return, Unwind, Report, Exit, DropSession, Frame, callVars,
     history
<1>2. pc' \notin Written
  BY <1>1 DEF Written, Verified, Counted, Compared, Settling
<1>3. CASE Exit
  <2>1. pc \in Verified /\ pc \in Written
    BY <1>3 DEF Exit, Verified, Written
  <2> QED
    BY <1>1, <2>1 DEF Reached
<1>4. CASE PrintHelp
  <2>1. "SUCCESS" \notin term'.said
    <3>1. Calm(term) /\ "help" \in Line /\ term' = Println(term, "help")
      BY <1>4, StartStep DEF PrintHelp, Start, Line
    <3> QED
      BY <3>1, Printed DEF Calm, Over, Plain
  <2> QED
    BY <1>1, <1>2, <2>1 DEF Reached, Written
<1>5. CASE BadArguments \/ Killed \/ Return \/ Unwind \/ Report
  <2>1. exit' # 0
    BY <1>1, <1>5 DEF BadArguments, Killed, Return, Frame, Unwind, Report, IInv, Outcome, Running
  <2> QED
    BY <1>1, <1>2, <2>1, ReachedElsewhere
<1> QED
  BY <1>3, <1>4, <1>5

LEMMA ReachedStutter ==
  ASSUME IInv, Reached, Interrupt \/ UNCHANGED vars
  PROVE  Reached'
<1>1. UNCHANGED <<pc, exit, term, config, reached>>
  BY DEF Interrupt, vars, callVars, history
<1> QED
  BY <1>1 DEF Reached

LEMMA ReachedNext ==
  ASSUME IInv, Reached, Next
  PROVE  Reached'
<1>1. CASE Interrupt \/ Terminated
  BY <1>1, ReachedStutter DEF Terminated
<1>2. CASE Main \/ Killed
  BY <1>2, ReachedStart, ReachedBeforeWipe, ReachedFlash, ReachedVerify, ReachedSettle, ReachedOver
  DEF Main
<1> QED
  BY <1>1, <1>2 DEF Next

\* Whoever is told SUCCESS has a device that was written, and read back unless
\* that was waived: an invariant on top of the one above.
THEOREM SuccessIsEarned == Spec => []Reached
<1>1. Init => Reached
  <2> SUFFICES ASSUME Init
               PROVE  Reached
    OBVIOUS
  <2>1. pc = "parse" /\ exit = Running /\ reached = {}
    BY DEF Init
  <2>2. pc \notin Written /\ exit # 0
    BY <2>1 DEF Running, Written, Verified, Counted, Compared, Settling
  <2> QED
    BY <2>1, <2>2 DEF Reached, Written
<1>2. IInv /\ Reached /\ [Next]_vars => Reached'
  BY ReachedNext, ReachedStutter
<1> QED
  BY <1>1, <1>2, FrontEndInvariant, PTL DEF Spec

-----------------------------------------------------------------------------
(* What the process promises. *)

\* Every variable of the process stays in its type.
THEOREM FrontEndTypeOK == Spec => []TypeOK
<1>1. IInv /\ Reached => TypeOK
  BY DEF IInv, Types, ConfigIsValid, ScreenStage, Reached, TypeOK
<1> QED
  BY <1>1, FrontEndInvariant, SuccessIsEarned, PTL

\* ui.rs and progress.rs: no line is printed across a bar or the countdown, a
\* bar is on the screen in its own phase only, with a clock of its own, and what
\* is left at the end is the bar of the phase that failed.
THEOREM ScreenStaysLegible == Spec => []ScreenIsLegible
<1>1. IInv => ScreenIsLegible
  <2> SUFFICES ASSUME IInv, ~Panicked
               PROVE  /\ ~term.torn
                      /\ term.bar # NoBar =>
                           /\ pc \in CASE term.bar.phase = "Flash" -> Drawn
                                       [] term.bar.phase = "Verify" -> Compared
                           /\ term.bar.position > 0 => term.bar.timed
                      /\ exit # Running => term.kept \subseteq {cause.at}
                      /\ exit = 1 /\ cause.type = "mismatch" => term.kept = {"Verify"}
    BY DEF ScreenIsLegible, Drawn, Compared
  <2>1. /\ pc \in Start \cup BeforeWipe \cup Quietened \cup Settling \cup Drawn \cup Counted
                    \cup Compared \cup Failing \cup {"succeeded", "done"}
        /\ pc = "done" <=> exit # Running
        /\ exit # Running => exit \in {0, 1, 2, 130}
    BY DEF IInv, Types, Outcome, Steps, Panicked, Start, BeforeWipe, Quietened, Settling, Drawn, Counted,
       Compared, Failing
  <2>2. CASE pc \in Drawn
    BY <2>2 DEF IInv, Outcome, ScreenStage, Drawing, Drawn
  <2>3. CASE pc \in Compared
    BY <2>3 DEF IInv, Outcome, ScreenStage, Drawing, Compared
  <2>4. CASE pc \notin Drawn \cup Compared
    <3>1. ~term.torn /\ term.bar = NoBar
      BY <2>1, <2>4 DEF IInv, ScreenStage, Calm, Over, Counting
    <3>2. /\ exit # Running => term.kept \subseteq {cause.at}
          /\ exit = 1 /\ cause.type = "mismatch" => term.kept = {"Verify"}
      BY <2>1 DEF IInv, ScreenStage
    <3> QED
      BY <3>1, <3>2
  <2> QED
    BY <2>2, <2>3, <2>4
<1> QED
  BY <1>1, FrontEndInvariant, PTL

\* error.rs: through however many layers, an error still says what was raised
\* and what that means for the device, and nothing of it twice.
THEOREM ErrorsAreClassified == Spec => []ErrorIsClassified
<1>1. IInv => ErrorIsClassified
  BY DEF IInv
<1> QED
  BY <1>1, FrontEndInvariant, PTL

\* main.rs: 0 is SUCCESS over a device that was written, and verified unless
\* --skip-verification was given, or is clap's help and nothing happened; on 1
\* the error is the last line, and the FATAL notice is there exactly when the
\* device is in an unknown state.
THEOREM ExitsTellTheTruth == Spec => []ExitTellsTheTruth
<1>1. IInv /\ Reached => ExitTellsTheTruth
  BY DEF IInv, ExitsAgree, Reached, ExitTellsTheTruth
<1> QED
  BY <1>1, FrontEndInvariant, SuccessIsEarned, PTL

\* signals.rs, cancel.rs: an interrupt before the wipe costs the device nothing
\* and never ends in success; from the interrupt on the process sleeps no longer
\* than a tick, or the one second of the countdown.
THEOREM InterruptsAreHeard == Spec => []InterruptIsHeard
<1>1. IInv => InterruptIsHeard
  BY DEF IInv, EarlyStops, SleepBound, Outcome, InterruptIsHeard
<1> QED
  BY <1>1, FrontEndInvariant, PTL

\* A rate of zero or a cooldown out of bounds never reaches the second look at
\* it, which comes after the wipe.
THEOREM BadOptionsCostNothing == Spec => []BadOptionCostsNothing
<1>1. IInv => BadOptionCostsNothing
  BY DEF IInv, Types, BadOptionCostsNothing
<1> QED
  BY <1>1, FrontEndInvariant, PTL
=============================================================================
