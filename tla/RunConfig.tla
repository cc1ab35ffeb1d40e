----------------------------- MODULE RunConfig -----------------------------
(***************************************************************************)
(* Where the configuration of a run comes from: burnin/config/config.go    *)
(* (Load, parseDurations, Validate), burnin/api/models.go                  *)
(* (ToInternalConfig), and the calls in main.go and server.go around them. *)
(*                                                                         *)
(* A configuration is a function from fields to values.  Fields that are   *)
(* validated alike are one field here, and a value is what validation,     *)
(* parsing and merging tell apart: Zero is Go's zero value (a field nobody *)
(* set, or "enabled" being false), Off the text "0", Bad a value that      *)
(* Validate or parseDuration rejects, and the others are good values.      *)
(* The parsed durations are not part of the JSON form (json:"-").          *)
(***************************************************************************)
EXTENDS Integers

CONSTANTS
  Good,       \* good values, which a default, a file or a client may give
  Default,    \* the one DefaultConfig uses
  Files,      \* what a configuration file may say: partial functions
  Overrides,  \* what the environment may say
  Bodies,     \* what a client may POST to /run/start
  MaxStarts   \* bound: runs started

ASSUME DefaultAssumption == Default \in Good
ASSUME MaxStartsAssumption == MaxStarts \in Nat

Zero     == "zero"
Off      == "off"
Bad      == "bad"
Mistyped == "mistyped"  \* in a body: JSON of the wrong type
Values   == Good \cup {Zero, Off, Bad}
ASSUME ValuesAssumption == Good \cap {Zero, Off, Bad, Mistyped} = {}

(* The worker types, reduced to one that needs transactions and one that   *)
(* does not.                                                               *)
Workers == {"produce_round_trip", "transactions_eos"}
Enabled == [produce_round_trip |-> "produce_round_trip.enabled",
            transactions_eos   |-> "transactions_eos.enabled"]
(* Its channels, rate, producers and consumers.                            *)
Numbers == [produce_round_trip |-> "produce_round_trip.numbers",
            transactions_eos   |-> "transactions_eos.numbers"]

(* The blocks that a client may overlay, and the rest.                     *)
Block ==
  [duration          |-> {"duration"},
   mode              |-> {"mode"},
   kafka             |-> {"acks", "fetch_max_wait_ms", "txn_timeout_ms", "idempotent"},
   workers           |-> {Enabled[w] : w \in Workers} \cup {Numbers[w] : w \in Workers},
   message           |-> {"size_mode", "size_bytes", "reorder_window"},
   thresholds        |-> {"max_loss_pct", "max_p99_latency_ms", "max_duration"},
   forced_disconnect |-> {"interval", "disconnect_duration"}]
Blocks  == DOMAIN Block
Scalars == {"duration", "mode"}
Overlaid == UNION {Block[b] : b \in Blocks}
Rest   == {"version", "address", "drain_timeout_seconds", "warmup_duration", "report_interval"}
Fields == Overlaid \cup Rest

BlockOf(f) == CHOOSE b \in Blocks : f \in Block[b]

(* Fields that must have a good value, and ones where zero will do.        *)
Required  == {"version", "address", "acks", "size_mode", "reorder_window",
              "drain_timeout_seconds", "max_p99_latency_ms"}
Limits    == {"fetch_max_wait_ms", "max_loss_pct"}
Durations == {"duration", "warmup_duration", "report_interval", "interval",
              "disconnect_duration", "max_duration"}
Switchable == {"duration", "interval"}  \* ones for which "0" is not parsed

ASSUME FilesAssumption ==
  \A file \in Files : DOMAIN file \subseteq Fields /\ \A f \in DOMAIN file : file[f] \in Values
ASSUME OverridesAssumption ==
  \A o \in Overrides : /\ DOMAIN o \subseteq {"address"} \cup Block.workers
                       /\ \A f \in DOMAIN o : o[f] \in Values
ASSUME BodiesAssumption ==
  \A body \in Bodies : /\ DOMAIN body \subseteq Overlaid
                       /\ \A f \in DOMAIN body : body[f] \in Values \cup {Mistyped}

(* A configuration: its fields and its parsed durations.                   *)
Configs  == [field : [Fields -> Values], parsed : [Durations -> Values]]
NoConfig == [field |-> [f \in Fields |-> Zero], parsed |-> [d \in Durations |-> Zero]]

VARIABLES
  phase,    \* where main is: the server serves from "boot" on
  startup,  \* the configuration main loaded, which the server and the adapter share
  runCfg,   \* e.runCfg
  busy,     \* whether the engine refuses a start
  starts,   \* runs started
  \* history
  loaded,   \* what Load returned
  named     \* the blocks the request of the current run named

configVars == <<phase, startup, runCfg, busy, starts, loaded, named>>

ConfigTypeOK ==
  /\ phase \in {"load", "check", "boot", "waiting", "exited"}
  /\ {startup, runCfg, loaded} \subseteq Configs
  /\ busy \in BOOLEAN
  /\ starts \in 0 .. MaxStarts
  /\ named \subseteq Blocks

ConfigInit ==
  /\ phase = "load"
  /\ startup = NoConfig
  /\ runCfg = NoConfig
  /\ busy = FALSE
  /\ starts = 0
  /\ loaded = NoConfig
  /\ named = {}

-----------------------------------------------------------------------------
(* DefaultConfig: no forced disconnects, no warmup_duration.               *)
DefaultConfig ==
  [NoConfig EXCEPT !.field =
     [f \in Fields |-> CASE f = "interval" -> Off
                         [] f = "warmup_duration" -> Zero
                         [] OTHER -> Default]]

(* Fields of an existing configuration replaced by the ones that are given. *)
Merge(c, given) ==
  [c EXCEPT !.field =
     [f \in Fields |-> IF f \in DOMAIN given THEN given[f] ELSE c.field[f]]]

(* parseDurations: a text that is not parsed leaves the old duration.      *)
Unparsed(f, text) == text = Zero \/ (text = Off /\ f \in Switchable)

parseDurations(c) ==
  [c EXCEPT !.parsed =
     [d \in Durations |-> LET text == c.field[d] IN
        IF Unparsed(d, text) THEN c.parsed[d] ELSE IF text = Off THEN Zero ELSE text]]

DurationsParse(c) == \A d \in Durations : c.field[d] # Bad

(* Validate, apart from its warnings.                                      *)
IsEnabled(c, w) == c.field[Enabled[w]] # Zero

Validate(c) ==
  /\ \A f \in Required : c.field[f] \in Good
  /\ \A f \in Limits : c.field[f] # Bad
  /\ c.field["size_mode"] = Default => c.field["size_bytes"] \in Good
  /\ \E w \in Workers : IsEnabled(c, w)
  /\ \A w \in Workers : IsEnabled(c, w) => c.field[Numbers[w]] \in Good
  /\ IsEnabled(c, "transactions_eos") => c.field["txn_timeout_ms"] \in Good

-----------------------------------------------------------------------------
(***************************************************************************)
(* POST /run/start: the request is decoded with its error ignored,         *)
(* overlaid on a copy of the startup configuration, parsed and validated.  *)
(***************************************************************************)

(* Decoding allocates a block when the body names one of its fields; what  *)
(* the body leaves out of it, or mistypes, is zero.                        *)
Decode(body) ==
  [b \in {b \in Blocks : Block[b] \cap DOMAIN body # {}} |->
     [f \in Block[b] |-> IF f \in DOMAIN body /\ body[f] # Mistyped THEN body[f] ELSE Zero]]

(* Encoding it again drops a zero duration or mode, and no field of a      *)
(* block, so the overlay replaces whole blocks.                            *)
Given(rc) == {b \in DOMAIN rc : ~ (b \in Scalars /\ \A f \in Block[b] : rc[b][f] = Zero)}

Overlay(rc) ==
  [f \in UNION {Block[b] : b \in Given(rc)} |-> rc[BlockOf(f)][f]]

(* Mutant: the struct is copied, and the parsed durations with it.         *)
CopyStruct(base) == base

(* The copy of the base goes through JSON: the parsed durations stay zero. *)
Copy(base) == [base EXCEPT !.parsed = NoConfig.parsed]

(* What ToInternalConfig returns when it does not fail.                    *)
Convert(base, rc) == parseDurations(Merge(Copy(base), Overlay(rc)))

Accepted(c) == DurationsParse(c) /\ Validate(c)

(* StartRunFromConfig.                                                     *)
StartRunFromConfig(c, blocks) ==
  /\ ~ busy
  /\ starts < MaxStarts
  /\ busy' = TRUE
  /\ starts' = starts + 1
  /\ runCfg' = c
  /\ named' = blocks

(* Mutant: the overlay is decoded into the startup configuration.          *)
StartRunFromRequestInPlace(body) ==
  /\ phase \in {"boot", "waiting"}
  /\ LET rc == Decode(body)
         c  == Convert(startup, rc)
     IN /\ Accepted(c)
        /\ StartRunFromConfig(c, Given(rc))
        /\ startup' = c
  /\ UNCHANGED <<phase, loaded>>

(* handleRunStart and the adapter's StartRun; a rejected request changes   *)
(* nothing.                                                                *)
StartRunFromRequest(body) ==
  /\ phase \in {"boot", "waiting"}
  /\ LET rc == Decode(body)
         c  == Convert(startup, rc)
     IN Accepted(c) /\ StartRunFromConfig(c, Given(rc))
  /\ UNCHANGED <<phase, startup, loaded>>

-----------------------------------------------------------------------------
(* The environment may set the broker's address and, of each worker, the   *)
(* rate, the channels and whether it is enabled.                           *)
applyEnvOverrides(c, override) == Merge(c, override)

(* Load: the file is merged into the defaults field by field, then the     *)
(* environment.  A duration that does not parse ends the process.          *)
Load(file, override) ==
  /\ phase = "load"
  /\ LET c == applyEnvOverrides(Merge(DefaultConfig, file), override)
     IN IF DurationsParse(c)
        THEN /\ phase' = "check"
             /\ startup' = parseDurations(c)
             /\ loaded' = parseDurations(c)
        ELSE /\ phase' = "exited"
             /\ UNCHANGED <<startup, loaded>>
  /\ UNCHANGED <<runCfg, busy, starts, named>>

(* main fails fast on an invalid configuration; -validate-config only      *)
(* looks.                                                                  *)
Check ==
  /\ phase = "check"
  /\ phase' \in (IF Validate(startup) THEN {"boot", "exited"} ELSE {"exited"})
  /\ UNCHANGED <<startup, runCfg, busy, starts, loaded, named>>

(* main starts a run on the configuration itself if the flag -run says so; *)
(* it exits when a client was faster.                                      *)
AutoRun ==
  /\ phase = "boot"
  /\ \/ StartRunFromConfig(startup, {}) /\ phase' = "waiting"
     \/ busy /\ phase' = "exited" /\ UNCHANGED <<runCfg, busy, starts, named>>
  /\ UNCHANGED <<startup, loaded>>

NoAutoRun ==
  /\ phase = "boot" /\ phase' = "waiting"
  /\ UNCHANGED <<startup, runCfg, busy, starts, loaded, named>>

RunOver ==
  /\ busy /\ phase # "exited"
  /\ busy' = FALSE
  /\ UNCHANGED <<phase, startup, runCfg, starts, loaded, named>>

ConfigNext ==
  \/ \E file \in Files, override \in Overrides : Load(file, override)
  \/ Check
  \/ AutoRun
  \/ NoAutoRun
  \/ \E body \in Bodies : StartRunFromRequest(body)
  \/ RunOver

ConfigSpec == ConfigInit /\ [][ConfigNext]_configVars

-----------------------------------------------------------------------------
(* The duration a text stands for.                                         *)
Meaning(text) == IF text = Off THEN Zero ELSE text

(* A run goes by the durations its configuration states: a bounded run is  *)
(* bounded and an unbounded one is not, whatever the base said, although   *)
(* the parsed durations are lost in the copy and a "0" is not parsed.  And *)
(* its workers can run: the engine finds one to start, and every one it    *)
(* starts has channels, loops and a rate, and a transaction timeout if it  *)
(* needs one, even when one block of a request enables the worker and      *)
(* another states what it needs.                                           *)
RunsAsStated ==
  starts > 0 =>
    /\ \A d \in Durations : runCfg.parsed[d] = Meaning(runCfg.field[d])
    /\ \E w \in Workers : IsEnabled(runCfg, w)
    /\ \A w \in Workers : IsEnabled(runCfg, w) =>
         /\ runCfg.field[Numbers[w]] \in Good
         /\ w = "transactions_eos" => runCfg.field["txn_timeout_ms"] \in Good

(* A block that a request leaves out has the values the process was        *)
(* started with, however earlier requests overlaid it.                     *)
OmittedFallsThrough ==
  starts > 0 =>
    \A b \in Blocks \ named : \A f \in Block[b] : runCfg.field[f] = loaded.field[f]
=============================================================================
