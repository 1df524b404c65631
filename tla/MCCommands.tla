----------------------------- MODULE MCCommands -----------------------------
(***************************************************************************)
(* The command line: what a process does ("cli"), how the typed client     *)
(* under it makes its calls ("pair", "single"), how its words are read     *)
(* (three vocabularies), how its settings are resolved ("config") and      *)
(* origins compared ("origins"); and the activation engine's policy and    *)
(* pauses ("pacing").  A behaviour is a behaviour of the one that part     *)
(* names.                                                                  *)
(***************************************************************************)
EXTENDS Cli, Client, TLC

CONSTANTS Parts,
          Alone,      \* the caller that calls in "single"
          Sampled     \* the operations called in "pair": one of each retry class

VARIABLES part, line, settings, file, spelt,
          at, policy, names, failures, attempt, nextWait, delay, waited, sinceRead, wake, cause

configVars == <<settings, file, spelt>>
engineVars == <<at, policy, names, failures, attempt, nextWait, delay, waited, sinceRead, wake,
                cause>>

\* Two callers share the permits, with the sampled operations; or one caller
\* makes any call.
Within ==
  \A c \in Caller : call'[c].op \in {"none"} \cup (IF part = "pair" THEN Sampled
                                               ELSE IF c = Alone THEN Called ELSE {})

AllNames == Public \cup Protected \cup {"SquadJoin"}

-----------------------------------------------------------------------------
(* Words: the options of the reading commands, the names of all commands,  *)
(* the global options.                                                     *)
Options == INSTANCE Grammar WITH
  Prefix <- {<<"inbox">>, <<"listen">>, <<"transcript">>},
  Vocabulary <- {"--limit", "--wait", "--ack", "--after", "0", "30", "31", "101", "300", "-1",
                 "id", "", "<raw>"},
  MaxMore <- 4, MaxIds <- 2

Openings == {<<>>, <<"squad">>, <<"squad", "join", "x", "--name", "x">>,
             <<"message", "send", "--to", "x">>, <<"--relay", "x">>, <<"--json">>}
            \cup {<<word>> : word \in Options!One} \cup Options!Two
Commands == INSTANCE Grammar WITH
  Prefix <- Openings,
  Vocabulary <- {"--role", "--mission", "--body", "--file", "--priority", "--bind", "--allow-lan",
                 "--log", "addr", "--effective", "high", "x", "", "<raw>"},
  MaxMore <- 2, MaxIds <- 2

Globals == INSTANCE Grammar WITH
  Prefix <- {<<>>},
  Vocabulary <- {"--json", "--relay", "--profile", "--config", "x", "health", "squad", "list"},
  MaxMore <- 5, MaxIds <- 2

-----------------------------------------------------------------------------
(* Settings at and beyond the bounds of every field from every source, and *)
(* all pairs of spellings of an origin.                                    *)
Urls == [scheme : {"http", "https", "ftp"}, host : {"relay", "RELAY", "other"},
         port : {0, 80, 443, 7341}, path : {"", "/", "/p"}, extra : {"none", "user"}]

Origins == INSTANCE Config WITH MaxSettings <- 0, Menu <- {}

Setting(source, field, text) == [source |-> source, field |-> field, text |-> text]

Menu ==
  {Setting(source, field, Origins!Numeral(n)) : source \in {"environment", "file"},
     field \in {"heartbeat_seconds", "lease_seconds"}, n \in {0, 2, 10, 900}}
  \cup {Setting(source, "relay_bind", Origins!Text(word)) :
          source \in {"flag", "environment", "file"}, word \in {"loopback", "lan"}}
  \cup {Setting("environment", "allow_lan", Origins!Text(word)) : word \in {"true", "false", "1"}}
  \cup {Setting("flag", "allow_lan", Origins!Text("true")),
        Setting("file", "allow_lan", Origins!Text("true")),
        Setting("flag", "profile", Origins!Text("p")),
        Setting("environment", "profile", Origins!Text("a b")),
        Setting("environment", "max_message_bytes", Origins!Text("bad")),
        Setting("file", "max_message_bytes", Origins!Text("bad")),
        Setting("file", "log_format", Origins!Text("xml")),
        Setting("environment", "log_level", Origins!Text("warn")),
        Setting("environment", "log_level", Origins!Text("malformed"))}
  \cup {Setting("environment", "PSST_BIND", Origins!Text(word)) :
          word \in {"loopback", "lan", "nowhere", Origins!Raw}}

Settings == INSTANCE Config WITH MaxSettings <- 3, Urls <- {}

-----------------------------------------------------------------------------
(* Names at their limits, the default policy, short and coarse ones, and   *)
(* ones that validation refuses.                                           *)
Name(len, chars) == [len |-> len, chars |-> chars]
Policy(r, i, m, n) == [reconcile |-> r, initial |-> i, maximum |-> m, attempts |-> n]
Seconds(n) == n * 2000

\* With two units to the millisecond: 0.5 ms, 3.5 ms and 2.5 ms pauses among them.
Pace == INSTANCE Pacing WITH
  UnitsPerMilli <- 2,
  Policies <- {Policy(60, Seconds(1), Seconds(60), 8), Policy(5, 1, 9, 5), Policy(60, 7, 7, 3),
               Policy(31, 5, Seconds(300), 8), Policy(5, 1, 1, 1),
               Policy(5, 0, 10, 4), Policy(5, 2, 1, 3), Policy(4, 1, 2, 3),
               Policy(61, 1, 2, 3), Policy(5, 1, Seconds(301), 3),
               Policy(5, 1, 2, 0), Policy(5, 1, 2, 9)},
  Profiles <- {Name(0, {}), Name(1, {"upper"}), Name(64, {"lower", "underscore", "dash"}),
               Name(65, {"lower"}), Name(3, {"lower", "other"})},
  Squads <- {Name(0, {}), Name(64, {"lower", "digit", "dash"}), Name(65, {"lower"})},
  MessageIds <- {Name(4, {"lower", "underscore"}), Name(5, {"lower", "underscore"}),
                 Name(128, {"lower", "digit", "dash", "underscore"}),
                 Name(129, {"lower", "underscore"})},
  Counts <- {1, 1000000, 1000001}, Samples <- {0, 1, 2147483647}

ASSUME CliAssumption /\ ConfigAssumption /\ Options!GrammarAssumption /\ Settings!ConfigAssumption

-----------------------------------------------------------------------------
MCInit ==
  /\ part \in Parts
  /\ CliInit /\ Init /\ (part # "cli" => profile = "bound")
  /\ CASE part = "options" -> Options!Init
       [] part = "commands" -> Commands!Init
       [] OTHER -> Globals!Init
  /\ Settings!Init
  /\ Pace!PacingInit /\ (part # "pacing" => names.profile.len = 1)

MCNext ==
  \/ part = "cli" /\ CliNext /\ UNCHANGED <<part, vars, line, configVars, engineVars>>
  \/ /\ part \in {"pair", "single"} /\ Next /\ Within
     /\ UNCHANGED <<part, cliVars, line, configVars, engineVars>>
  \/ /\ \/ part = "options" /\ Options!Next
        \/ part = "commands" /\ Commands!Next
        \/ part = "globals" /\ Globals!Next
     /\ UNCHANGED <<part, cliVars, vars, configVars, engineVars>>
  \/ /\ \/ part = "config" /\ Settings!Next
        \/ part = "origins" /\ Origins!Next
     /\ UNCHANGED <<part, cliVars, vars, line, engineVars>>
  \/ part = "pacing" /\ Pace!PacingNext /\ UNCHANGED <<part, cliVars, vars, line, configVars>>

MCSpec == MCInit /\ [][MCNext]_<<part, cliVars, vars, line, configVars, engineVars>>

\* Messages are interchangeable.
Symmetry == Permutations(Message)

\* A line is read as documented: options in any order and each once, under the
\* name it begins with, its JSON flag honoured, and what the grammar accepts
\* execution can read (parse_arguments, inbox_arguments, execute_listen_until).
LinesReadAsDocumented ==
  /\ part = "options" => Options!OptionsReadAsDocumented /\ Options!AcceptedLineRuns
  /\ part = "commands" => Commands!AnsweredUnderItsName
  /\ part = "globals" => Globals!PlainLineHonoursJson

\* The settings a process accepts are consistent whatever sources they come
\* from: a relay leaves loopback only when its program was asked to, and two spellings have one canonical origin exactly when they name
\* one relay (resolve, RelayConfig::validate, canonical_relay_origin).  The
\* engine's pauses and its patience are the policy's, for every policy that
\* validation accepts and every jitter, and names that other layers accept fit
\* a wake (ActivationPolicy, jittered_backoff, WakeMetadata).
SettingsAreSound ==
  /\ part \in {"config", "origins"} => Settings!ConfigInvariant
  /\ part = "pacing" => Pace!PacingInvariant
=============================================================================
