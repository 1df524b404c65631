------------------------------- MODULE Config -------------------------------
(***************************************************************************)
(* How a psst process comes by its settings: ConfigResolver::resolve with  *)
(* its four sources per field, what relay start passes on to the relay,    *)
(* psst-relay's own configuration, and the canonical form of an origin,    *)
(* which is part of a profile's identity.                                  *)
(*                                                                         *)
(* A setting is one source's text for one field.  A text is a word, with   *)
(* the number it spells where it spells one; Raw is a text that is not     *)
(* UTF-8.                                                                  *)
(***************************************************************************)
EXTENDS Integers, Sequences, FiniteSets

CONSTANTS Menu,          \* the settings that may be made
          MaxSettings,   \* bound: settings in place together
          Urls           \* spellings of an origin, as records

ConfigAssumption == MaxSettings \in Nat

VARIABLES settings,      \* the settings in place, one at most per source and field
          file,          \* the configuration file
          spelt          \* origins given one after the other

vars == <<settings, file, spelt>>

Source == {"flag", "environment", "file"}
Number == {"max_message_bytes", "max_long_poll_seconds", "heartbeat_seconds", "lease_seconds"}
Word == {"profile", "relay_bind", "data_dir", "log_level", "log_format"}
Field == Number \cup Word \cup {"allow_lan"}
Daemon == {"PSST_BIND"}   \* a variable that psst-relay alone reads
NoNumber == -1
Raw == "<raw>"
Text(word) == [word |-> word, n |-> NoNumber]
Numeral(n) == [word |-> "number", n |-> n]

Default(field) ==
    CASE field = "profile" -> Text("default")       [] field = "relay_bind" -> Text("loopback")
      [] field = "data_dir" -> Text("dir")          [] field = "allow_lan" -> Text("false")
      [] field = "log_level" -> Text("info")        [] field = "log_format" -> Text("text")
      [] field = "max_message_bytes" -> Numeral(65536)
      [] field = "max_long_poll_seconds" -> Numeral(30)
      [] field = "heartbeat_seconds" -> Numeral(10) [] field = "lease_seconds" -> Numeral(30)

-----------------------------------------------------------------------------
\* What each source says of a field: a set with one text, or none.

At(source, field) == {s.text : s \in {t \in settings : t.source = source /\ t.field = field}}

\* resolve_config: variables that are not UTF-8 are left out of the environment.
Given(source, field) ==
    IF source = "environment" THEN {text \in At(source, field) : text.word # Raw} ELSE At(source, field)

\* read_config, with serde's types: a number or a boolean of the wrong type spoils the file.
FileTyped ==
    \A s \in settings : s.source = "file" =>
        /\ s.field \in Number => s.text.n >= 0
        /\ s.field = "allow_lan" => s.text.word \in {"true", "false"}

read_config == IF file = "unreadable" THEN "Read"
               ELSE IF file = "unparsable" \/ ~FileTyped THEN "Parse" ELSE "Ok"

Only(set) == CHOOSE x \in set : TRUE
Effective(text, source) == [text |-> text, source |-> source]

pick(field) ==
    IF Given("flag", field) # {} THEN Effective(Only(Given("flag", field)), "flag")
    ELSE IF Given("environment", field) # {} THEN Effective(Only(Given("environment", field)), "environment")
    ELSE IF Given("file", field) # {} THEN Effective(Only(Given("file", field)), "file")
    ELSE Effective(Default(field), "default")

\* parsed and bounded, and the checks of the fields that stay text.
bounded(text, min, max) == text.n \in min..max

validate_profile_name(text) == text.word \notin {"", "a b", "longer than 64", Raw}

Valid(field, text) ==
    CASE field = "profile" -> validate_profile_name(text)
      [] field = "relay_bind" -> text.word \in {"loopback", "lan"}
      [] field = "data_dir" -> text.word # ""
      [] field = "allow_lan" -> text.word \in {"true", "false"}
      [] field = "log_level" -> text.word \in {"trace", "debug", "info", "warn", "error"}
      [] field = "log_format" -> text.word \in {"text", "json"}
      [] field = "max_message_bytes" -> bounded(text, 1, 65536)
      [] field = "max_long_poll_seconds" -> bounded(text, 0, 30)
      [] field = "heartbeat_seconds" -> bounded(text, 1, 300)
      [] field = "lease_seconds" -> bounded(text, 2, 900)

LeaseFits(lease, heartbeat) == lease.n > heartbeat.n

Resolves ==
    /\ read_config = "Ok"
    /\ \A field \in Field : Valid(field, pick(field).text)
    /\ LeaseFits(pick("lease_seconds").text, pick("heartbeat_seconds").text)

value == [field \in Field |-> pick(field).text]

-----------------------------------------------------------------------------
\* The relay.  What it runs with is a function of the fields it is given; the
\* rest are constants of RelayConfig::local and LeasePolicy::default.

Local == [bind |-> "loopback", allow |-> FALSE, level |-> "info", format |-> "text",
          message |-> 65536, poll |-> 30, heartbeat |-> 10, lease |-> 30]

relay_config ==
    [Local EXCEPT !.bind = value["relay_bind"].word, !.allow = value["allow_lan"].word = "true",
                  !.level = value["log_level"].word, !.format = value["log_format"].word]

\* configuration of psst-relay: the environment alone.
Variable(field, otherwise) ==
    LET given == Given("environment", field) IN IF given = {} THEN otherwise ELSE Only(given).word
configuration ==
    [Local EXCEPT !.bind = Variable("PSST_BIND", @),
                  !.allow = Variable("allow_lan", "") = "1",
                  !.level = Variable("log_level", @),
                  !.format = IF Variable("log_format", "") = "json" THEN "json" ELSE "text"]
DaemonParses == configuration.bind \in {"loopback", "lan"}

\* EnvFilter::try_new refuses a malformed directive.
Filter(level) == level # "malformed"

validate(config) == (config.bind # "loopback" => config.allow) /\ Filter(config.level)

CliStarts == Resolves /\ validate(relay_config)
DaemonStarts == DaemonParses /\ validate(configuration)

-----------------------------------------------------------------------------
\* Origins.

Lower(host) == IF host = "RELAY" THEN "relay" ELSE host
DefaultPort(scheme) == IF scheme = "http" THEN 80 ELSE 443
NoPort == 0
NoOrigin == [scheme |-> "invalid", host |-> "", port |-> NoPort]

Proper(url) == url.scheme \in {"http", "https"} /\ url.extra = "none" /\ url.path \in {"", "/"}

canonical_relay_origin(url) ==
    IF Proper(url)
    THEN [scheme |-> url.scheme, host |-> Lower(url.host),
          port |-> IF url.port = DefaultPort(url.scheme) THEN NoPort ELSE url.port]
    ELSE NoOrigin

-----------------------------------------------------------------------------
Init == settings = {} /\ file = "missing" /\ spelt = <<>>

\* A setting is made, or takes the place of another one of its source and field.
Set(s) ==
    /\ settings' = {t \in settings : t.source # s.source \/ t.field # s.field} \cup {s}
    /\ Cardinality(settings') <= MaxSettings
    /\ file' = IF s.source = "file" THEN "good" ELSE file
    /\ UNCHANGED spelt

\* The file is damaged, too large or locked away, and repaired.
SpoilFile ==
    /\ file \in {"missing", "good"} /\ file' \in {"unreadable", "unparsable"}
    /\ settings' = {s \in settings : s.source # "file"}
    /\ UNCHANGED spelt

RemoveFile ==
    /\ file # "missing" /\ file' = "missing"
    /\ settings' = {s \in settings : s.source # "file"}
    /\ UNCHANGED spelt

Spell(url) ==
    /\ Len(spelt) < 2
    /\ spelt' = Append(spelt, url)
    /\ UNCHANGED <<settings, file>>

Next ==
    \/ \E s \in Menu : Set(s)
    \/ SpoilFile
    \/ RemoveFile
    \/ \E url \in Urls : Spell(url)

Spec == Init /\ [][Next]_vars

-----------------------------------------------------------------------------
Rank(source) == CASE source = "flag" -> 4 [] source = "environment" -> 3 [] source = "file" -> 2 [] source = "default" -> 1

\* Each field is resolved on its own, and a value that loses has no influence: when a setting
\* is made, only its own field may change, and that only if no higher source has set it
\* (ConfigResolver::resolve).
FieldsAreIndependent ==
    [][\A s \in Menu : Set(s) =>
         \A field \in Field :
            pick(field)' # pick(field) => field = s.field /\ Rank(s.source) >= Rank(pick(field).source)]_vars

\* A relay serves beyond the loopback address only if some source asked for it in the form
\* its program understands (RelayConfig::validate, for psst relay start and psst-relay).
LanIsAskedFor ==
    /\ CliStarts /\ relay_config.bind # "loopback" =>
          \E s \in settings : s.field = "allow_lan" /\ s.text = Text("true")
    /\ DaemonStarts /\ configuration.bind # "loopback" =>
          \E s \in settings : s.source = "environment" /\ s.field = "allow_lan" /\ s.text = Text("1")

\* Two spellings of an origin have one canonical form exactly when they name one relay, so a
\* profile bound under the one is found under the other and under no other relay
\* (canonical_relay_origin).
OriginNamesOneRelay ==
    Len(spelt) = 2 /\ Proper(spelt[1]) /\ Proper(spelt[2]) =>
        LET port(url) == IF url.port = NoPort THEN DefaultPort(url.scheme) ELSE url.port
            place(url) == <<url.scheme, Lower(url.host), port(url)>>
        IN  (canonical_relay_origin(spelt[1]) = canonical_relay_origin(spelt[2])) <=> (place(spelt[1]) = place(spelt[2]))

\* An invalid value of the highest source that has one makes the command fail.
InvalidFailsClosed ==
    \A s \in settings :
        (s.field \in Field /\ ~Valid(s.field, s.text) /\ \A t \in settings : t.field = s.field => Rank(t.source) <= Rank(s.source))
        => ~Resolves

\* What config show --effective reports for a relay is what a relay started so runs with.
EffectiveIsInForce ==
    CliStarts =>
        /\ relay_config.poll = value["max_long_poll_seconds"].n
        /\ relay_config.heartbeat = value["heartbeat_seconds"].n
        /\ relay_config.lease = value["lease_seconds"].n

\* What holds of a configuration at every moment.
ConfigInvariant == LanIsAskedFor /\ OriginNamesOneRelay
=============================================================================
