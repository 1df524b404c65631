------------------------------ MODULE Grammar -------------------------------
(***************************************************************************)
(* The command line of psst (psst-cli): the leading global options, the    *)
(* grammar of every command, the name under which a line is refused, and   *)
(* the second reading of the accepted options at execution.                *)
(*                                                                         *)
(* A word is a string.  Raw stands for an argument that is not UTF-8,      *)
(* Joined for one argument that spells two words, and the numerals are     *)
(* the keys of Numeral.  The state is a line as it is typed.               *)
(***************************************************************************)
EXTENDS Integers, Sequences, FiniteSets, TLC, SequencesExt

CONSTANTS Prefix,       \* how a line may begin
          Vocabulary,   \* the words that may follow
          MaxMore,      \* bound: words typed after the beginning
          MaxIds        \* identifiers of one acknowledgement (100 in the code)

GrammarAssumption == MaxMore \in Nat /\ MaxIds \in Nat \ {0}

VARIABLE line           \* the arguments after the program's name

Raw == "<raw>"
Joined == "message send"
Numeral == "-1" :> -1 @@ "0" :> 0 @@ "1" :> 1 @@ "30" :> 30 @@ "31" :> 31
           @@ "100" :> 100 @@ "101" :> 101 @@ "300" :> 300
Flag == {"--json", "--relay", "--profile", "--config", "--help", "--version",
         "--bind", "--data-dir", "--allow-lan", "--log", "--effective",
         "--mission", "--name", "--role", "--to", "--body", "--file",
         "--priority", "--reply-to", "--correlation-id", "--limit", "--wait",
         "--ack", "--after"}
Dashed == Flag \cup {"-1", "-x", "-h", "-V"}

Utf8(word) == word # Raw
From(words, i) == SubSeq(words, i, Len(words))
FirstTwo(words) == IF Len(words) < 2 THEN words ELSE SubSeq(words, 1, 2)
At(words, i, word) == i <= Len(words) /\ words[i] = word

\* nonempty, string_arg: a UTF-8 argument that is there and not empty.
Nonempty(words, i) == i <= Len(words) /\ words[i] # "" /\ Utf8(words[i])

\* os_arg: any argument that is there and not empty.
OsArg(words, i) == i <= Len(words) /\ words[i] # ""

\* value.parse::<T>() for a numeral type that holds low..high.
Parses(word, low, high) == word \in DOMAIN Numeral /\ Numeral[word] \in low..high

U8 == 255
U16 == 65535
I64 == 1000000       \* stands for 2^63 - 1, above every numeral here

bounded_number(words, i, min, max) ==
    Nonempty(words, i) /\ Parses(words[i], 0, U16) /\ Numeral[words[i]] \in min..max

-----------------------------------------------------------------------------
\* Global options.

Valued == {"--relay", "--profile", "--config"}

RECURSIVE leading_json_requested(_)
leading_json_requested(args) ==
    /\ args # <<>>
    /\ \/ args[1] = "--json"
       \/ /\ args[1] \in Valued
          /\ Len(args) > 1 /\ Utf8(args[2]) /\ args[2] \notin Dashed
          /\ leading_json_requested(From(args, 3))

(***************************************************************************)
(* The loop of parse over the global options: where the command begins,    *)
(* whether an option was refused, whether it was a second --json, and the  *)
(* options and values read.                                                *)
(***************************************************************************)
RECURSIVE GlobalsFrom(_, _, _, _)
GlobalsFrom(args, i, seen, values) ==
    LET stop(bad, again) == [at |-> i, bad |-> bad, again |-> again, seen |-> seen, values |-> values]
    IN  IF i > Len(args) \/ args[i] \notin Valued \cup {"--json"} THEN stop(FALSE, FALSE)
        ELSE IF args[i] \in seen THEN stop(TRUE, args[i] = "--json")
        ELSE IF args[i] = "--json" THEN GlobalsFrom(args, i + 1, seen \cup {args[i]}, values)
        ELSE IF IF args[i] = "--config" THEN OsArg(args, i + 1) ELSE Nonempty(args, i + 1)
             THEN GlobalsFrom(args, i + 2, seen \cup {args[i]}, values \cup {args[i + 1]})
             ELSE stop(TRUE, FALSE)

Globals(args) == GlobalsFrom(args, 1, {}, {})

-----------------------------------------------------------------------------
\* Options of the commands.

\* parse_option_pairs: flags and values in turn, no flag twice.
OptionPairs(args, allowed) ==
    /\ Len(args) % 2 = 0
    /\ \A i \in 1..(Len(args) \div 2) :
          /\ args[2 * i - 1] \in allowed
          /\ Nonempty(args, 2 * i)
          /\ \A j \in 1..(i - 1) : args[2 * j - 1] # args[2 * i - 1]

Given(args) == {args[2 * i - 1] : i \in 1..(Len(args) \div 2)}
ValueOf(args, flag) == args[2 * (CHOOSE i \in 1..(Len(args) \div 2) : args[2 * i - 1] = flag)]

valid_join_grammar(args) ==
    /\ Len(args) >= 7 /\ Nonempty(args, 3)
    /\ OptionPairs(From(args, 4), {"--name", "--role", "--mission"})
    /\ {"--name", "--role"} \subseteq Given(From(args, 4))

SendFlags == {"--to", "--body", "--file", "--priority", "--reply-to", "--correlation-id"}

valid_send_grammar(args) ==
    LET options == From(args, 3)
    IN  /\ OptionPairs(options, SendFlags)
        /\ "--to" \in Given(options)
        /\ ("--body" \in Given(options)) # ("--file" \in Given(options))
        /\ "--priority" \in Given(options) => ValueOf(options, "--priority") \in {"normal", "high"}

\* &args[2..] of valid_send_grammar: the slice of a list of one word is out of range.
SendSlicePanics(args) == Len(args) < 2

\* The identifiers that follow --ack: every word up to the next one with two dashes.
RECURSIVE Ids(_)
Ids(args) == IF args = <<>> \/ args[1] \in Flag THEN <<>> ELSE <<args[1]>> \o Ids(Tail(args))

\* Faulty: an option may be given twice.
RECURSIVE InboxOptionsAgain(_, _)
InboxOptionsAgain(args, seen) ==
    \/ args = <<>>
    \/ /\ args[1] = "--limit" /\ bounded_number(args, 2, 1, 100)
       /\ InboxOptionsAgain(From(args, 3), {})
    \/ /\ args[1] = "--wait" /\ bounded_number(args, 2, 0, 30)
       /\ InboxOptionsAgain(From(args, 3), {})
    \/ /\ args[1] = "--ack"
       /\ LET ids == Ids(Tail(args))
          IN  /\ \A i \in DOMAIN ids : Nonempty(ids, i)
              /\ Len(ids) \in 1..MaxIds
              /\ InboxOptionsAgain(From(args, 2 + Len(ids)), {})

\* The loop of valid_inbox_grammar from the words args on, seen being the flags met.
RECURSIVE InboxOptions(_, _)
InboxOptions(args, seen) ==
    \/ args = <<>>
    \/ /\ args[1] \notin seen
       /\ \/ /\ args[1] = "--limit" /\ bounded_number(args, 2, 1, 100)
             /\ InboxOptions(From(args, 3), seen \cup {"--limit"})
          \/ /\ args[1] = "--wait" /\ bounded_number(args, 2, 0, 30)
             /\ InboxOptions(From(args, 3), seen \cup {"--wait"})
          \/ /\ args[1] = "--ack"
             /\ LET ids == Ids(Tail(args))
                IN  /\ \A i \in DOMAIN ids : Nonempty(ids, i)
                    /\ Len(ids) \in 1..MaxIds
                    /\ InboxOptions(From(args, 2 + Len(ids)), seen \cup {"--ack"})

ListenWait(args) == bounded_number(args, 2, 1, 30)

RECURSIVE ListenOptions(_, _)
ListenOptions(args, seen) ==
    \/ args = <<>>
    \/ /\ args[1] \notin seen
       /\ \/ args[1] = "--wait" /\ ListenWait(args) /\ ListenOptions(From(args, 3), seen \cup {"--wait"})
          \/ args[1] = "--ack" /\ ListenOptions(Tail(args), seen \cup {"--ack"})

valid_transcript_grammar(args) ==
    LET options == Tail(args)
    IN  /\ OptionPairs(options, {"--after", "--limit"})
        /\ "--after" \in Given(options) => Parses(ValueOf(options, "--after"), 0, I64)
        /\ "--limit" \in Given(options) => Parses(ValueOf(options, "--limit"), 1, 100)

\* The loop of parse_relay_start; an address is the word "addr".
RECURSIVE RelayStartOptions(_, _)
RelayStartOptions(args, seen) ==
    \/ args = <<>>
    \/ /\ args[1] \notin seen
       /\ \/ args[1] = "--bind" /\ At(args, 2, "addr") /\ RelayStartOptions(From(args, 3), seen \cup {"--bind"})
          \/ args[1] = "--data-dir" /\ OsArg(args, 2) /\ RelayStartOptions(From(args, 3), seen \cup {"--data-dir"})
          \/ args[1] = "--allow-lan" /\ RelayStartOptions(Tail(args), seen \cup {"--allow-lan"})
          \/ args[1] = "--log" /\ Nonempty(args, 2) /\ RelayStartOptions(From(args, 3), seen \cup {"--log"})

-----------------------------------------------------------------------------
\* Commands.

\* The first two UTF-8 arguments joined by a blank, as words.
Key(args) ==
    LET spelled(word) == IF word = Joined THEN <<"message", "send">> ELSE <<word>>
    IN  FoldLeft(LAMBDA words, word : words \o spelled(word), <<>>,
                 SelectSeq(FirstTwo(args), Utf8))

\* Commands with an argument each, and no other option.
TakesOne == {<<"squad", "archive">>, <<"database", "backup">>}
TakesNone == {<<"profile", "list">>, <<"profile", "show">>, <<"squad", "leave">>,
              <<"squad", "roster">>, <<"database", "info">>, <<"database", "integrity-check">>}

\* The match of parse_deferred: whether the line is one of its commands.
parse_deferred(args) ==
    LET key == Key(args)
        n == Len(args)
    IN  \/ key \in TakesNone /\ n = 2
        \/ key \in TakesOne \cup {<<"profile", "show">>} /\ n = 3 /\ Nonempty(args, 3)
        \/ key = <<"squad", "join">> /\ valid_join_grammar(args)
        \/ key = <<"message", "send">> /\ valid_send_grammar(args)
        \/ /\ key = <<"message", "acknowledge">>
           /\ n \in 3..(MaxIds + 2)
           /\ \A i \in 3..n : Nonempty(args, i)
        \/ args[1] = "inbox" /\ InboxOptions(Tail(args), {})
        \/ args[1] = "listen" /\ ListenOptions(Tail(args), {})
        \/ args[1] = "transcript" /\ valid_transcript_grammar(args)
        \/ args[1] = "status" /\ n = 1

\* The command's name: one word or two.
One == {"health", "inbox", "listen", "transcript", "status"}
Two == TakesOne \cup TakesNone \cup
       {<<"relay", "start">>, <<"config", "show">>, <<"harness", "status">>, <<"squad", "list">>,
        <<"squad", "create">>, <<"squad", "describe">>, <<"squad", "join">>,
        <<"message", "send">>, <<"message", "acknowledge">>}
Invocation == <<"invocation">>

deferred_identity(args) ==
    IF args # <<>> /\ args[1] \in One THEN <<args[1]>>
    ELSE IF FirstTwo(args) \in Two THEN FirstTwo(args)
    ELSE Invocation

Result(kind, command, json) == [kind |-> kind, command |-> command, json |-> json]
Accepted(ok, command, json) == Result(IF ok THEN "command" ELSE "refused", command, json)

parse_command(args, json) ==
    LET n == Len(args)
        two == FirstTwo(args)
    IN  IF args = <<>> \/ ~Utf8(args[1]) THEN Result("refused", Invocation, json)
        ELSE CASE args = <<"health">> -> Result("command", args, json)
               [] two = <<"relay", "start">> -> Accepted(RelayStartOptions(From(args, 3), {}), two, json)
               [] args = <<"config", "show", "--effective">> -> Result("command", two, json)
               [] two \in {<<"harness", "status">>, <<"squad", "list">>} /\ n = 2 -> Result("command", two, json)
               [] two = <<"squad", "create">> ->
                     Accepted(n = 5 /\ At(args, 4, "--mission") /\ Nonempty(args, 3) /\ Nonempty(args, 5), two, json)
               [] two = <<"squad", "describe">> /\ n = 3 -> Accepted(Nonempty(args, 3), two, json)
               [] OTHER ->
                     IF Key(args) = <<"message", "send">> /\ SendSlicePanics(args)
                     THEN Result("panic", Invocation, json)
                     ELSE Accepted(parse_deferred(args), deferred_identity(args), json)

parse(args) ==
    LET json == leading_json_requested(args)
        globals == Globals(args)
    IN  IF args \in {<<>>, <<"--help">>, <<"-h">>} THEN Result("help", Invocation, json)
        ELSE IF args \in {<<"--version">>, <<"-V">>} THEN Result("version", Invocation, json)
        ELSE IF globals.bad THEN Result("refused", Invocation, json \/ globals.again)
        ELSE parse_command(From(args, globals.at), json)

-----------------------------------------------------------------------------
\* The second reading: what execution takes from an accepted line.

NoReading == [ok |-> FALSE, limit |-> 0, wait |-> 0, ack |-> <<>>]

\* The loop of inbox_arguments; ok is FALSE where it would panic.
RECURSIVE inbox_arguments(_, _)
inbox_arguments(args, read) ==
    IF args = <<>> THEN read
    ELSE CASE args[1] = "--limit" ->
                IF Len(args) > 1 /\ Parses(args[2], 0, U16)
                THEN inbox_arguments(From(args, 3), [read EXCEPT !.limit = Numeral[args[2]]])
                ELSE NoReading
           [] args[1] = "--wait" ->
                IF Len(args) > 1 /\ Parses(args[2], 0, U8)
                THEN inbox_arguments(From(args, 3), [read EXCEPT !.wait = Numeral[args[2]]])
                ELSE NoReading
           [] args[1] = "--ack" ->
                LET ids == Ids(Tail(args))
                IN  inbox_arguments(From(args, 2 + Len(ids)), [read EXCEPT !.ack = @ \o ids])
           [] OTHER -> NoReading

\* args.windows(2).find(--wait) and any(--ack) of execute_listen_until.
listen_arguments(args) ==
    LET waits == {i \in 1..(Len(args) - 1) : args[i] = "--wait"}
        first == args[1 + (CHOOSE i \in waits : \A j \in waits : i <= j)]
        read == [ok |-> TRUE, limit |-> 100, wait |-> 30,
                 ack |-> IF \E i \in DOMAIN args : args[i] = "--ack" THEN <<"all">> ELSE <<>>]
    IN  IF waits = {} THEN read
        ELSE IF Parses(first, 0, U8) THEN [read EXCEPT !.wait = Numeral[first]] ELSE NoReading

transcript_arguments(args) ==
    LET options == Tail(args)
    IN  [ok |-> /\ OptionPairs(options, {"--after", "--limit"})
                /\ "--after" \in Given(options) => Parses(ValueOf(options, "--after"), 0, I64)
                /\ "--limit" \in Given(options) => Parses(ValueOf(options, "--limit"), 0, U16),
         limit |-> 0, wait |-> 0, ack |-> <<>>]

Execution(command, args) ==
    CASE command = <<"inbox">> ->
            inbox_arguments(Tail(args), [ok |-> TRUE, limit |-> 100, wait |-> 0, ack |-> <<>>])
      [] command = <<"listen">> -> listen_arguments(args)
      [] command = <<"transcript">> -> transcript_arguments(args)

-----------------------------------------------------------------------------
Init == line \in Prefix

Type(word) == line' = Append(line, word)

Next ==
    \E begin \in Prefix, word \in Vocabulary :
       /\ IsPrefix(begin, line) /\ Len(line) < Len(begin) + MaxMore
       /\ Type(word)

Spec == Init /\ [][Next]_line

-----------------------------------------------------------------------------
Rest == From(line, Globals(line).at)

\* The options of a line, cut at the words with two dashes.
Cuts(args) == {i \in DOMAIN args : args[i] \in Flag}
Part(args, i) ==
    LET later == {j \in Cuts(args) : j > i}
    IN  SubSeq(args, i, IF later = {} THEN Len(args) ELSE (CHOOSE j \in later : \A k \in later : j <= k) - 1)

\* inbox [--limit <1..100>] [--wait <0..30>] [--ack <id>...]
InboxPart(part) ==
    \/ part[1] = "--limit" /\ Len(part) = 2 /\ Parses(part[2], 1, 100)
    \/ part[1] = "--wait" /\ Len(part) = 2 /\ Parses(part[2], 0, 30)
    \/ part[1] = "--ack" /\ Len(part) \in 2..(MaxIds + 1) /\ \A i \in 2..Len(part) : Nonempty(part, i)

\* listen [--wait <1..30>] [--ack]
ListenPart(part) ==
    \/ part[1] = "--wait" /\ Len(part) = 2 /\ Parses(part[2], 1, 30)
    \/ part = <<"--ack">>

Documented(args, Form(_)) ==
    /\ args # <<>> => args[1] \in Flag
    /\ \A i \in Cuts(args) : Form(Part(args, i))
    /\ \A i, j \in Cuts(args) : args[i] = args[j] => i = j

PartOf(args, flag) == Part(args, CHOOSE i \in Cuts(args) : args[i] = flag)
Has(args, flag) == \E i \in Cuts(args) : args[i] = flag

\* An inbox or listen line is accepted exactly when it is the documented options, each at most
\* once and in any order (valid_inbox_grammar, valid_listen_grammar), and execution, which reads
\* the words a second time, takes from them the values the line states.
OptionsReadAsDocumented ==
    LET result == parse(line)
        args == Tail(Rest)
        read == Execution(result.command, Rest)
        wait(default) == IF Has(args, "--wait") THEN Numeral[PartOf(args, "--wait")[2]] ELSE default
    IN  /\ result.command = <<"inbox">> =>
              /\ (result.kind = "command") <=> Documented(args, InboxPart)
              /\ result.kind = "command" =>
                    read = [ok |-> TRUE, wait |-> wait(0),
                            limit |-> IF Has(args, "--limit") THEN Numeral[PartOf(args, "--limit")[2]] ELSE 100,
                            ack |-> IF Has(args, "--ack") THEN Tail(PartOf(args, "--ack")) ELSE <<>>]
        /\ result.command = <<"listen">> =>
              /\ (result.kind = "command") <=> Documented(args, ListenPart)
              /\ result.kind = "command" => read.wait = wait(30) /\ (read.ack # <<>> <=> Has(args, "--ack"))

\* Execution never meets a word it cannot read in a line the grammar accepted: the unwraps,
\* the expects and the unreachable!() of inbox_arguments, execute_listen_until and
\* execute_transcript are not reached.
AcceptedLineRuns ==
    LET result == parse(line)
    IN  /\ result.kind = "command"
        /\ result.command \in {<<"inbox">>, <<"listen">>, <<"transcript">>}
        => Execution(result.command, Rest).ok

\* Whether it is accepted or refused, a line that begins with the words of a documented command
\* is answered under that command's name (deferred_identity), and every other line is refused
\* as an invocation.
AnsweredUnderItsName ==
    LET result == parse(line)
        named == {words \in Two \cup {<<word>> : word \in One} : IsPrefix(words, Rest)}
    IN  (result.kind \in {"command", "refused"} /\ ~Globals(line).bad) =>
            IF named = {} THEN result.kind = "refused" /\ result.command = Invocation
            ELSE named = {result.command}

\* Where the values of the global options are plain words, the scan that decides on JSON output
\* (leading_json_requested) agrees with the loop that reads the options: --json among them
\* selects JSON, and nothing else does.
PlainLineHonoursJson ==
    LET globals == Globals(line)
    IN  (/\ ~globals.bad
         /\ \A value \in globals.values : Utf8(value) /\ value \notin Dashed)
        => (parse(line).kind \in {"command", "refused"} =>
               (parse(line).json <=> "--json" \in globals.seen))

\* A line that is accepted with --json among its global options is answered in JSON.
JsonIsHonoured ==
    parse(line).kind = "command" => (parse(line).json <=> "--json" \in Globals(line).seen)

\* A line that is no command is refused as one (exit class 2), whatever its words.
EveryLineIsAnswered == parse(line).kind # "panic"

=============================================================================
