------------------------------ MODULE Commands ------------------------------
(***************************************************************************)
(* The command line program of src/cli: main, which sets defaults, reads   *)
(* two configuration files and the options, generates passwords and        *)
(* releases what it holds; with src/env.c and the lazily read lists of     *)
(* src/wordlist.c.  A directive is a line of a configuration file or an    *)
(* option, given in turn; sources of randomness and files are known by the *)
(* directive that opened them, their handle.  Assertions are compiled in.  *)
(* The maps of presets and lists are taken to be dictionaries: that they   *)
(* are so long as no displaced name is inserted again is in HashMap.       *)
(***************************************************************************)
EXTENDS Integers, Sequences, FiniteSetsExt

CONSTANTS
  Lines,        \* directives that a configuration file may have
  Options,      \* directives that the command line may have
  MaxLines,     \* bound: lines of a configuration file
  MaxOptions,   \* bound: options
  Files,        \* what may be known of a configuration file: its bytes, none if there is no
                \* file, and whether its last directive or comment ends in a newline
  Paths,        \* bytes that the path of the user's configuration file may have
  Defaults      \* the presets of passgen_cli_opts_init: patterns by their names

VARIABLES
  config,       \* the two configuration files, and the bytes of the path of the user's
  stage,        \* "system", "user", "options", "parsing", "generating", or how it ended:
                \* "exited", "crashed" by an assertion, "astray" with memory overwritten
                \* or undefined, or "overread" behind the end of a configuration file
  given,        \* the directives that were carried out
  read,         \* how many there were at the start of this stage
  random,       \* opts->env.random: which kind of source, and its handle
  presets,      \* opts->presets
  wordlists,    \* opts->env.wordlists: what is known of the lists, by their names
  markovLength, amount, preset, pattern,    \* of opts
  open,         \* the sources and files that are open
  misused,      \* something was closed that was not open
  uses,         \* the specials of the pattern still to come in this password
  passwords,    \* for every password printed, whether it could be generated
  status        \* what main returns

settings == <<presets, markovLength, amount, preset, pattern>>
work == <<uses, passwords>>
vars == <<config, stage, given, read, random, wordlists, settings, open, misused, work, status>>

-----------------------------------------------------------------------------
KeySize == 32           \* bytes of the key of passgen_random_open_parse
MaxString == 127        \* and bytes of its strings, a zero left to end them
MaxWord == 128          \* codepoints of a word of passgen_generate_special_wordlist, _markov
MaxLink == 256          \* and of a word of passgen_wordlist_parse_markov
MaxConfig == 10240      \* bytes of a configuration file that are read
MaxPath == 255          \* bytes of the path of one, a zero left to end it

None == "none"

NoPattern == [name |-> None]

\* A special of a pattern: a word of a list, or one made like its words, or neither, if
\* no list is named (\w{}).
Special == [letter : {"w", "m"}, name : STRING]

\* A pattern, as far as the command goes: whether it can be parsed, and its specials.
IsPattern(p) == p # NoPattern /\ p.uses \in Seq(Special)

\* A preset is defined by a pattern, unless its argument has no colon; the length of
\* contexts is a number.  A list is read from a file of one of six kinds: one that has no
\* size is a pipe or a directory, and of a good one it matters how many codepoints its
\* longest word has, and the longest walk, zero included, for every length of contexts
\* (where contexts repeat there is no longest, and any number from MaxWord on will do).
ASSUME DirectivesAssumption ==
  \A d \in Lines \union Options :
    /\ d.kind = "pattern" => IsPattern(d.value)
    /\ d.kind = "preset" => d.value = NoPattern \/ IsPattern(d.value)
    /\ d.kind = "markov" => d.value \in Int
    /\ d.kind = "use" => d.name # None
    /\ d.kind = "wordlist" =>
         /\ d.name # None
         /\ d.file \in {"good", "illformed", "empty", "short", "unsized", "missing"}
         /\ d.file = "good" => d.letters \in Nat /\ d.reach \in [1..255 -> Nat \ {0}]
ASSUME FilesAssumption == Files \subseteq [bytes : Nat, newline : BOOLEAN] /\ Paths \subseteq Nat
ASSUME DefaultsAssumption == \A name \in DOMAIN Defaults : IsPattern(Defaults[name])

NoSource == [kind |-> None, handle |-> 0]

\* The codes of passgen_cli_error that main returns.
MultipleFormats == 1
PatternParse == 3
IllegalAmount == 5
IllegalMarkovLength == 6
Unrecognized == 7
PresetNotFound == 8

\* The handle of what the directive at hand opens.
Handle == Len(given) + 1

\* passgen_wordlist_init; the length of contexts is passed on as a uint8_t.
NewList(handle) ==
  [handle |-> handle, level |-> markovLength % 256,
   parsed |-> FALSE, chained |-> FALSE, held |-> FALSE]

Close(handles) ==
  /\ open' = open \ handles
  /\ misused' = (misused \/ ~(handles \subseteq open))

\* The file of a list that was not read to an end.
Unread == {wordlists[n].handle : n \in {m \in DOMAIN wordlists : ~wordlists[m].held}}

Source == IF random = NoSource THEN {} ELSE {random.handle}

\* Mutant: the source is left open.
ReleasedLists == Unread

\* passgen_cli_opts_free, passgen_env_free
Released == Source \union Unread

Exit(code) ==
  /\ stage' = "exited" /\ status' = code
  /\ UNCHANGED <<config, given, read, random, wordlists, settings, work>>

\* A return from main that frees nothing.
Quit(code) == Exit(code) /\ UNCHANGED <<open, misused>>

FreeAndExit == Exit(0) /\ Close(Released)

-----------------------------------------------------------------------------
Init ==
  /\ config \in [system : Files, user : Files, path : Paths]
  /\ stage = "system"
  /\ given = <<>> /\ read = 0
  /\ random = NoSource
  /\ presets = Defaults /\ wordlists = <<>>
  /\ markovLength = 3 /\ amount = 1 /\ preset = None /\ pattern = NoPattern
  /\ open = {} /\ misused = FALSE
  /\ uses = <<>> /\ passwords = <<>>
  /\ status = 0

Extended(map, name, value) == [n \in DOMAIN map \union {name} |-> IF n = name THEN value ELSE map[n]]

\* passgen_random_open_parse: what comes of a description.  A source that is opened fills
\* the buffer; a key, a passphrase, a domain or a token is copied without a check of its
\* length; and what does not look like any source is refused.
OpenParse(d) ==
  CASE d.source \in {"zero", "system"} -> "opened"
    [] d.source = "file" -> IF d.file = "missing" THEN "refused"
                            ELSE IF d.file = "short" THEN "crashed" ELSE "opened"
    [] d.source = "xorshift" -> IF d.seed = 0 THEN "refused" ELSE "opened"
    [] d.source = "chacha20" -> IF d.longest > KeySize THEN "astray" ELSE "opened"
    [] d.source = "chacha20-argon2" -> IF d.longest > MaxString THEN "astray" ELSE "opened"
    [] OTHER -> "refused"

Fails(d) ==
  \/ d.kind = "random" /\ OpenParse(d) = "refused"
  \/ d.kind = "wordlist" /\ d.file = "missing"
  \/ d.kind = "preset" /\ d.value = NoPattern

\* passgen_cli_opts_random: the old source is closed before the new one is opened.
GiveRandom(d) ==
  /\ d.kind = "random"
  /\ LET result == OpenParse(d)
         opened == IF result = "refused" THEN {} ELSE {Handle}
     IN  /\ random' = IF opened = {} THEN NoSource ELSE [kind |-> "option", handle |-> Handle]
         /\ open' = (open \ Source) \union opened
         /\ stage' = IF result \in {"crashed", "astray"} THEN result ELSE stage
  /\ misused' = (misused \/ ~(Source \subseteq open))
  /\ UNCHANGED <<wordlists, settings>>

\* Mutant: a name that is taken stays with its list.
GiveWordlistFirst(d) ==
  /\ d.kind = "wordlist"
  /\ wordlists' = IF d.file = "missing" \/ d.name \in DOMAIN wordlists THEN wordlists
                  ELSE Extended(wordlists, d.name, NewList(Handle))
  /\ open' = IF d.file = "missing" THEN open ELSE open \union {Handle}
  /\ UNCHANGED <<stage, random, settings, misused>>

\* passgen_cli_opts_wordlist, passgen_env_wordlist_add.  A list that had the name
\* before is forgotten; passgen_markov_init asserts that contexts are not empty.
GiveWordlist(d) ==
  /\ d.kind = "wordlist"
  /\ IF d.file = "missing" THEN UNCHANGED <<stage, wordlists, open>>
     ELSE /\ wordlists' = Extended(wordlists, d.name, NewList(Handle))
          /\ open' = open \union {Handle}
          /\ stage' = IF NewList(Handle).level = 0 THEN "crashed" ELSE stage
  /\ UNCHANGED <<random, settings, misused>>

\* passgen_cli_opts_preset
GivePreset(d) ==
  /\ d.kind = "preset"
  /\ presets' = IF d.value = NoPattern THEN presets ELSE Extended(presets, d.name, d.value)
  /\ UNCHANGED <<stage, random, wordlists, markovLength, amount, preset, pattern, open, misused>>

Give(d) == GiveRandom(d) \/ GiveWordlist(d) \/ GivePreset(d)

\* A configuration file is read: the path of the user's has fitted into its buffer.
Loading == stage \in {"system", "user"} /\ (stage = "user" => config.path <= MaxPath)

\* There is a file, and a byte is left of the buffer for the zero behind it.
Loaded == Loading /\ config[stage].bytes \in 1..(MaxConfig - 1)

\* A line of passgen_cli_opts_config_parse, which ignores what goes wrong.
Line(d) ==
  /\ Loaded /\ Len(given) < read + MaxLines
  /\ Give(d)
  /\ given' = Append(given, d)
  /\ UNCHANGED <<config, read, work, status>>

\* The end of the file, or there is none: the user's follows the system's.
EndOfFile ==
  /\ Loading /\ (config[stage].bytes = 0 \/ (Loaded /\ config[stage].newline))
  /\ stage' = IF stage = "system" THEN "user" ELSE "options"
  /\ read' = Len(given)
  /\ UNCHANGED <<config, given, random, wordlists, settings, open, misused, work, status>>

EndsAs(ending) ==
  /\ stage' = ending
  /\ UNCHANGED <<config, given, read, random, wordlists, settings, open, misused, work, status>>

\* The last line has no newline: the scan goes on behind the end of the string.
PastEndOfFile == Loaded /\ ~config[stage].newline /\ EndsAs("overread")

\* The buffer is full: the zero is written behind it.
FullFile == Loading /\ config[stage].bytes >= MaxConfig /\ EndsAs("astray")

\* The path is written behind the end of its buffer, whether there is such a file or not.
LongPath == stage = "user" /\ config.path > MaxPath /\ EndsAs("astray")

-----------------------------------------------------------------------------
Opt(d) == stage = "options" /\ Len(given) < read + MaxOptions /\ given' = Append(given, d)

\* Options that a line may have, too, but which must not fail here.
GiveOption(d) ==
  /\ Opt(d) /\ ~Fails(d)
  /\ Give(d)
  /\ UNCHANGED <<config, read, work, status>>

FailOption(d) ==
  /\ stage = "options" /\ Len(given) < read + MaxOptions
  /\ Fails(d)
  /\ stage' = "exited" /\ status' = 1
  /\ random' = (IF d.kind = "random" THEN NoSource ELSE random)
  /\ (IF d.kind = "random" THEN Close(Source) ELSE UNCHANGED <<open, misused>>)
  /\ UNCHANGED <<config, given, read, wordlists, settings, work>>

\* -a, -M, -p, and a pattern, which is looked at when all options have been.
Set(d) ==
  /\ Opt(d)
  /\ \/ /\ d.kind = "amount" /\ d.value >= 1
        /\ amount' = d.value
        /\ UNCHANGED <<markovLength, preset>>
     \/ /\ d.kind = "markov" /\ d.value >= 1
        /\ markovLength' = d.value
        /\ UNCHANGED <<amount, preset>>
     \/ /\ d.kind = "use"
        /\ preset' = d.name
        /\ UNCHANGED <<amount, markovLength>>
     \/ /\ d.kind \in {"master", "pattern"}
        /\ UNCHANGED <<amount, markovLength, preset>>
  /\ UNCHANGED <<config, stage, read, random, wordlists, presets, pattern, open, misused, work, status>>

Refuse(d) ==
  /\ stage = "options" /\ Len(given) < read + MaxOptions
  /\ \/ d.kind = "amount" /\ d.value < 1 /\ Quit(IllegalAmount)
     \/ d.kind = "markov" /\ d.value < 1 /\ Quit(IllegalMarkovLength)
     \/ d.kind = "unknown" /\ Quit(Unrecognized)

\* -h and -v; and -l, which frees nothing.
Inform(d) ==
  /\ stage = "options" /\ Len(given) < read + MaxOptions
  /\ \/ d.kind = "help" /\ FreeAndExit
     \/ d.kind = "list" /\ Quit(0)

\* The patterns given as arguments, and zero for the one of the preset.
Patterns == {i \in 1..Len(given) : given[i].kind = "pattern"}

Formats == Patterns \union (IF preset = None THEN {} ELSE {0})

Format(i) == IF i = 0 THEN presets[preset] ELSE given[i].value

PresetUnknown == preset # None /\ preset \notin DOMAIN presets

InMasterMode == \E i \in 1..Len(given) : given[i].kind = "master"

\* The source for what follows: the one that was opened, or the key stream of the
\* master passphrase, or the system's.
Chosen ==
  IF random # NoSource THEN random
  ELSE [kind |-> IF InMasterMode THEN "master" ELSE "system", handle |-> Handle]

\* There must be one format; with none, the usage is shown.
EndOfOptions ==
  /\ stage = "options"
  /\ \/ PresetUnknown /\ Quit(PresetNotFound)
     \/ ~PresetUnknown /\ Cardinality(Formats) > 1 /\ Quit(MultipleFormats)
     \/ ~PresetUnknown /\ Formats = {} /\ FreeAndExit
     \/ /\ ~PresetUnknown
        /\ \E i \in Formats : Formats = {i} /\ pattern' = Format(i)
        /\ random' = Chosen
        /\ open' = open \union {Chosen.handle}
        /\ stage' = "parsing"
        /\ UNCHANGED <<config, given, read, wordlists, presets, markovLength, amount, preset,
                       misused, work, status>>

\* passgen_cli_run
ParseFails == stage = "parsing" /\ ~pattern.valid /\ Quit(PatternParse)

Parses ==
  /\ stage = "parsing" /\ pattern.valid
  /\ stage' = "generating" /\ uses' = pattern.uses
  /\ UNCHANGED <<config, given, read, random, wordlists, settings, open, misused, passwords, status>>

-----------------------------------------------------------------------------
Generating == stage = "generating" /\ Len(passwords) < amount

Contents(list) == given[list.handle].file

\* passgen_wordlist_parse, if it was not called before: the list counts as parsed,
\* and if all of the file could be read, it is held and the file closed.
Parsed(list) ==
  IF list.parsed THEN list ELSE [list EXCEPT !.parsed = TRUE, !.held = Contents(list) \notin {"short", "unsized"}]

\* The list of the next special is looked up and parsed; its chain is made if need be.
Look(chain, outcomes) ==
  LET use == Head(uses)
      list == wordlists[use.name]
      parsed == Parsed(list)
  IN  /\ Generating /\ uses # <<>> /\ use.name \in DOMAIN wordlists
      /\ wordlists' = [wordlists EXCEPT ![use.name] = [parsed EXCEPT !.chained = @ \/ chain]]
      /\ IF parsed.held /\ ~list.held THEN Close({list.handle}) ELSE UNCHANGED <<open, misused>>
      /\ \E outcome \in outcomes :
           /\ stage' = IF outcome \in {"crashed", "astray"} THEN outcome ELSE stage
           /\ uses' = IF outcome = "next" THEN Tail(uses) ELSE IF outcome = "fail" THEN pattern.uses ELSE uses
           /\ passwords' = IF outcome = "fail" THEN Append(passwords, FALSE) ELSE passwords
  /\ UNCHANGED <<config, given, read, random, settings, status>>

NextUse == Head(uses)
NextList == wordlists[NextUse.name]
NextFile == given[NextList.handle]

\* What comes of a list whose file could not be read: the words are undefined; there was
\* no room for a file without a size, or it was overwritten.
Unreadable == [short |-> {"astray"}, unsized |-> {"crashed", "astray"}]

\* passgen_generate_special_wordlist.  There is no choice among no words; and the word
\* that is chosen may be ill-formed, or too long for the buffer.
UseWord ==
  /\ Generating /\ uses # <<>> /\ NextUse.letter = "w" /\ NextUse.name \in DOMAIN wordlists
  /\ Look(FALSE, CASE NextFile.file = "good" ->
                        {"next"} \union (IF NextFile.letters > MaxWord THEN {"fail"} ELSE {})
                   [] NextFile.file = "illformed" -> {"next", "fail"}
                   [] NextFile.file = "empty" -> {"crashed"}
                   [] OTHER -> Unreadable[NextFile.file])

\* Mutant: the last codepoint of the buffer is not used.
WalkedShort(level, reach) ==
  (IF level < MaxWord THEN {"next"} ELSE {})
  \union (IF level + reach[level] >= MaxWord THEN {"astray"} ELSE {})

\* The word that is made lies behind a context of zeros, and may not have room there.
Walked(level, reach) ==
  (IF level < MaxWord THEN {"next"} ELSE {})
  \union (IF level + reach[level] > MaxWord THEN {"astray"} ELSE {})

\* passgen_generate_special_markov.  Making the chain asserts that every word is
\* well-formed and fits into a buffer; and from an empty chain nothing follows.
UseChain ==
  /\ Generating /\ uses # <<>> /\ NextUse.letter = "m" /\ NextUse.name \in DOMAIN wordlists
  /\ Look(TRUE, CASE NextFile.file = "good" ->
                        IF NextFile.letters > MaxLink THEN {"crashed"}
                        ELSE Walked(NextList.level, NextFile.reach)
                  [] NextFile.file \in {"illformed", "empty"} -> {"crashed"}
                  [] OTHER -> Unreadable[NextFile.file])

\* Without a name the lookup hashes what is behind a null pointer, if there are lists.
UseNameless ==
  /\ Generating /\ uses # <<>> /\ NextUse.name = None /\ DOMAIN wordlists # {}
  /\ EndsAs("astray")

\* No list has the name, and it is looked for.
Unknown(name) == name \notin DOMAIN wordlists /\ (name = None => DOMAIN wordlists = {})

\* Mutant: what cannot be generated is tried again.
UseUnknownAgain ==
  /\ Generating /\ uses # <<>> /\ Unknown(NextUse.name)
  /\ uses' = pattern.uses
  /\ UNCHANGED <<config, stage, given, read, random, wordlists, settings, open, misused, passwords, status>>

\* There is no such list: the password cannot be generated, and is printed empty.
UseUnknown ==
  /\ Generating /\ uses # <<>> /\ Unknown(NextUse.name)
  /\ passwords' = Append(passwords, FALSE) /\ uses' = pattern.uses
  /\ UNCHANGED <<config, stage, given, read, random, wordlists, settings, open, misused, status>>

PrintPassword ==
  /\ Generating /\ uses = <<>>
  /\ passwords' = Append(passwords, TRUE) /\ uses' = pattern.uses
  /\ UNCHANGED <<config, stage, given, read, random, wordlists, settings, open, misused, status>>

\* All are printed, however generation went.
Finish == stage = "generating" /\ Len(passwords) = amount /\ FreeAndExit

Next ==
  \/ \E d \in Lines : Line(d)
  \/ EndOfFile \/ PastEndOfFile \/ FullFile \/ LongPath
  \/ \E d \in Options : GiveOption(d) \/ FailOption(d) \/ Set(d) \/ Refuse(d) \/ Inform(d)
  \/ EndOfOptions \/ ParseFails \/ Parses
  \/ UseWord \/ UseChain \/ UseNameless \/ UseUnknown \/ PrintPassword \/ Finish

Spec == Init /\ [][Next]_vars

\* The program is one thread that does nothing else.
FairSpec == Spec /\ WF_vars(Next)

-----------------------------------------------------------------------------
\* The last of the directives with some property, zero if none has it.
LastGiven(P(_)) ==
  LET such == {i \in 1..Len(given) : P(given[i])} IN
  IF such = {} THEN 0 ELSE Max(such)

\* The directives that opened a list.
ListsOpened == {i \in 1..Len(given) : given[i].kind = "wordlist" /\ given[i].file # "missing"}

Opened(name) == {i \in ListsOpened : given[i].name = name}

\* The length of contexts that was set when a directive was carried out.
LengthAt(i) ==
  LET lengths == {j \in 1..i : given[j].kind = "markov"} IN
  IF lengths = {} THEN 3 ELSE given[Max(lengths)].value

\* What counts when generation starts is what was said last, wherever it was said:
\* the source, if it could be opened; the pattern a preset has then; of the lists of
\* one name the one named last, with the length of contexts that was set before it
\* (as far as the maps keep one value for a name, see Careful in HashMap).
LastWins ==
  stage \in {"parsing", "generating"} =>
    LET source == LastGiven(LAMBDA d : d.kind = "random")
        used == LastGiven(LAMBDA d : d.kind = "use")
        plain == LastGiven(LAMBDA d : d.kind = "pattern")
    IN
    /\ IF source # 0 /\ OpenParse(given[source]) = "opened"
         THEN random = [kind |-> "option", handle |-> source]
         ELSE random.kind = IF InMasterMode THEN "master" ELSE "system"
    /\ pattern =
         IF used = 0 THEN given[plain].value
         ELSE LET defined == LastGiven(LAMBDA d : d.kind = "preset" /\ d.value # NoPattern
                                                  /\ d.name = given[used].name) IN
              IF defined = 0 THEN Defaults[given[used].name] ELSE given[defined].value
    /\ \A name \in DOMAIN wordlists :
         /\ wordlists[name].handle = Max(Opened(name))
         /\ wordlists[name].level = LengthAt(Max(Opened(name))) % 256
    /\ DOMAIN wordlists = {given[i].name : i \in ListsOpened}

Ended == stage \in {"exited", "crashed", "astray", "overread"}

\* Lists whose name was given to another one.
Shadowed == ListsOpened \ {wordlists[n].handle : n \in DOMAIN wordlists}

\* While the program runs, what is open is the source it uses, the files of lists that
\* it has not read, and those of lists whose name was taken by another one, which stay
\* open.  Nothing is closed twice; and passwords that were generated leave no more open.
NothingDangles ==
  /\ ~misused
  /\ ~Ended => open = Source \union Unread \union Shadowed
  /\ stage = "exited" /\ status = 0 /\ passwords # <<>> => open = Shadowed

\* The use of a list undoes the program: of the one named last.
Undoes(use) ==
  IF use.name = None THEN ListsOpened # {}
  ELSE Opened(use.name) # {} /\
    LET opened == Max(Opened(use.name))
        list == given[opened]
        level == LengthAt(opened) % 256
    IN  \/ list.file \in {"short", "unsized", "empty"}
        \/ /\ use.letter = "m"
           /\ \/ list.file = "illformed"
              \/ list.file = "good" /\ (list.letters > MaxLink \/ level + list.reach[level] > MaxWord)

\* So does a configuration file.
UndoesLoading ==
  \/ config.path > MaxPath
  \/ \E file \in {config.system, config.user} :
       file.bytes >= MaxConfig \/ (file.bytes > 0 /\ ~file.newline)

\* Whatever the arguments, the files and the lists: apart from what a pattern may do by
\* itself (see Passgen), the program is undone only by a configuration file that fills its
\* buffer or does not end in a newline, or has too long a path; by a source that is too
\* short for the buffer or described by a string that is too long; by a list named when the
\* length of contexts is a multiple of 256; and by the use of a list that has no name,
\* could not be read or has no words, or of a chain of words that are ill-formed or too long
\* for a buffer, by themselves or as they are continued (passgen_cli_opts_config_load,
\* _config_parse, _config_user, passgen_random_reload, passgen_random_open_parse,
\* passgen_markov_init, passgen_wordlist_read, passgen_wordlist_parse_markov,
\* passgen_generate_special_wordlist, passgen_generate_special_markov).
UndoneForCause ==
  stage \in {"crashed", "astray", "overread"} =>
    IF pattern # NoPattern THEN \E i \in 1..Len(pattern.uses) : Undoes(pattern.uses[i])
    ELSE \/ UndoesLoading /\ stage # "crashed"
         \/ given # <<>> /\ stage # "overread" /\
              LET last == given[Len(given)] IN
              \/ last.kind = "random" /\ OpenParse(last) = stage
              \/ last.kind = "wordlist" /\ LengthAt(Len(given)) % 256 = 0

\* Every run of the program comes to an end.
RunEnds == <>Ended

-----------------------------------------------------------------------------
\* passgen.1.in:227: "On success, the tool returns 0. When an error is encountered, it
\* will return a different exit code", and passgen.1.in:167: "It is an error to specify
\* this if a wordlist with the given name has not been loaded."
ErrorsReturned == stage = "exited" /\ status = 0 => \A i \in 1..Len(passwords) : passwords[i]
=============================================================================
