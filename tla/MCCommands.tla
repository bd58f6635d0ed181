----------------------------- MODULE MCCommands -----------------------------
(***************************************************************************)
(* A small instance of Commands: every kind of directive, files of every   *)
(* kind, and patterns that use no list, one, one twice, or an unknown one. *)
(***************************************************************************)
EXTENDS Commands

Named(source) == [kind |-> "random", source |-> source]
File(file) == [kind |-> "random", source |-> "file", file |-> file]
Xorshift(seed) == [kind |-> "random", source |-> "xorshift", seed |-> seed]
Derived(source, longest) == [kind |-> "random", source |-> source, longest |-> longest]
Wordlist(name, file) == [kind |-> "wordlist", name |-> name, file |-> file]
Good(name, letters, reach) == [kind |-> "wordlist", name |-> name, file |-> "good",
                               letters |-> letters, reach |-> reach]
Define(name, value) == [kind |-> "preset", name |-> name, value |-> value]
Amount(n) == [kind |-> "amount", value |-> n]
Length(n) == [kind |-> "markov", value |-> n]
UsePreset(name) == [kind |-> "use", name |-> name]
Pattern(p) == [kind |-> "pattern", value |-> p]
Flag(kind) == [kind |-> kind]

Word(name) == [letter |-> "w", name |-> name]
Made(name) == [letter |-> "m", name |-> name]

Uses(specials) == [valid |-> TRUE, uses |-> specials]
Invalid == [valid |-> FALSE, uses |-> <<>>]

\* No file, one that is read, one without a newline at its end, and one that is too large.
MCFiles == {[bytes |-> 0, newline |-> FALSE], [bytes |-> 80, newline |-> TRUE],
            [bytes |-> 80, newline |-> FALSE], [bytes |-> MaxConfig, newline |-> TRUE]}
MCPaths == {40, MaxPath + 1}

MCDefaults == [p \in {"p"} |-> Uses(<<>>)]

\* Contexts of one or two codepoints repeat; walks in longer ones have six steps at most,
\* for which there is just room behind a context of 122.
Reach == [level \in 1..255 |-> IF level < 3 THEN MaxWord ELSE 6]

MCLines == {Named("zero"), File("missing"), Derived("chacha20", 33), Good("n", 8, Reach),
            Define("p", Uses(<<Word("n")>>))}

MCOptions ==
  {Named("system"), File("good"), File("short"), Xorshift(0)}
  \union {Derived("chacha20", 32), Derived("chacha20-argon2", 128)}
  \union {Wordlist("n", file) : file \in {"empty", "illformed", "short", "unsized", "missing"}}
  \union {Good("n", letters, Reach) : letters \in {8, 200, 300}}
  \union {Define("p", Uses(<<Made("n")>>)), Define("p", NoPattern)}
  \union {Amount(n) : n \in {0, 2}} \union {Length(n) : n \in {0, 122, 130, 256, 258}}
  \union {UsePreset(name) : name \in {"p", "q"}}
  \union {Pattern(p) : p \in {Invalid, Uses(<<Word("n"), Made("n")>>), Uses(<<Word("x")>>),
                               Uses(<<Word(None)>>)}}
  \union {Flag(kind) : kind \in {"master", "help", "list", "unknown"}}
=============================================================================
