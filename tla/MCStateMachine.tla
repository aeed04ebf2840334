--------------------------- MODULE MCStateMachine ---------------------------
(***************************************************************************)
(* Small instances of StateMachine.  The state sets share state names and  *)
(* patterns, return to the start state, declare a state in two entries, or *)
(* fan out past the bound on active states; some are not well formed.  The *)
(* menu is every one of them alone, every ordered pair, and the bundled    *)
(* sets with a custom one.                                                 *)
(*                                                                         *)
(* The literals of the patterns are derived from their trees.  They are    *)
(* stems of one another (er, err, error), or end in another (at, panat),   *)
(* so that probes fold, have parents, and overlap in the automaton; masks  *)
(* have three bits, fewer than the pairs have start transitions.           *)
(***************************************************************************)
EXTENDS StateMachine, Bundled

\* The letters a, e, n, o, p, r, t, and a space.
MCBytes == 0 .. 7
At    == <<1, 7>>
Er    == <<2, 6>>
Err   == <<2, 6, 6>>
Error == <<2, 6, 6, 4, 6>>
Pan   == <<5, 1, 3>>
Panat == <<5, 1, 3, 1, 7>>

Byte(r) == <<r>>
L == INSTANCE Literals WITH Encode <- Byte, MinLiteral <- 2, MaxProductSet <- 4,
                            MaxProductLen <- 5

Word(text) == L!Literal(text, FALSE)
Either(a, b) == L!Node("alternate", <<a, b>>)

Trees ==
  [at        |-> Word(At),
   er        |-> L!Node("capture", <<Word(Er)>>),
   fatal     |-> Either(Word(Error), L!Node("concat", <<Word(Pan), Word(At)>>)),
   err_panic |-> Either(L!Node("plus", <<Word(Err)>>), Word(Pan)),
   word      |-> L!Node("star", <<Word(Er)>>),
   bad       |-> L!Node("empty", <<>>)]

Custom   == DOMAIN Trees
Required0 == [p \in Custom |-> ToSet(L!LiteralsOf(Trees[p]))]
MCRequired(p) == IF p \in Custom THEN Required0[p] ELSE {}
MCValid(p) == p # "bad"

\* A line is told apart by the patterns it matches and the text it holds.
MCMatches(line, p) == p \in line.matches
MCText(line) == line.text

Content == {a \o <<0>> \o b \o <<0>> \o c :
              a \in {<<>>, Er, Error}, b \in {<<>>, Pan, Panat}, c \in {<<>>, At}}

CustomLines ==
  {line \in [matches : SUBSET (Custom \ {"bad"}), text : Content] :
     \A p \in line.matches :
       Required0[p] # {} => \E a \in Required0[p] : Occurs(a, line.text)}

\* What the lines of the traces under tests/ match of the bundled sets, and some lines
\* made to look like several formats at once.
Shapes == {
  {}, {"^--- End of previous ---"}, {"^PC="}, {"^call( or created by"}, {"^fatal error: "},
   {"^space"}, {"Exception|Error|Throwable:"}, {"^#N "}, {"^** ("}, {"^BEGIN TX"},
   {"^COMMIT|ROLLBACK"}, {"^During handling of"}, {"^Exception in thread javaClass$"},
   {"^Stack trace:$"}, {"^The above exception was"}, {"^Traceback (most recent call last):$"},
   {"^class: or class$"}, {"^stack backtrace:$"}, {"^thread panicked at :$"},
   {"goroutine N [state]:"}, {"^SIGQUIT: ", "^class: or class$"},
   {"^Unhandled exception. Exception", "Exception|Error|Throwable:"},
   {"^space", "^   --- End of inner ---"}, {"^space", "^ ---> Exception:"},
   {"^space", "^    "}, {"^space", "^  File "},
   {"^space", "^  [Previous line repeated N more times]$"}, {"^space", "^ left|right: "},
   {"^space", "^... N more"}, {"^space", "^spaces N: "}, {"^space", "^spaces from N:in "},
   {"^space", "^spaces thrown in on line N"},
   {"Exception|Error|Throwable:", "Fatal error: Uncaught "},
   {"Exception|Error|Throwable:", "^Caused by|Suppressed:"},
   {"Exception|Error|Throwable:", "^class: or class$"}, {"^Error: ", "^class: or class$"},
   {"^class: or class$", "^N:in (Errno::)$"}, {"^class: or class$", "^N:in (Error)$"},
   {"^class: or class$", "^note: Some details"}, {"^class: or class$", "^note: run with"},
   {"^javaClass$", "^class: or class$"}, {"panic: ", "^BEGIN TX"},
   {"panic: ", "^class: or class$"},
   {"^space", "^ ---> Exception:", "Exception|Error|Throwable:"},
   {"^space", "Exception|Error|Throwable:", "^Caused by|Suppressed:"},
   {"^space", "Exception|Error|Throwable:", "^nested exception is:"},
   {"^space", "^    ", "^spaces (app) file:N: "}, {"^space", "^... N more", "^    "},
   {"Exception|Error|Throwable:", "^Caused by|Suppressed:", "^class: or class$"},
   {"panic: ", "^Unhandled exception. Exception", "Exception|Error|Throwable:"},
   {"panic: ", "^space", "^spaces N: "}, {"panic: ", "^tabs panic: ", "^space"},
   {"panic: ", "Exception|Error|Throwable:", "^** ("},
   {"^space", "^blanks (eval) at ", "^spaces (eval) at ", "^spaces at "},
   {"^space", "^   at ", "^blanks (eval) at ", "^spaces (eval) at ", "^spaces at "},
   {"^space", "^blanks (eval) at ", "^spaces (eval) at ", "^    ", "^spaces at "},
   {"panic: ", "http: panic serving", "Exception|Error|Throwable:", "^thread panicked at :$", "Fatal error: Uncaught "},
   {"^space", "^   at ", "Exception|Error|Throwable:", "^blanks (eval) at ", "^spaces (eval) at ", "^spaces at "},
   {"panic: ", "^space", "Exception|Error|Throwable:", "^blanks (eval) at ", "^spaces (eval) at ", "^spaces at "},
   {"panic: ", "http: panic serving", "Exception|Error|Throwable:", "^Error: ", "V8 errors stack trace:", "^class: or class$", "Fatal error: Uncaught "}}

BundledLines == {[matches |-> s \union {"anything"}, text |-> <<>>] : s \in Shapes}
                  \union {[matches |-> {"blank"}, text |-> <<>>]}

MCLines == CustomLines \union BundledLines

\* The expressions of the bundled sets, those no line here matches included.
Declared == UNION {UNION {{t.pattern : t \in ToSet(st.transitions)} : st \in ToSet(set.states)} :
                     set \in ToSet(Append(All, txSet))}
MCPatterns == Custom \union Declared

\* A head, frames, and a closing line after which nothing follows.
Trace == [name |-> "trace", states |-> <<
  StateEntry("start_state", FALSE, <<T("err_panic", "head"), T("fatal", "body"), T("at", "head")>>),
  StateEntry("head", TRUE, <<T("at", "body")>>),
  StateEntry("body", FALSE, <<T("at", "body"), T("word", "end")>>),
  StateEntry("end", FALSE, <<>>)>>]

\* The same names with other meanings, a state in two entries, and a way back.
Report == [name |-> "report", states |-> <<
  StateEntry("start_state", FALSE, <<T("er", "body"), T("err_panic", "head")>>),
  StateEntry("body", TRUE, <<T("word", "head")>>),
  StateEntry("head", FALSE, <<T("er", "start_state")>>),
  StateEntry("body", TRUE, <<T("at", "head")>>),
  StateEntry("start_state", TRUE, <<T("fatal", "head")>>)>>]

\* A start pattern nothing is proven about, and states in all directions.
Fan == [name |-> "fan", states |-> <<
  StateEntry("start_state", FALSE, <<T("word", "one"), T("at", "one"), T("at", "two")>>),
  StateEntry("one", TRUE, <<T("er", "two"), T("er", "one"), T("at", "three")>>),
  StateEntry("two", TRUE, <<T("er", "three"), T("word", "end")>>),
  StateEntry("three", FALSE, <<T("at", "end")>>),
  StateEntry("end", TRUE, <<>>),
  StateEntry("three", FALSE, <<>>)>>]

\* Declarations Compile refuses.
Dangling == [name |-> "dangling", states |-> <<
  StateEntry("start_state", FALSE, <<T("at", "body")>>)>>]
Conflict == [name |-> "conflict", states |-> <<
  StateEntry("start_state", FALSE, <<T("at", "body")>>),
  StateEntry("body", TRUE, <<>>), StateEntry("body", FALSE, <<>>)>>]
Broken == [name |-> "broken", states |-> <<
  StateEntry("start_state", FALSE, <<T("bad", "start_state")>>)>>]
Unnamed == [name |-> "", states |-> <<>>]

MenuSets == {Trace, Report, Fan, Dangling, Conflict, Broken, Unnamed}

MCMenu == {<<>>} \union {<<a>> : a \in MenuSets} \union {<<a, b>> : a, b \in MenuSets}
            \union {Append(All, txSet), <<Trace>> \o All}

BundledMenu == {All}
=============================================================================
