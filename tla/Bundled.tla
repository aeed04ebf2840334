------------------------------ MODULE Bundled ------------------------------
(***************************************************************************)
(* The state sets shipped with package patterns, one for every supported   *)
(* trace format, and the custom set of examples/custom.  A regular         *)
(* expression is named by what it looks for; two transitions with the same *)
(* expression have the same name, in whatever sets they are.               *)
(***************************************************************************)
EXTENDS Sequences

T(pattern, next) == [pattern |-> pattern, next |-> next]

StateEntry(name, nonTerminal, transitions) ==
  [name |-> name, nonTerminal |-> nonTerminal, transitions |-> transitions]
State(name, transitions)       == StateEntry(name, FALSE, transitions)
NonTerminal(name, transitions) == StateEntry(name, TRUE, transitions)
Starting(transitions)          == State("start_state", transitions)

StateSet(name, states) == [name |-> name, states |-> states]

-----------------------------------------------------------------------------
goBlank     == <<T("blank", "goroutine")>>
goGoroutine == <<T("goroutine N [state]:", "function")>>
goResume    == goGoroutine \o goBlank

Go == StateSet("go", <<
  Starting(<<T("panic: ", "after_panic"), T("^fatal error: ", "after_panic"),
             T("http: panic serving", "goroutine"), T("^SIGQUIT: ", "after_sigquit")>>),
  State("after_panic", <<T("^[signal ", "after_signal"),
                         T("^tabs panic: ", "after_panic")>> \o goResume),
  NonTerminal("after_sigquit", <<T("^PC=", "after_signal")>>),
  State("after_signal", goResume),
  State("goroutine", goGoroutine),
  State("function", <<T("^call( or created by", "location")>> \o goBlank),
  State("location", <<T("^space", "function")>>)>>)

-----------------------------------------------------------------------------
dotnetBody == <<T("^ ---> Exception:", "frame"), T("^   at ", "frame"),
                T("^--- End of previous ---", "mark"), T("^   --- End of inner ---", "mark")>>

DotNet == StateSet("dotnet", <<
  Starting(<<T("^Unhandled exception. Exception", "message")>>),
  NonTerminal("message", <<T("anything", "cont")>> \o dotnetBody),
  NonTerminal("cont", dotnetBody),
  State("frame", dotnetBody),
  State("mark", <<T("^   at ", "frame")>>)>>)

-----------------------------------------------------------------------------
javaHeader == <<T("Exception|Error|Throwable:", "after_exception"),
                T("^javaClass$", "after_exception"),
                T("^Exception in thread javaClass$", "after_exception")>>

javaFrames == <<T("^blanks (eval) at ", "frames"), T("^Caused by|Suppressed:", "frames"),
                T("^nested exception is:", "frames"), T("^... N more", "frames")>>

Java == StateSet("java", <<
  Starting(javaHeader),
  State("after_exception", <<T("^nested exception is:$", "nested")>> \o javaFrames),
  NonTerminal("nested", javaHeader),
  State("frames", javaFrames)>>)

-----------------------------------------------------------------------------
NodeJS == StateSet("nodejs", <<
  Starting(<<T("^Error: ", "frames"), T("V8 errors stack trace:", "frames")>>),
  State("frames", <<T("^spaces (eval) at ", "frames")>>)>>)

-----------------------------------------------------------------------------
pythonTraceback == <<T("^Traceback (most recent call last):$", "frames")>>

Python == StateSet("python", <<
  Starting(pythonTraceback),
  State("frames", <<T("^  File ", "frames"), T("^    ", "frames"),
                    T("^  [Previous line repeated N more times]$", "frames"),
                    T("^class: or class$", "error")>>),
  State("error", <<T("blank", "after_error")>>),
  State("after_error", <<T("^The above exception was", "chained"),
                         T("^During handling of", "chained")>>),
  State("chained", <<T("blank", "restart")>>),
  State("restart", pythonTraceback)>>)

-----------------------------------------------------------------------------
rubyFrame == <<T("^spaces from N:in ", "frames")>>

Ruby == StateSet("ruby", <<
  Starting(<<T("^N:in (Error)$", "error"), T("^N:in (Errno::)$", "error")>>),
  NonTerminal("error", rubyFrame),
  State("frames", rubyFrame)>>)

-----------------------------------------------------------------------------
rustFrame == <<T("^spaces N: ", "frames"), T("^spaces at ", "frames"),
               T("^note: Some details", "note")>>

Rust == StateSet("rust", <<
  Starting(<<T("^thread panicked at :$", "panicked")>>),
  NonTerminal("panicked", <<T("anything", "message")>>),
  State("message", <<T("^ left|right: ", "message"), T("^note: run with", "note"),
                     T("^stack backtrace:$", "backtrace")>>),
  State("note", <<>>),
  NonTerminal("backtrace", rustFrame),
  State("frames", rustFrame)>>)

-----------------------------------------------------------------------------
PHP == StateSet("php", <<
  Starting(<<T("Fatal error: Uncaught ", "message")>>),
  NonTerminal("message", <<T("^Stack trace:$", "trace")>>),
  NonTerminal("trace", <<T("^#N ", "frames")>>),
  State("frames", <<T("^#N ", "frames"), T("^spaces thrown in on line N", "thrown")>>),
  State("thrown", <<>>)>>)

-----------------------------------------------------------------------------
elixirFrame == <<T("^spaces (app) file:N: ", "frames"), T("^spaces (fn", "frames")>>

Elixir == StateSet("elixir", <<
  Starting(<<T("^** (", "error")>>),
  NonTerminal("error", elixirFrame),
  State("frames", elixirFrame)>>)

-----------------------------------------------------------------------------
\* The order in which the formats are preferred.
All == <<Go, DotNet, Java, NodeJS, Python, Ruby, Rust, PHP, Elixir>>

\* examples/custom: a body that goes on as long as lines are indented or close it.
txSet == StateSet("tx", <<
  Starting(<<T("^BEGIN TX", "body")>>),
  State("body", <<T("^space", "body"), T("^COMMIT|ROLLBACK", "body")>>)>>)
=============================================================================
