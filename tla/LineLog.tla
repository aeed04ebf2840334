------------------------------ MODULE LineLog ------------------------------
(***************************************************************************)
(* What an aggregator promises its caller, with nothing said of groups,    *)
(* lists or matchers: one log of lines per key, settled from the front.    *)
(* A call may hand the emitter the next lines of a log, any number at a    *)
(* time.  When the emitter fails on a group, the lines of that group that  *)
(* are left are given up, and no line of any other key.  The emitter is    *)
(* taken not to call back.                                                 *)
(***************************************************************************)
EXTENDS Naturals

CONSTANTS Keys, NoKey, NoCall, NoEntry

VARIABLES
  accepted,         \* lines taken over from the caller, per key
  settled,          \* lines handed to the emitter or given up, per key
  call,             \* the call in progress
  out,              \* the entry in the emitter's hands
  broken,           \* the key whose group is being given up, or NoKey
  failed,           \* the emitter has failed during the call in progress, or the last one
  answer            \* the last call returned an error

vars == <<accepted, settled, call, out, broken, failed, answer>>

StreamKeys == Keys \union {NoKey}

Call == [op : {"Add", "Flush"}, key : StreamKeys] \union [op : {"FlushBefore", "Stop"}]
Out  == [key : StreamKeys, first : Nat, lines : Nat \ {0}]

Unsettled(k) == accepted[k] - settled[k]

Init ==
  /\ accepted = [k \in StreamKeys |-> 0]
  /\ settled = [k \in StreamKeys |-> 0]
  /\ call = NoCall /\ out = NoEntry /\ broken = NoKey
  /\ failed = FALSE /\ answer = FALSE

\* What a call that returns without an error promises.
Promise(c) ==
  /\ c.op = "Stop" => \A k \in StreamKeys : settled'[k] = accepted[k]
  /\ c.op = "Flush" => settled'[c.key] = accepted[c.key]

\* A step inside a call may be its last; then it returns an error if the emitter failed.
Proceeds ==
  \/ UNCHANGED <<call, answer>>
  \/ /\ call' = NoCall
     /\ out' = NoEntry /\ broken' = NoKey
     /\ answer' = failed'
     /\ ~answer' => Promise(call)

\* The caller calls, with the next line of a log or without one.
Ask(c) ==
  /\ call = NoCall
  /\ call' = c
  /\ failed' = FALSE
  /\ accepted' = IF c.op = "Add" THEN [accepted EXCEPT ![c.key] = @ + 1] ELSE accepted
  /\ UNCHANGED <<settled, out, broken, answer>>

\* A line that is never held back goes out with the call that brings it: there is
\* nothing before it in its log.
AskStraight(k) ==
  /\ call = NoCall
  /\ Unsettled(k) = 0
  /\ call' = [op |-> "Add", key |-> k]
  /\ failed' = FALSE
  /\ accepted' = [accepted EXCEPT ![k] = @ + 1]
  /\ settled' = [settled EXCEPT ![k] = @ + 1]
  /\ out' = [key |-> k, first |-> accepted'[k], lines |-> 1]
  /\ UNCHANGED <<broken, answer>>

\* Only a call that adds a line goes on after an error: its line must be placed.
MayHand(k) ==
  /\ call.op # "Add" => ~failed
  /\ call.op = "Flush" => k = call.key

\* The next n lines of k go to the emitter, as one entry.
Hand(k, n) ==
  /\ call # NoCall /\ out = NoEntry /\ broken = NoKey
  /\ MayHand(k)
  /\ n <= Unsettled(k)
  /\ out' = [key |-> k, first |-> settled[k] + 1, lines |-> n]
  /\ settled' = [settled EXCEPT ![k] = @ + n]
  /\ UNCHANGED <<accepted, call, broken, failed, answer>>

Accepts ==
  /\ out # NoEntry
  /\ out' = NoEntry
  /\ Proceeds
  /\ UNCHANGED <<accepted, settled, broken, failed>>

\* The entry is settled all the same; what it was part of may have to be given up.
Fails ==
  /\ out # NoEntry
  /\ out' = NoEntry
  /\ failed' = TRUE
  /\ broken' \in {NoKey, out.key}
  /\ Proceeds
  /\ UNCHANGED <<accepted, settled>>

GiveUp(n) ==
  /\ broken # NoKey
  /\ n <= Unsettled(broken)
  /\ settled' = [settled EXCEPT ![broken] = @ + n]
  /\ broken' = NoKey
  /\ Proceeds
  /\ UNCHANGED <<accepted, out, failed>>

Returns ==
  /\ call # NoCall /\ out = NoEntry /\ broken = NoKey
  /\ Proceeds
  /\ UNCHANGED <<accepted, settled, out, broken, failed>>

Next ==
  \/ \E c \in Call : Ask(c)
  \/ \E k \in StreamKeys : AskStraight(k)
  \/ \E k \in StreamKeys : \E n \in 1 .. Unsettled(k) : Hand(k, n)
  \/ Accepts
  \/ Fails
  \/ broken # NoKey /\ \E n \in 0 .. Unsettled(broken) : GiveUp(n)
  \/ Returns

Spec == Init /\ [][Next]_vars
=============================================================================
