------------------------------ MODULE EventLoop ------------------------------
(***************************************************************************)
(* src/util/eventloop.{hh,cc}: rules on file descriptors and what           *)
(* wait_next_event() does with them.  A rule is a name; what its functions  *)
(* do to the state of the thread that runs the loop is given by the         *)
(* constants, so each event loop of the program is an instance.             *)
(*                                                                         *)
(* wait_next_event() is two steps, because other threads run while it waits *)
(* in poll(): Sweep goes through the rules up to the call of poll() and     *)
(* Revents is what poll() reports; Serve is the rest.  The list of rules is *)
(* a sequence; a rule that is erased is dropped from it.                    *)
(***************************************************************************)
EXTENDS Sequences, SequencesExt

CONSTANTS IsIn(_),          \* rule: its direction is Direction::In
          Interest(_, _),   \* rule, state: what interest() returns
          Callback(_, _),   \* rule, state: the possible outcomes of callback()
          Cancel(_, _),     \* rule, state: the state after cancel()
          Error(_, _),      \* rule, state: the state after error()
          Eof(_, _),        \* rule, state: fd.eof()
          Closed(_, _),     \* rule, state: fd.closed()
          Events(_, _)      \* rule, state: what holds of its descriptor, in the
                            \* kernel: a subset of {"in", "out", "hup", "err"}

NoRule == "no rule"

\* What a callback did: the state after it, whether it read or wrote its
\* descriptor (service_count), and how it ended: "ok", with an exception, or
\* with a signal.
Outcome(st, served, fate) == [st |-> st, served |-> served, fate |-> fate]

\* Rules at the end of their input or with a closed descriptor are cancelled;
\* the others are polled, for their direction only if they are interested.
Sweep(st, rules) ==
  LET visit(acc, r) ==
        IF (IsIn(r) /\ Eof(r, acc.st)) \/ Closed(r, acc.st)
          THEN [acc EXCEPT !.st = Cancel(r, @)]
          ELSE [acc EXCEPT !.rules = Append(@, r),
                           !.asked = IF Interest(r, acc.st) THEN @ \cup {r} ELSE @]
  IN  FoldLeft(visit, [st |-> st, rules |-> <<>>, asked |-> {}], rules)

\* Hang-ups and errors are reported whether they are asked for or not.
Revents(swept) ==
  [r \in ToSet(swept.rules) |->
     Events(r, swept.st) \cap
       ({"hup", "err"} \cup
          (IF r \in swept.asked THEN {IF IsIn(r) THEN "in" ELSE "out"} ELSE {}))]

Ready(revents, r) == revents[r] \cap {"in", "out"} # {}

\* Wrong on purpose: a hang-up counts only for rules that write, or only for
\* rules that asked.
HungUpOnWrite(asked, revents, r) == "hup" \in revents[r] /\ ~ IsIn(r)
HungUpIfAsked(asked, revents, r) ==
  "hup" \in revents[r] /\ r \in asked /\ ~ Ready(revents, r)

\* No more will be readable, or writable again.
HungUp(asked, revents, r) ==
  "hup" \in revents[r] /\ ((r \in asked /\ ~ Ready(revents, r)) \/ ~ IsIn(r))

\* Rules with an error or a hang-up are cancelled, up to the first rule that
\* is ready: this one is served, and no other.
Visit(asked, revents, acc, r) ==
  CASE acc.serves # NoRule -> [acc EXCEPT !.rules = Append(@, r)]
    [] acc.serves = NoRule /\ "err" \in revents[r] -> [acc EXCEPT !.st = Cancel(r, Error(r, @))]
    [] acc.serves = NoRule /\ "err" \notin revents[r] /\ HungUp(asked, revents, r) ->
         [acc EXCEPT !.st = Cancel(r, @)]
    [] OTHER -> [acc EXCEPT !.rules  = Append(@, r),
                            !.serves = IF Ready(revents, r) THEN r ELSE @]

\* "busy wait detected": the callback neither read nor wrote, and would be
\* called again.
BusyWait(r, outcome) ==
  outcome.fate = "ok" /\ ~ outcome.served
    /\ ~ Closed(r, outcome.st) /\ Interest(r, outcome.st)

\* The possible results of the part of wait_next_event() after poll().
Serve(st, rules, asked, revents) ==
  LET visit(acc, r) == Visit(asked, revents, acc, r)
      last == FoldLeft(visit, [st |-> st, rules |-> <<>>, serves |-> NoRule], rules)
  IN  IF last.serves = NoRule
        THEN {[st |-> last.st, rules |-> last.rules, fate |-> "ok"]}
        ELSE { [st |-> o.st, rules |-> last.rules,
                fate |-> IF BusyWait(last.serves, o) THEN "busy" ELSE o.fate] :
               o \in Callback(last.serves, last.st) }
=============================================================================
