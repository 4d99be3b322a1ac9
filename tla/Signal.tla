------------------------------- MODULE Signal -------------------------------
(***************************************************************************)
(* signal/signal.h, signal/signal.c: the signal manager of a process, as   *)
(* operators that return the manager after the call.  A manager is         *)
(*   received  the pending signals           mask  the blocked signals     *)
(*   handling  none, frozen or user          handlers  the signals with an *)
(*             action whose handler is not 0                               *)
(* The saved user context is a variable of Kernel7.                        *)
(***************************************************************************)
EXTENDS Integers

MAX_SIG == 31
SIGKILL == 9
SIGCHLD == 17
SIGCONT == 18
SIGSTOP == 19
SIGURG  == 23

SignalNumbers == 1 .. MAX_SIG

HandlingTypes == {"none", "frozen", "user"}

SignalManagers == [received : SUBSET SignalNumbers,
                   mask     : SUBSET SignalNumbers,
                   handling : HandlingTypes,
                   handlers : SUBSET SignalNumbers]

signal_init == [received |-> {}, mask |-> {}, handling |-> "none", handlers |-> {}]

\* fork: the child inherits mask and handlers, no pending signal, and does
\* not count as handling one, whatever its parent is doing.
signal_fork(sm) == [sm EXCEPT !.received = {}, !.handling = "none"]

\* exec: only the actions are forgotten.
signal_clear(sm) == [sm EXCEPT !.handlers = {}]

signal_add(sm, s) == [sm EXCEPT !.received = @ \cup {s}]

Uncatchable == {SIGKILL, SIGSTOP}

\* A handler of 0 is the default action again.
signal_set_action(sm, s, installs) ==
    IF s \in Uncatchable THEN sm
    ELSE [sm EXCEPT !.handlers = IF installs THEN @ \cup {s} ELSE @ \ {s}]

signal_update_mask(sm, m) == [sm EXCEPT !.mask = m]

signal_return(sm) == IF sm.handling = "user" THEN [sm EXCEPT !.handling = "none"] ELSE sm

-----------------------------------------------------------------------------
ResultTypes == {"NO_SIGNAL", "IS_HANDLING", "IGNORED", "HANDLED", "KILLED", "SUSPENDED"}

Result(type, code, sm) == [type |-> type, exit_code |-> code, sm |-> sm]

default_action(s, sm) ==
    IF s \in {SIGCHLD, SIGURG} THEN Result("IGNORED", 0, sm) ELSE Result("KILLED", -s, sm)

pending(sm) == sm.received \ sm.mask

\* The lowest pending signal that is not blocked.
sigset_find_first(sm) == CHOOSE s \in pending(sm) : \A u \in pending(sm) : s <= u

\* What becomes of signal s, already removed from the pending ones.
deliver(s, sm) ==
    IF s = SIGKILL THEN Result("KILLED", -SIGKILL, sm)
    ELSE IF s = SIGSTOP THEN Result("SUSPENDED", 0, [sm EXCEPT !.handling = "frozen"])
    ELSE IF s \in sm.handlers THEN Result("HANDLED", 0, [sm EXCEPT !.handling = "user"])
    ELSE default_action(s, sm)

signal_handle(sm) ==
    CASE sm.handling = "frozen" ->
           IF SIGCONT \in pending(sm)
           THEN Result("HANDLED", 0, [sm EXCEPT !.received = @ \ {SIGCONT}, !.handling = "none"])
           ELSE Result("SUSPENDED", 0, sm)
      [] sm.handling = "user" -> Result("IS_HANDLING", 0, sm)
      [] sm.handling = "none" /\ pending(sm) = {} -> Result("NO_SIGNAL", 0, sm)
      [] OTHER -> LET s == sigset_find_first(sm)
                  IN  deliver(s, [sm EXCEPT !.received = @ \ {s}])
=============================================================================
