--------------------------- MODULE Kernel7_proofs ---------------------------
(***************************************************************************)
(* Theorems about the ch7 kernel, for every size of its tables and every   *)
(* set of signals: a handler returns to the program it interrupted; the    *)
(* tables keep to their ranges; an exit is told once, to the parent, and   *)
(* not lost before; the family lists agree with the parents; the ring      *)
(* holds the live processes.                                               *)
(***************************************************************************)
EXTENDS Kernel7, SequenceTheorems, FiniteSetTheorems,
        WellFoundedInduction, TLAPS

-----------------------------------------------------------------------------
(***************************************************************************)
(* Numbers: every set of naturals has a least element, so each CHOOSE of   *)
(* the kernels (first free entry, lowest pid, lowest signal) finds one.    *)
(***************************************************************************)
LEMMA LeastElement ==
    ASSUME NEW S, S \subseteq Nat, S # {}
    PROVE  \E m \in S : \A n \in S : m <= n
<1>1. PICK m \in S : \A n \in S : ~(<<n, m>> \in OpToRel(<, Nat))
  BY NatLessThanWellFounded, WFMin, Zenon
<1>2. \A n \in S : ~(n < m)
  BY <1>1 DEF OpToRel
<1> QED
  BY <1>2

-----------------------------------------------------------------------------
(***************************************************************************)
(* Signal managers stay signal managers.                                   *)
(***************************************************************************)
LEMMA SignalOps ==
    ASSUME NEW sm \in SignalManagers
    PROVE  /\ signal_init \in SignalManagers
           /\ signal_fork(sm) \in SignalManagers
           /\ signal_clear(sm) \in SignalManagers
           /\ signal_return(sm) \in SignalManagers
           /\ \A s \in SignalNumbers : signal_add(sm, s) \in SignalManagers
           /\ \A m \in SUBSET SignalNumbers : signal_update_mask(sm, m) \in SignalManagers
           /\ \A s \in SignalNumbers, installs \in BOOLEAN :
                 signal_set_action(sm, s, installs) \in SignalManagers
<1> USE DEF SignalManagers, HandlingTypes
<1>1. signal_init \in SignalManagers
  BY DEF signal_init
<1>2. signal_fork(sm) \in SignalManagers
  BY DEF signal_fork
<1>3. signal_clear(sm) \in SignalManagers
  BY DEF signal_clear
<1>4. signal_return(sm) \in SignalManagers
  BY DEF signal_return
<1>5. \A s \in SignalNumbers : signal_add(sm, s) \in SignalManagers
  BY DEF signal_add
<1>6. \A m \in SUBSET SignalNumbers : signal_update_mask(sm, m) \in SignalManagers
  BY DEF signal_update_mask
<1>7. \A s \in SignalNumbers, installs \in BOOLEAN :
         signal_set_action(sm, s, installs) \in SignalManagers
  BY DEF signal_set_action
<1> QED
  BY <1>1, <1>2, <1>3, <1>4, <1>5, <1>6, <1>7

\* The result of a delivery: a manager, and an exit code when it kills.
IsResult(r) == r.sm \in SignalManagers /\ r.exit_code \in Int

LEMMA DeliverResult ==
    ASSUME NEW sm \in SignalManagers, NEW s \in Int
    PROVE  IsResult(deliver(s, sm))
<1>1. [sm EXCEPT !.handling = "frozen"] \in SignalManagers
  BY DEF SignalManagers, HandlingTypes
<1>2. [sm EXCEPT !.handling = "user"] \in SignalManagers
  BY DEF SignalManagers, HandlingTypes
<1>3. IsResult(default_action(s, sm))
  BY DEF default_action, Result, IsResult
<1> QED
  BY <1>1, <1>2, <1>3 DEF deliver, Result, IsResult, SIGKILL, SIGSTOP

LEMMA HandleResult ==
    ASSUME NEW sm \in SignalManagers
    PROVE  IsResult(signal_handle(sm))
<1>1. CASE sm.handling = "frozen"
  <2>1. [sm EXCEPT !.received = @ \ {SIGCONT}, !.handling = "none"] \in SignalManagers
    BY DEF SignalManagers, HandlingTypes
  <2> QED
    BY <1>1, <2>1 DEF signal_handle, Result, IsResult
<1>2. CASE sm.handling = "user"
  BY <1>2 DEF signal_handle, Result, IsResult
<1>3. CASE sm.handling = "none" /\ pending(sm) = {}
  BY <1>3 DEF signal_handle, Result, IsResult
<1>4. CASE sm.handling = "none" /\ pending(sm) # {}
  <2> DEFINE s == sigset_find_first(sm)
             rest == [sm EXCEPT !.received = @ \ {s}]
  <2>1. pending(sm) \subseteq Nat
    BY DEF pending, SignalManagers, SignalNumbers, MAX_SIG
  <2>2. s \in Nat
    BY <1>4, <2>1, LeastElement DEF sigset_find_first
  <2>3. rest \in SignalManagers
    BY DEF SignalManagers
  <2>4. signal_handle(sm) = deliver(s, rest)
    BY <1>4 DEF signal_handle
  <2> HIDE DEF s, rest
  <2> QED
    BY <2>2, <2>3, <2>4, DeliverResult
<1> QED
  BY <1>1, <1>2, <1>3, <1>4 DEF SignalManagers, HandlingTypes

-----------------------------------------------------------------------------
(***************************************************************************)
(* A manager says that a handler runs exactly while one does.              *)
(***************************************************************************)
\* Only signal_handle, signal_return and signal_fork change what is handled.
LEMMA HandlingKept ==
    ASSUME NEW sm \in SignalManagers
    PROVE  /\ signal_clear(sm).handling = sm.handling
           /\ \A s : signal_add(sm, s).handling = sm.handling
           /\ \A m : signal_update_mask(sm, m).handling = sm.handling
           /\ \A s, installs : signal_set_action(sm, s, installs).handling = sm.handling
<1>1. \A x : /\ [sm EXCEPT !.received = x].handling = sm.handling
             /\ [sm EXCEPT !.mask = x].handling = sm.handling
             /\ [sm EXCEPT !.handlers = x].handling = sm.handling
  BY DEF SignalManagers
<1>2. signal_clear(sm).handling = sm.handling
  BY <1>1 DEF signal_clear
<1>3. \A s : signal_add(sm, s).handling = sm.handling
  BY <1>1 DEF signal_add
<1>4. \A m : signal_update_mask(sm, m).handling = sm.handling
  BY <1>1 DEF signal_update_mask
<1>5. \A s, installs : signal_set_action(sm, s, installs).handling = sm.handling
  BY <1>1 DEF signal_set_action
<1> QED
  BY <1>2, <1>3, <1>4, <1>5

\* A delivery enters a handler or leaves the manager outside of one.
LEMMA DeliverHandling ==
    ASSUME NEW sm \in SignalManagers, sm.handling = "none", NEW s \in Int
    PROVE  deliver(s, sm).type = "HANDLED" <=> deliver(s, sm).sm.handling = "user"
<1>1. [sm EXCEPT !.handling = "frozen"].handling = "frozen"
  BY DEF SignalManagers
<1>2. [sm EXCEPT !.handling = "user"].handling = "user"
  BY DEF SignalManagers
<1>3. LET r == default_action(s, sm) IN r.type # "HANDLED" /\ r.sm.handling = "none"
  BY DEF default_action, Result
<1> QED
  BY <1>1, <1>2, <1>3 DEF deliver, Result, SIGKILL, SIGSTOP

\* signal_handle enters a handler only when none is running, and ends none.
LEMMA HandleHandling ==
    ASSUME NEW sm \in SignalManagers
    PROVE  LET r == signal_handle(sm)
               caught == r.type = "HANDLED" /\ r.sm.handling = "user"
           IN  /\ caught => sm.handling = "none"
               /\ ~caught => (r.sm.handling = "user" <=> sm.handling = "user")
<1> DEFINE r == signal_handle(sm)
<1>1. CASE sm.handling = "frozen"
  <2>1. [sm EXCEPT !.received = @ \ {SIGCONT}, !.handling = "none"].handling = "none"
    BY DEF SignalManagers
  <2> QED
    BY <1>1, <2>1 DEF signal_handle, Result
<1>2. CASE sm.handling = "user"
  BY <1>2 DEF signal_handle, Result
<1>3. CASE sm.handling = "none" /\ pending(sm) = {}
  BY <1>3 DEF signal_handle, Result
<1>4. CASE sm.handling = "none" /\ pending(sm) # {}
  <2> DEFINE s == sigset_find_first(sm)
             rest == [sm EXCEPT !.received = @ \ {s}]
  <2>1. pending(sm) \subseteq Nat
    BY DEF pending, SignalManagers, SignalNumbers, MAX_SIG
  <2>2. s \in Int
    BY <1>4, <2>1, LeastElement DEF sigset_find_first
  <2>3. rest \in SignalManagers /\ rest.handling = "none"
    BY <1>4 DEF SignalManagers
  <2>4. r = deliver(s, rest)
    BY <1>4 DEF signal_handle
  <2> HIDE DEF s, rest, r
  <2>5. r.type = "HANDLED" <=> r.sm.handling = "user"
    BY <2>2, <2>3, <2>4, DeliverHandling
  <2> QED
    BY <1>4, <2>5 DEF r
<1> QED
  BY <1>1, <1>2, <1>3, <1>4 DEF SignalManagers, HandlingTypes

-----------------------------------------------------------------------------
\* What a handler's bookkeeping needs of the process manager: which slots hold
\* a process.
IsManager(m) == /\ DOMAIN m = {"procs", "parent", "children", "dead", "ready"}
                /\ m.procs \subseteq Pids

LEMMA SuspendKeeps ==
    ASSUME NEW m, IsManager(m), NEW p
    PROVE  IsManager(pm_suspend_current(m, p)) /\ pm_suspend_current(m, p).procs = m.procs
BY DEF IsManager, pm_suspend_current

LEMMA AddKeeps ==
    ASSUME NEW m, IsManager(m), NEW p \in Pids, NEW q
    PROVE  IsManager(pm_add(m, p, q)) /\ pm_add(m, p, q).procs = m.procs \cup {p}
BY DEF IsManager, pm_add

LEMMA ExitKeeps ==
    ASSUME NEW m, IsManager(m), NEW p, NEW code
    PROVE  /\ IsManager(pm_exit_current(m, p, code))
           /\ pm_exit_current(m, p, code).procs = m.procs \ {p}
<1>1. IsManager(notify_parent(m, p, code)) /\ notify_parent(m, p, code).procs = m.procs
  BY DEF IsManager, notify_parent
<1>2. ASSUME NEW n, IsManager(n) PROVE IsManager(adopt(n, p)) /\ adopt(n, p).procs = n.procs
  BY <1>2 DEF IsManager, adopt
<1>3. ASSUME NEW n, IsManager(n)
      PROVE  LET r == [n EXCEPT !.procs = @ \ {p}, !.parent[p] = 0, !.children[p] = <<>>, !.dead[p] = <<>>]
             IN  IsManager(r) /\ r.procs = n.procs \ {p}
  BY <1>3 DEF IsManager
<1> QED
  BY <1>1, <1>2, <1>3 DEF pm_exit_current

LEMMA WaitKeeps ==
    ASSUME NEW m, IsManager(m), NEW p, NEW want
    PROVE  IsManager(pm_wait(m, p, want).pm) /\ pm_wait(m, p, want).pm.procs = m.procs
<1>1. ASSUME NEW d PROVE LET r == [m EXCEPT !.dead[p] = d] IN IsManager(r) /\ r.procs = m.procs
  BY DEF IsManager
<1>2. NotFound(m).pm = m /\ StillAlive(m).pm = m
  BY DEF NotFound, StillAlive, WaitResult
<1>3. IsManager(wait_any(m, p).pm) /\ wait_any(m, p).pm.procs = m.procs
  BY <1>1, <1>2 DEF wait_any, WaitResult
<1>4. IsManager(wait_for(m, p, want).pm) /\ wait_for(m, p, want).pm.procs = m.procs
  BY <1>1, <1>2 DEF wait_for, WaitResult
<1> QED
  BY <1>3, <1>4 DEF pm_wait

-----------------------------------------------------------------------------
(***************************************************************************)
(* The signal managers sm, contexts cs and saved contexts ss agree for the *)
(* processes in procs.  Between the handler of a call and the end of the   *)
(* iteration the four are values and not yet the kernel's variables.       *)
(***************************************************************************)
Tables(sm, cs, ss) == /\ sm \in [Pids -> SignalManagers]
                      /\ cs \in [Pids -> Contexts]
                      /\ ss \in [Pids -> Contexts]

Agree(procs, sm, cs, ss) == \A q \in procs :
    /\ cs[q].pc = "handler" <=> sm[q].handling = "user"
    /\ cs[q].pc = "handler" => ss[q].pc = "program"

\* The inductive invariant.
HandlerInv == /\ IsManager(pm)
              /\ g_pid_counter \in Nat
              /\ Tables(signal, ctx, saved_ctx)
              /\ Agree(pm.procs, signal, ctx, saved_ctx)

\* The manager an iteration leaves behind holds no process it was not given.
LEMMA ReturnManager ==
    ASSUME NEW p, NEW m, IsManager(m), NEW sm, NEW cs, NEW ss,
           NEW end, end.exits \in BOOLEAN, Return(p, m, sm, cs, ss, end)
    PROVE  IsManager(pm') /\ pm'.procs \subseteq m.procs
<1> DEFINE r == signal_handle(sm[p])
<1>1. \/ pm' = pm_exit_current(m, p, r.exit_code)
      \/ pm' = pm_suspend_current(m, p)
      \/ pm' = pm_exit_current(m, p, end.exit_code)
  BY DEF Return, Stopped
<1> QED
  BY <1>1, SuspendKeeps, ExitKeeps

\* Only p's entry of the contexts changes, and its pc only to enter a handler.
LEMMA ReturnContexts ==
    ASSUME NEW p, NEW m, NEW sm, NEW cs, NEW ss, NEW end, end.exits \in BOOLEAN,
           Return(p, m, sm, cs, ss, end)
    PROVE  LET r == signal_handle(sm[p])
               kept == [cs EXCEPT ![p] = IF Caught(r) THEN handler_context ELSE @]
           IN  ctx' = kept \/ ctx' = [kept EXCEPT ![p].a0 = "result"]
BY DEF Return

LEMMA ReturnKeeps ==
    ASSUME NEW p \in Pids, NEW m, IsManager(m), NEW sm, NEW cs, NEW ss, Tables(sm, cs, ss),
           Agree(m.procs, sm, cs, ss),
           NEW end, end.exits \in BOOLEAN, Return(p, m, sm, cs, ss, end)
    PROVE  /\ IsManager(pm')
           /\ Tables(signal', ctx', saved_ctx')
           /\ Agree(pm'.procs, signal', ctx', saved_ctx')
<1> DEFINE r == signal_handle(sm[p])
           kept == [cs EXCEPT ![p] = IF Caught(r) THEN handler_context ELSE @]
<1>1. IsManager(pm') /\ pm'.procs \subseteq m.procs
  BY ReturnManager
<1>2. sm[p] \in SignalManagers
  BY DEF Tables
<1>3. /\ r.sm \in SignalManagers
      /\ Caught(r) => sm[p].handling = "none" /\ r.sm.handling = "user"
      /\ ~Caught(r) => (r.sm.handling = "user" <=> sm[p].handling = "user")
  BY <1>2, HandleResult, HandleHandling DEF Caught, IsResult
<1>4. signal' = [sm EXCEPT ![p] = r.sm] /\ saved_ctx' = [ss EXCEPT ![p] = IF Caught(r) THEN cs[p] ELSE @]
  BY DEF Return
<1>5. ctx' = kept \/ ctx' = [kept EXCEPT ![p].a0 = "result"]
  BY ReturnContexts
<1> HIDE DEF r
<1>6. kept \in [Pids -> Contexts]
  BY DEF Tables, Contexts, handler_context
<1>7. ctx' \in [Pids -> Contexts] /\ \A q \in Pids : ctx'[q].pc = kept[q].pc
  BY <1>5, <1>6 DEF Contexts
<1>8. Tables(signal', ctx', saved_ctx')
  BY <1>3, <1>4, <1>7 DEF Tables
<1>9. ASSUME NEW q \in pm'.procs
      PROVE  /\ ctx'[q].pc = "handler" <=> signal'[q].handling = "user"
             /\ ctx'[q].pc = "handler" => saved_ctx'[q].pc = "program"
  <2>1. q \in Pids /\ q \in m.procs
    BY <1>1 DEF IsManager
  <2>2. /\ cs[q].pc = "handler" <=> sm[q].handling = "user"
        /\ cs[q].pc = "handler" => ss[q].pc = "program"
        /\ cs[q].pc \in {"program", "handler"}
    BY <2>1 DEF Agree, Tables, Contexts
  <2>3. CASE q # p
    BY <1>4, <1>7, <2>1, <2>2, <2>3 DEF Tables
  <2>4. CASE q = p /\ Caught(r)
    BY <1>3, <1>4, <1>7, <2>1, <2>2, <2>4 DEF Tables, handler_context
  <2>5. CASE q = p /\ ~Caught(r)
    BY <1>3, <1>4, <1>7, <2>1, <2>2, <2>5 DEF Tables
  <2> QED
    BY <2>3, <2>4, <2>5
<1> QED
  BY <1>1, <1>8, <1>9 DEF Agree

-----------------------------------------------------------------------------
(***************************************************************************)
(* The steps.                                                              *)
(***************************************************************************)
\* Programs that neither fork nor exec in a handler.
HandlersStay == "handler_calls" \notin Workload

LEMMA RunningFacts ==
    ASSUME HandlerInv, NEW p \in Pids, Runs(p)
    PROVE  /\ IsManager(Popped) /\ Popped.procs = pm.procs /\ p \in pm.procs
           /\ Trapped(p) \in Contexts /\ Trapped(p).pc = ctx[p].pc
           /\ Continues.exits \in BOOLEAN /\ \A code : Exits(code).exits \in BOOLEAN
<1>1. IsManager(Popped) /\ Popped.procs = pm.procs
  BY DEF HandlerInv, IsManager, Popped
<1>2. ctx[p] \in Contexts
  BY DEF HandlerInv, Tables
<1> QED
  BY <1>1, <1>2 DEF Runs, Trapped, Contexts, Continues, Exits

\* A call that leaves every process's handling as it is.
LEMMA CallKeeps ==
    ASSUME HandlerInv, NEW p \in Pids, Runs(p),
           NEW m, IsManager(m), m.procs = pm.procs,
           NEW sm \in [Pids -> SignalManagers], \A q \in Pids : sm[q].handling = signal[q].handling,
           NEW end, end.exits \in BOOLEAN, Call(p, m, sm, end),
           g_pid_counter' \in Nat
    PROVE  HandlerInv'
<1> DEFINE cs == [ctx EXCEPT ![p] = Trapped(p)]
<1>1. Tables(sm, cs, saved_ctx)
  BY RunningFacts DEF HandlerInv, Tables
<1>2. Agree(m.procs, sm, cs, saved_ctx)
  <2> SUFFICES ASSUME NEW q \in pm.procs
               PROVE  /\ cs[q].pc = "handler" <=> sm[q].handling = "user"
                      /\ cs[q].pc = "handler" => saved_ctx[q].pc = "program"
    BY DEF Agree
  <2>1. q \in Pids /\ cs[q].pc = ctx[q].pc
    BY RunningFacts DEF HandlerInv, Tables, IsManager
  <2> QED
    BY <2>1 DEF HandlerInv, Agree
<1>3. Return(p, m, sm, cs, saved_ctx, end)
  BY DEF Call
<1> HIDE DEF cs
<1> QED
  BY <1>1, <1>2, <1>3, ReturnKeeps DEF HandlerInv

\* The signal operations that do not touch handling.
LEMMA SignalSteps ==
    ASSUME HandlerInv, NEW p \in Pids, NEW f \in SignalManagers, f.handling = signal[p].handling
    PROVE  LET sm == [signal EXCEPT ![p] = f]
           IN  sm \in [Pids -> SignalManagers] /\ \A q \in Pids : sm[q].handling = signal[q].handling
BY DEF HandlerInv, Tables

LEMMA ForkKeeps ==
    ASSUME HandlerInv, HandlersStay, NEW p \in Pids, Fork(p)
    PROVE  HandlerInv'
<1> DEFINE c == g_pid_counter
<1>1. Runs(p) /\ ~InHandler(p) /\ g_pid_counter' \in Nat
  BY DEF Fork, Uses, HandlersStay, pid_alloc, HandlerInv
<1>2. CASE Call(p, Popped, signal, Continues)
  BY <1>1, <1>2, RunningFacts, CallKeeps DEF HandlerInv, Tables
<1>3. CASE /\ ~NoSlot(c)
           /\ Return(p, pm_add(Popped, c, p), [signal EXCEPT ![c] = signal_fork(signal[p])],
                     [ctx EXCEPT ![p] = Trapped(p), ![c] = [Trapped(p) EXCEPT !.a0 = "result"]],
                     saved_ctx, Continues)
  <2> DEFINE m == pm_add(Popped, c, p)
             sm == [signal EXCEPT ![c] = signal_fork(signal[p])]
             child == [Trapped(p) EXCEPT !.a0 = "result"]
             cs == [ctx EXCEPT ![p] = Trapped(p), ![c] = child]
  <2>1. c \in Pids
    BY <1>3, ProcSizes DEF NoSlot, Pids, HandlerInv
  <2>2. IsManager(m) /\ m.procs = pm.procs \cup {c}
    BY <1>1, <2>1, RunningFacts, AddKeeps
  <2>3. child \in Contexts /\ child.pc = "program" /\ Trapped(p).pc = "program"
    BY <1>1, RunningFacts DEF Contexts, InHandler
  <2>4. signal_fork(signal[p]) \in SignalManagers /\ signal_fork(signal[p]).handling = "none"
    <3>1. signal[p] \in SignalManagers
      BY DEF HandlerInv, Tables
    <3> QED
      BY <3>1 DEF signal_fork, SignalManagers, HandlingTypes
  <2>5. Tables(sm, cs, saved_ctx)
    BY <1>1, <2>3, <2>4, RunningFacts DEF HandlerInv, Tables
  <2>6. Agree(m.procs, sm, cs, saved_ctx)
    <3> SUFFICES ASSUME NEW q \in m.procs
                 PROVE  /\ cs[q].pc = "handler" <=> sm[q].handling = "user"
                        /\ cs[q].pc = "handler" => saved_ctx[q].pc = "program"
      BY DEF Agree
    <3>1. CASE q = c
      BY <2>1, <2>3, <2>4, <3>1 DEF HandlerInv, Tables
    <3>2. CASE q # c
      <4>1. q \in pm.procs /\ q \in Pids
        BY <2>2, <3>2 DEF HandlerInv, IsManager
      <4>2. cs[q].pc = ctx[q].pc /\ sm[q] = signal[q]
        BY <1>1, <2>1, <3>2, <4>1, RunningFacts DEF HandlerInv, Tables
      <4> QED
        BY <4>1, <4>2 DEF HandlerInv, Agree
    <3> QED
      BY <3>1, <3>2
  <2>7. Return(p, m, sm, cs, saved_ctx, Continues)
    BY <1>3
  <2>8. Continues.exits \in BOOLEAN
    BY DEF Continues
  <2> HIDE DEF m, sm, cs
  <2>9. IsManager(pm') /\ Tables(signal', ctx', saved_ctx') /\ Agree(pm'.procs, signal', ctx', saved_ctx')
    BY <2>2, <2>5, <2>6, <2>7, <2>8, ReturnKeeps
  <2> QED
    BY <1>1, <2>9 DEF HandlerInv
<1> QED
  BY <1>2, <1>3 DEF Fork

LEMMA ExecKeeps ==
    ASSUME HandlerInv, HandlersStay, NEW p \in Pids, Exec(p)
    PROVE  HandlerInv'
<1> DEFINE sm == [signal EXCEPT ![p] = signal_clear(@)]
           cs == [ctx EXCEPT ![p] = context_user]
<1>1. Runs(p) /\ ~InHandler(p) /\ g_pid_counter' \in Nat
  BY DEF Exec, Uses, HandlersStay, HandlerInv
<1>2. signal[p] \in SignalManagers
  BY DEF HandlerInv, Tables
<1>3. signal_clear(signal[p]) \in SignalManagers /\ signal_clear(signal[p]).handling = signal[p].handling
  BY <1>2, SignalOps, HandlingKept
<1>4. context_user \in Contexts /\ context_user.pc = "program"
  BY DEF context_user, Contexts
<1>5. Tables(sm, cs, saved_ctx)
  BY <1>3, <1>4 DEF HandlerInv, Tables
<1>6. Agree(pm.procs, sm, cs, saved_ctx)
  <2> SUFFICES ASSUME NEW q \in pm.procs
               PROVE  /\ cs[q].pc = "handler" <=> sm[q].handling = "user"
                      /\ cs[q].pc = "handler" => saved_ctx[q].pc = "program"
    BY DEF Agree
  <2>1. q \in Pids
    BY DEF HandlerInv, IsManager
  <2>2. cs[q].pc = ctx[q].pc
    BY <1>1, <1>4, <2>1 DEF HandlerInv, Tables, InHandler, Contexts
  <2>3. sm[q].handling = signal[q].handling
    BY <1>3, <2>1 DEF HandlerInv, Tables
  <2> QED
    BY <2>2, <2>3 DEF HandlerInv, Agree
<1>7. IsManager(Popped) /\ Popped.procs = pm.procs /\ Continues.exits \in BOOLEAN
  BY <1>1, RunningFacts
<1>8. Return(p, Popped, sm, cs, saved_ctx, Continues)
  BY DEF Exec
<1> HIDE DEF sm, cs
<1>9. IsManager(pm') /\ Tables(signal', ctx', saved_ctx') /\ Agree(pm'.procs, signal', ctx', saved_ctx')
  BY <1>5, <1>6, <1>7, <1>8, ReturnKeeps
<1> QED
  BY <1>1, <1>9 DEF HandlerInv

LEMMA SigreturnKeeps ==
    ASSUME HandlerInv, NEW p \in Pids, Sigreturn(p)
    PROVE  HandlerInv'
<1> DEFINE sm == [signal EXCEPT ![p] = signal_return(@)]
           cs == [ctx EXCEPT ![p] = restored(p)]
<1>1. Runs(p) /\ p \in pm.procs /\ g_pid_counter' \in Nat
  BY DEF Sigreturn, HandlerInv, Runs
<1>2. signal[p] \in SignalManagers /\ saved_ctx[p] \in Contexts
  BY DEF HandlerInv, Tables
<1>3. /\ signal_return(signal[p]) \in SignalManagers
      /\ signal_return(signal[p]).handling # "user"
  BY <1>2 DEF signal_return, SignalManagers, HandlingTypes
<1>4. restored(p) \in Contexts /\ restored(p).pc = "program"
  <2>1. /\ ctx[p].pc = "handler" <=> signal[p].handling = "user"
        /\ ctx[p].pc = "handler" => saved_ctx[p].pc = "program"
    BY <1>1 DEF HandlerInv, Agree
  <2>2. Trapped(p) \in Contexts /\ Trapped(p).pc = ctx[p].pc
    BY <1>1, RunningFacts
  <2> QED
    BY <1>2, <2>1, <2>2 DEF restored, Contexts
<1>5. Tables(sm, cs, saved_ctx)
  BY <1>3, <1>4 DEF HandlerInv, Tables
<1>6. Agree(pm.procs, sm, cs, saved_ctx)
  <2> SUFFICES ASSUME NEW q \in pm.procs
               PROVE  /\ cs[q].pc = "handler" <=> sm[q].handling = "user"
                      /\ cs[q].pc = "handler" => saved_ctx[q].pc = "program"
    BY DEF Agree
  <2>1. q \in Pids
    BY DEF HandlerInv, IsManager
  <2>2. CASE q = p
    BY <1>3, <1>4, <2>1, <2>2 DEF HandlerInv, Tables
  <2>3. CASE q # p
    BY <2>1, <2>3 DEF HandlerInv, Tables, Agree
  <2> QED
    BY <2>2, <2>3
<1>7. IsManager(Popped) /\ Popped.procs = pm.procs /\ Continues.exits \in BOOLEAN
  BY <1>1, RunningFacts
<1>8. Return(p, Popped, sm, cs, saved_ctx, Continues)
  BY DEF Sigreturn
<1> HIDE DEF sm, cs
<1>9. IsManager(pm') /\ Tables(signal', ctx', saved_ctx') /\ Agree(pm'.procs, signal', ctx', saved_ctx')
  BY <1>5, <1>6, <1>7, <1>8, ReturnKeeps
<1> QED
  BY <1>1, <1>9 DEF HandlerInv

\* kill, sigaction and sigprocmask.
LEMMA SignalCallsKeep ==
    ASSUME HandlerInv, NEW p \in Pids,
           \/ \E target \in Pids, s \in Signals : Kill(p, target, s)
           \/ \E s \in Signals, installs \in BOOLEAN : Sigaction(p, s, installs)
           \/ \E mask \in SUBSET Signals : Sigprocmask(p, mask)
    PROVE  HandlerInv'
<1>1. Runs(p) /\ g_pid_counter' \in Nat
  BY DEF Kill, Sigaction, Sigprocmask, HandlerInv
<1>2. \A q \in Pids : signal[q] \in SignalManagers
  BY DEF HandlerInv, Tables
<1>3. ASSUME NEW q \in Pids, NEW f \in SignalManagers, f.handling = signal[q].handling,
             Call(p, Popped, [signal EXCEPT ![q] = f], Continues)
      PROVE  HandlerInv'
  <2> DEFINE sm == [signal EXCEPT ![q] = f]
  <2>1. sm \in [Pids -> SignalManagers] /\ \A o \in Pids : sm[o].handling = signal[o].handling
    BY <1>3, SignalSteps
  <2>2. Call(p, Popped, sm, Continues)
    BY <1>3
  <2> HIDE DEF sm
  <2> QED
    BY <1>1, <2>1, <2>2, RunningFacts, CallKeeps
<1>4. Signals \subseteq SignalNumbers
  BY Kernel7Assumption
<1>5. ASSUME NEW target \in Pids, NEW s \in Signals, Kill(p, target, s)
      PROVE  HandlerInv'
  <2>1. CASE target \in pm.procs
    <3>1. signal[target] \in SignalManagers /\ s \in SignalNumbers
      BY <1>2, <1>4
    <3>2. signal_add(signal[target], s) \in SignalManagers
      BY <3>1, SignalOps
    <3>3. signal_add(signal[target], s).handling = signal[target].handling
      BY <3>1, HandlingKept
    <3> QED
      BY <1>3, <1>5, <2>1, <3>2, <3>3 DEF Kill
  <2>2. CASE target \notin pm.procs
    BY <1>1, <1>5, <2>2, RunningFacts, CallKeeps DEF Kill, HandlerInv, Tables
  <2> QED
    BY <2>1, <2>2
<1>6. ASSUME NEW s \in Signals, NEW installs \in BOOLEAN, Sigaction(p, s, installs)
      PROVE  HandlerInv'
  <2>1. signal[p] \in SignalManagers /\ s \in SignalNumbers
    BY <1>2, <1>4
  <2>2. signal_set_action(signal[p], s, installs) \in SignalManagers
    BY <2>1, SignalOps
  <2>3. signal_set_action(signal[p], s, installs).handling = signal[p].handling
    BY <2>1, HandlingKept
  <2> QED
    BY <1>3, <1>6, <2>2, <2>3 DEF Sigaction
<1>7. ASSUME NEW mask \in SUBSET Signals, Sigprocmask(p, mask)
      PROVE  HandlerInv'
  <2>1. signal[p] \in SignalManagers /\ mask \in SUBSET SignalNumbers
    BY <1>2, <1>4
  <2>2. signal_update_mask(signal[p], mask) \in SignalManagers
    BY <2>1, SignalOps
  <2>3. signal_update_mask(signal[p], mask).handling = signal[p].handling
    BY <2>1, HandlingKept
  <2> QED
    BY <1>3, <1>7, <2>2, <2>3 DEF Sigprocmask
<1> QED
  BY <1>5, <1>6, <1>7

\* The calls that touch no signal manager, and faults.
LEMMA OtherCallsKeep ==
    ASSUME HandlerInv, NEW p \in Pids,
           \/ Plain(p) \/ Unsupported(p) \/ Exception(p)
           \/ \E want \in Pids \cup {PID_INVALID} : Waitpid(p, want)
           \/ \E code \in ExitCodes : Exit(p, code)
    PROVE  HandlerInv'
<1>1. Runs(p) /\ g_pid_counter' \in Nat
  BY DEF Plain, Unsupported, Exception, Waitpid, Exit, HandlerInv
<1>2. ASSUME NEW m, IsManager(m), m.procs = pm.procs, NEW end, end.exits \in BOOLEAN, Call(p, m, signal, end)
      PROVE  HandlerInv'
  BY <1>1, <1>2, CallKeeps DEF HandlerInv, Tables
<1>3. IsManager(Popped) /\ Popped.procs = pm.procs
  BY <1>1, RunningFacts
<1>4. ASSUME Plain(p) \/ Unsupported(p) \/ \E code \in ExitCodes : Exit(p, code)
      PROVE  HandlerInv'
  BY <1>1, <1>2, <1>3, <1>4, RunningFacts DEF Plain, Unsupported, Exit
<1>5. ASSUME NEW want, Waitpid(p, want)
      PROVE  HandlerInv'
  BY <1>2, <1>3, <1>5, WaitKeeps, RunningFacts, <1>1 DEF Waitpid
<1>6. ASSUME Exception(p) PROVE HandlerInv'
  <2>1. IsManager(pm') /\ pm'.procs \subseteq pm.procs
    BY <1>3, <1>6, ExitKeeps DEF Exception
  <2> QED
    BY <1>6, <2>1 DEF Exception, HandlerInv, Tables, Agree
<1> QED
  BY <1>4, <1>5, <1>6

LEMMA HandlerInit == Init => HandlerInv
<1> SUFFICES ASSUME Init PROVE HandlerInv
  OBVIOUS
<1>1. IsManager(pm_init) /\ pm_init.procs = {}
  BY DEF IsManager, pm_init
<1>2. 0 \in Pids
  BY ProcSizes DEF Pids
<1>3. IsManager(pm)
  BY <1>1, <1>2, AddKeeps DEF Init
<1>4. signal_init \in SignalManagers /\ signal_init.handling = "none"
  BY DEF signal_init, SignalManagers, HandlingTypes
<1>5. context_user \in Contexts /\ context_user.pc = "program"
  BY DEF context_user, Contexts
<1>6. Tables(signal, ctx, saved_ctx)
  BY <1>4, <1>5 DEF Init, Tables
<1>7. Agree(pm.procs, signal, ctx, saved_ctx)
  BY <1>3, <1>4, <1>5 DEF Init, Agree, IsManager
<1> QED
  BY <1>3, <1>6, <1>7 DEF Init, HandlerInv

LEMMA HandlerNext == HandlersStay /\ HandlerInv /\ [Next]_vars => HandlerInv'
<1> SUFFICES ASSUME HandlersStay, HandlerInv, [Next]_vars PROVE HandlerInv'
  OBVIOUS
<1>1. ASSUME NEW p \in Pids, Process(p) PROVE HandlerInv'
  BY <1>1, ForkKeeps, ExecKeeps, SigreturnKeeps, SignalCallsKeep, OtherCallsKeep DEF Process
<1>2. CASE UNCHANGED vars
  BY <1>2 DEF vars, HandlerInv, Tables, Agree
<1> QED
  BY <1>1, <1>2 DEF Next

\* signal_handle, signal_return, fork, exec through main's loop: while no program
\* forks or execs in a handler, a process runs a handler exactly while its
\* manager says so, and what sigreturn will bring back is its program.
THEOREM KernelHandlerContext == ASSUME HandlersStay PROVE Spec => []HandlerContext
<1>1. HandlerInv => HandlerContext
  BY DEF HandlerInv, Agree, HandlerContext, InHandler
<1>2. Init => HandlerInv
  BY HandlerInit
<1>3. HandlerInv /\ [Next]_vars => HandlerInv'
  BY HandlerNext
<1> QED
  BY <1>1, <1>2, <1>3, PTL DEF Spec

-----------------------------------------------------------------------------
(***************************************************************************)
(* Lists.  What the manager's list operations do to the set of elements.   *)
(***************************************************************************)
LEMMA SeqSet ==
    ASSUME NEW S, NEW s \in Seq(S)
    PROVE  /\ Len(s) \in Nat /\ DOMAIN s = 1 .. Len(s)
           /\ ToSet(s) \subseteq S
           /\ \A x : x \in ToSet(s) <=> \E i \in 1 .. Len(s) : s[i] = x
           /\ \A x : Contains(s, x) <=> x \in ToSet(s)
           /\ IsInjective(s) <=> \A i, j \in 1 .. Len(s) : s[i] = s[j] => i = j
<1>1. Len(s) \in Nat /\ DOMAIN s = 1 .. Len(s) /\ \A i \in 1 .. Len(s) : s[i] \in S
  BY LenProperties
<1> QED
  BY <1>1 DEF ToSet, Contains, IsInjective

LEMMA AppendSet ==
    ASSUME NEW S, NEW s \in Seq(S), NEW x \in S
    PROVE  /\ Append(s, x) \in Seq(S) /\ Len(Append(s, x)) = Len(s) + 1
           /\ ToSet(Append(s, x)) = ToSet(s) \cup {x}
           /\ IsInjective(s) /\ x \notin ToSet(s) => IsInjective(Append(s, x))
<1> DEFINE a == Append(s, x)  n == Len(s)
<1>1. n \in Nat /\ a \in Seq(S) /\ Len(a) = n + 1 /\ a[n + 1] = x /\ \A i \in 1 .. n : a[i] = s[i]
  BY AppendProperties, LenProperties
<1>2. \A i : i \in 1 .. n + 1 <=> i \in 1 .. n \/ i = n + 1
  BY <1>1
<1> HIDE DEF a
<1>3. /\ \A y : y \in ToSet(a) <=> \E i \in 1 .. n + 1 : a[i] = y
      /\ \A y : y \in ToSet(s) <=> \E i \in 1 .. n : s[i] = y
      /\ IsInjective(a) <=> \A i, j \in 1 .. n + 1 : a[i] = a[j] => i = j
      /\ IsInjective(s) <=> \A i, j \in 1 .. n : s[i] = s[j] => i = j
  <2>1. /\ \A y : y \in ToSet(a) <=> \E i \in 1 .. Len(a) : a[i] = y
        /\ IsInjective(a) <=> \A i, j \in 1 .. Len(a) : a[i] = a[j] => i = j
    BY <1>1, SeqSet
  <2>2. /\ \A y : y \in ToSet(s) <=> \E i \in 1 .. Len(s) : s[i] = y
        /\ IsInjective(s) <=> \A i, j \in 1 .. Len(s) : s[i] = s[j] => i = j
    BY SeqSet
  <2> QED
    BY <1>1, <2>1, <2>2
<1> HIDE DEF n
<1>4. ToSet(a) = ToSet(s) \cup {x}
  <2>1. \A y : y \in ToSet(a) <=> y \in ToSet(s) \/ y = x
    BY <1>1, <1>2, <1>3
  <2> QED
    BY <2>1
<1>5. ASSUME IsInjective(s), x \notin ToSet(s) PROVE IsInjective(a)
  BY <1>1, <1>2, <1>3, <1>5
<1> QED
  BY <1>1, <1>4, <1>5 DEF a, n

LEMMA TailSet ==
    ASSUME NEW S, NEW s \in Seq(S), s # <<>>
    PROVE  /\ Tail(s) \in Seq(S) /\ Len(Tail(s)) = Len(s) - 1 /\ Head(s) \in ToSet(s)
           /\ IsInjective(s) => /\ IsInjective(Tail(s))
                                /\ ToSet(Tail(s)) = ToSet(s) \ {Head(s)}
<1> DEFINE t == Tail(s)  n == Len(s)
<1>1. /\ n \in Nat \ {0} /\ t \in Seq(S) /\ Len(t) = n - 1 /\ Head(s) = s[1]
      /\ \A i \in 1 .. n - 1 : t[i] = s[i + 1]
  BY HeadTailProperties, EmptySeq
<1> HIDE DEF t
<1>2. /\ \A y : y \in ToSet(t) <=> \E i \in 1 .. n - 1 : t[i] = y
      /\ \A y : y \in ToSet(s) <=> \E i \in 1 .. n : s[i] = y
      /\ IsInjective(t) <=> \A i, j \in 1 .. n - 1 : t[i] = t[j] => i = j
      /\ IsInjective(s) <=> \A i, j \in 1 .. n : s[i] = s[j] => i = j
  <2>1. /\ \A y : y \in ToSet(t) <=> \E i \in 1 .. Len(t) : t[i] = y
        /\ IsInjective(t) <=> \A i, j \in 1 .. Len(t) : t[i] = t[j] => i = j
    BY <1>1, SeqSet
  <2>2. /\ \A y : y \in ToSet(s) <=> \E i \in 1 .. Len(s) : s[i] = y
        /\ IsInjective(s) <=> \A i, j \in 1 .. Len(s) : s[i] = s[j] => i = j
    BY SeqSet
  <2> QED
    BY <1>1, <2>1, <2>2
<1> HIDE DEF n
<1>3. Head(s) \in ToSet(s)
  BY <1>1, <1>2
<1>4. ASSUME IsInjective(s) PROVE IsInjective(t) /\ ToSet(t) = ToSet(s) \ {Head(s)}
  <2>1. \A i \in 1 .. n - 1 : i + 1 \in 1 .. n /\ i + 1 # 1
    BY <1>1
  <2>2. IsInjective(t)
    BY <1>1, <1>2, <1>4, <2>1
  <2>3. \A i \in 1 .. n : i = 1 \/ (i - 1 \in 1 .. n - 1 /\ (i - 1) + 1 = i)
    BY <1>1
  <2>4. \A y : y \in ToSet(t) <=> y \in ToSet(s) /\ y # s[1]
    <3>1. ASSUME NEW y \in ToSet(t) PROVE y \in ToSet(s) /\ y # s[1]
      <4>1. PICK i \in 1 .. n - 1 : t[i] = y
        BY <1>2, <3>1
      <4>2. s[i + 1] = y /\ i + 1 \in 1 .. n /\ i + 1 # 1 /\ 1 \in 1 .. n
        BY <1>1, <2>1, <4>1
      <4> QED
        BY <1>2, <1>4, <4>2
    <3>2. ASSUME NEW y \in ToSet(s), y # s[1] PROVE y \in ToSet(t)
      <4>1. PICK i \in 1 .. n : s[i] = y
        BY <1>2, <3>2
      <4>2. i - 1 \in 1 .. n - 1 /\ (i - 1) + 1 = i
        BY <2>3, <3>2, <4>1
      <4>3. t[i - 1] = y
        BY <1>1, <4>1, <4>2
      <4> QED
        BY <1>2, <4>2, <4>3
    <3> QED
      BY <3>1, <3>2
  <2> QED
    BY <1>1, <2>2, <2>4
<1> QED
  BY <1>1, <1>3, <1>4 DEF t, n

\* A list without its i-th element.
LEMMA RemoveAtSeq ==
    ASSUME NEW S, NEW s \in Seq(S), NEW i \in 1 .. Len(s)
    PROVE  LET r == RemoveAt(s, i)
           IN  /\ r \in Seq(S) /\ Len(r) = Len(s) - 1
               /\ \A k \in 1 .. Len(s) - 1 : r[k] = IF k < i THEN s[k] ELSE s[k + 1]
<1> DEFINE n == Len(s)  a == SubSeq(s, 1, i - 1)  b == SubSeq(s, i + 1, n)  r == RemoveAt(s, i)
<1>1. n \in Nat /\ i \in Int /\ 1 <= i /\ i <= n /\ \A k \in 1 .. n : s[k] \in S
  BY LenProperties
<1>2. a \in Seq(S) /\ Len(a) = i - 1 /\ \A k \in 1 .. i - 1 : a[k] = s[k]
  <2>1. \A k \in 1 .. i - 1 : s[k] \in S
    BY <1>1
  <2>2. 1 \in Int /\ i - 1 \in Int
    BY <1>1
  <2>3. /\ a \in Seq(S) /\ Len(a) = IF 1 <= i - 1 THEN (i - 1) - 1 + 1 ELSE 0
        /\ \A k \in 1 .. (i - 1) - 1 + 1 : a[k] = s[1 + k - 1]
    BY <2>1, <2>2, SubSeqProperties
  <2> HIDE DEF a
  <2> QED
    BY <1>1, <2>3
<1>3. b \in Seq(S) /\ Len(b) = n - i /\ \A k \in 1 .. n - i : b[k] = s[k + i]
  <2>1. \A k \in i + 1 .. n : s[k] \in S
    BY <1>1
  <2>2. i + 1 \in Int /\ n \in Int
    BY <1>1
  <2>3. /\ b \in Seq(S) /\ Len(b) = IF i + 1 <= n THEN n - (i + 1) + 1 ELSE 0
        /\ \A k \in 1 .. n - (i + 1) + 1 : b[k] = s[i + 1 + k - 1]
    BY <2>1, <2>2, SubSeqProperties
  <2> HIDE DEF b
  <2> QED
    BY <1>1, <2>3
<1>4. r = a \o b
  BY DEF RemoveAt
<1> HIDE DEF a, b, r, n
<1>5. /\ r \in Seq(S) /\ Len(r) = (i - 1) + (n - i)
      /\ \A k \in 1 .. (i - 1) + (n - i) : r[k] = IF k <= i - 1 THEN a[k] ELSE b[k - (i - 1)]
  BY <1>2, <1>3, <1>4, ConcatProperties
<1>6. (i - 1) + (n - i) = n - 1
  BY <1>1
<1>7. ASSUME NEW k \in 1 .. n - 1 PROVE r[k] = IF k < i THEN s[k] ELSE s[k + 1]
  <2>1. CASE k < i
    BY <1>1, <1>2, <1>5, <1>6, <2>1
  <2>2. CASE ~(k < i)
    <3>1. k - (i - 1) \in 1 .. n - i /\ (k - (i - 1)) + i = k + 1 /\ ~(k <= i - 1)
      BY <1>1, <2>2
    <3> QED
      BY <1>3, <1>5, <1>6, <2>2, <3>1
  <2> QED
    BY <2>1, <2>2
<1> QED
  BY <1>5, <1>6, <1>7 DEF r, n

\* Without the i-th element, of a list without repetition.
LEMMA RemoveAtSet ==
    ASSUME NEW S, NEW s \in Seq(S), NEW i \in 1 .. Len(s), IsInjective(s)
    PROVE  IsInjective(RemoveAt(s, i)) /\ ToSet(RemoveAt(s, i)) = ToSet(s) \ {s[i]}
<1> DEFINE r == RemoveAt(s, i)  n == Len(s)
           old(k) == IF k < i THEN k ELSE k + 1
           new(k) == IF k < i THEN k ELSE k - 1
<1>1. n \in Nat /\ i \in 1 .. n
  BY LenProperties
<1>2. /\ r \in Seq(S) /\ Len(r) = n - 1
      /\ \A k \in 1 .. n - 1 : r[k] = IF k < i THEN s[k] ELSE s[k + 1]
  BY RemoveAtSeq
<1> HIDE DEF r
<1>3. /\ \A y : y \in ToSet(r) <=> \E k \in 1 .. n - 1 : r[k] = y
      /\ \A y : y \in ToSet(s) <=> \E k \in 1 .. n : s[k] = y
      /\ IsInjective(r) <=> \A k, j \in 1 .. n - 1 : r[k] = r[j] => k = j
      /\ \A k, j \in 1 .. n : s[k] = s[j] => k = j
  <2>1. /\ \A y : y \in ToSet(r) <=> \E k \in 1 .. Len(r) : r[k] = y
        /\ IsInjective(r) <=> \A k, j \in 1 .. Len(r) : r[k] = r[j] => k = j
    BY <1>2, SeqSet
  <2>2. /\ \A y : y \in ToSet(s) <=> \E k \in 1 .. Len(s) : s[k] = y
        /\ \A k, j \in 1 .. Len(s) : s[k] = s[j] => k = j
    BY SeqSet
  <2> QED
    BY <1>2, <2>1, <2>2
<1> HIDE DEF n
<1>4. \A k \in 1 .. n - 1 : old(k) \in 1 .. n /\ old(k) # i /\ r[k] = s[old(k)]
  BY <1>1, <1>2
<1>5. \A k \in 1 .. n : k # i => new(k) \in 1 .. n - 1 /\ old(new(k)) = k
  BY <1>1
<1>6. \A k, j \in 1 .. n - 1 : old(k) = old(j) => k = j
  BY <1>1
<1> HIDE DEF old, new
<1>7. IsInjective(r)
  BY <1>3, <1>4, <1>6
<1>8. \A y : y \in ToSet(r) <=> y \in ToSet(s) /\ y # s[i]
  <2>1. ASSUME NEW y \in ToSet(r) PROVE y \in ToSet(s) /\ y # s[i]
    BY <1>1, <1>3, <1>4, <2>1
  <2>2. ASSUME NEW y \in ToSet(s), y # s[i] PROVE y \in ToSet(r)
    <3>1. PICK k \in 1 .. n : s[k] = y
      BY <1>3, <2>2
    <3>2. new(k) \in 1 .. n - 1 /\ r[new(k)] = y
      BY <1>4, <1>5, <2>2, <3>1
    <3> QED
      BY <1>3, <3>2
  <2> QED
    BY <2>1, <2>2
<1> QED
  BY <1>7, <1>8 DEF r

\* The place SelectInSeq finds.
LEMMA LeastPlace ==
    ASSUME NEW S, NEW s \in Seq(S), NEW I \in SUBSET (1 .. Len(s)), I # {}
    PROVE  Min(I) \in I
<1>1. I \subseteq Nat
  BY LenProperties
<1>2. \E m \in I : \A n \in I : m <= n
  BY <1>1, LeastElement
<1> QED
  BY <1>2 DEF Min

LEMMA RemoveFirstSet ==
    ASSUME NEW S, NEW s \in Seq(S), NEW x, IsInjective(s)
    PROVE  LET r == RemoveFirst(s, x)
           IN  r \in Seq(S) /\ IsInjective(r) /\ ToSet(r) = ToSet(s) \ {x}
<1> DEFINE r == RemoveFirst(s, x)
           I == {i \in 1 .. Len(s) : s[i] = x}
<1>1. CASE I = {}
  <2>1. r = s
    BY <1>1 DEF RemoveFirst
  <2>2. x \notin ToSet(s)
    BY <1>1, SeqSet
  <2> QED
    BY <2>1, <2>2
<1>2. CASE I # {}
  <2>1. r = RemoveAt(s, Min(I))
    BY <1>2 DEF RemoveFirst, SelectInSeq
  <2>2. Min(I) \in I
    BY <1>2, LeastPlace
  <2>3. Min(I) \in 1 .. Len(s) /\ s[Min(I)] = x
    BY <2>2
  <2> HIDE DEF I, r
  <2> DEFINE i == Min(I)
  <2> HIDE DEF i
  <2>4. i \in 1 .. Len(s) /\ s[i] = x /\ r = RemoveAt(s, i)
    BY <2>1, <2>3 DEF i
  <2> QED
    BY <2>4, RemoveAtSeq, RemoveAtSet DEF r
<1> QED
  BY <1>1, <1>2

\* Two lists with nothing in common, cut to the places there are.
LEMMA TruncatedSet ==
    ASSUME NEW S, NEW s \in Seq(S), NEW t \in Seq(S)
    PROVE  LET r == Truncated(s \o t)
           IN  /\ r \in Seq(S)
               /\ ToSet(r) \subseteq ToSet(s) \cup ToSet(t)
               /\ Len(s) + Len(t) <= MAX_CHILDREN => ToSet(r) = ToSet(s) \cup ToSet(t)
               /\ IsInjective(s) /\ IsInjective(t) /\ ToSet(s) \cap ToSet(t) = {} => IsInjective(r)
<1> DEFINE c == s \o t  m == Len(s)  n == Len(t)
           k == IF m + n < MAX_CHILDREN THEN m + n ELSE MAX_CHILDREN
           r == Truncated(c)
<1>1. m \in Nat /\ n \in Nat /\ MAX_CHILDREN \in Nat
  BY LenProperties, ProcSizes
<1>2. /\ c \in Seq(S) /\ Len(c) = m + n
      /\ \A i \in 1 .. m + n : c[i] = IF i <= m THEN s[i] ELSE t[i - m]
  BY ConcatProperties
<1>3. r = SubSeq(c, 1, k)
  BY <1>2 DEF Truncated
<1> HIDE DEF c, r
<1>4. /\ k \in Nat /\ k <= m + n /\ (m + n <= MAX_CHILDREN => k = m + n)
      /\ \A i \in 1 .. k : i \in 1 .. m + n
  BY <1>1
<1> HIDE DEF k
<1>5. r \in Seq(S) /\ Len(r) = k /\ \A i \in 1 .. k : r[i] = c[i]
  <2>1. \A i \in 1 .. k : c[i] \in S
    BY <1>2, <1>4, ElementOfSeq
  <2>2. 1 \in Int /\ k \in Int
    BY <1>4
  <2>3. /\ r \in Seq(S) /\ Len(r) = IF 1 <= k THEN k - 1 + 1 ELSE 0
        /\ \A i \in 1 .. k - 1 + 1 : r[i] = c[1 + i - 1]
    BY <1>3, <2>1, <2>2, SubSeqProperties
  <2> QED
    BY <1>4, <2>3
<1>6. /\ \A y : y \in ToSet(r) <=> \E i \in 1 .. k : r[i] = y
      /\ IsInjective(r) <=> \A i, j \in 1 .. k : r[i] = r[j] => i = j
  <2>1. /\ \A y : y \in ToSet(r) <=> \E i \in 1 .. Len(r) : r[i] = y
        /\ IsInjective(r) <=> \A i, j \in 1 .. Len(r) : r[i] = r[j] => i = j
    BY <1>5, SeqSet
  <2> QED
    BY <1>5, <2>1
<1>7. /\ \A y : y \in ToSet(s) <=> \E i \in 1 .. m : s[i] = y
      /\ \A y : y \in ToSet(t) <=> \E i \in 1 .. n : t[i] = y
      /\ IsInjective(s) <=> \A i, j \in 1 .. m : s[i] = s[j] => i = j
      /\ IsInjective(t) <=> \A i, j \in 1 .. n : t[i] = t[j] => i = j
  BY SeqSet
<1> HIDE DEF m, n
<1>8. \A i \in 1 .. k : \/ i \in 1 .. m /\ r[i] = s[i] /\ r[i] \in ToSet(s)
                        \/ i - m \in 1 .. n /\ r[i] = t[i - m] /\ r[i] \in ToSet(t) /\ i > m
  <2> SUFFICES ASSUME NEW i \in 1 .. k
               PROVE  \/ i \in 1 .. m /\ r[i] = s[i] /\ r[i] \in ToSet(s)
                      \/ i - m \in 1 .. n /\ r[i] = t[i - m] /\ r[i] \in ToSet(t) /\ i > m
    OBVIOUS
  <2>1. r[i] = IF i <= m THEN s[i] ELSE t[i - m]
    BY <1>2, <1>4, <1>5
  <2>2. CASE i <= m
    <3>1. i \in 1 .. m /\ r[i] = s[i]
      BY <1>1, <1>4, <2>1, <2>2
    <3> QED
      BY <1>7, <3>1
  <2>3. CASE ~(i <= m)
    <3>1. i - m \in 1 .. n /\ i > m /\ r[i] = t[i - m]
      BY <1>1, <1>4, <2>1, <2>3
    <3> QED
      BY <1>7, <3>1
  <2> QED
    BY <2>2, <2>3
<1>9. ToSet(r) \subseteq ToSet(s) \cup ToSet(t)
  BY <1>6, <1>8
<1>10. ASSUME m + n <= MAX_CHILDREN PROVE ToSet(s) \cup ToSet(t) \subseteq ToSet(r)
  <2>1. k = m + n
    BY <1>4, <1>10
  <2>2. ASSUME NEW y \in ToSet(s) PROVE y \in ToSet(r)
    <3>1. PICK i \in 1 .. m : s[i] = y
      BY <1>7, <2>2
    <3>2. i \in 1 .. k /\ i <= m
      BY <1>1, <2>1
    <3> QED
      BY <1>2, <1>5, <1>6, <2>1, <3>1, <3>2
  <2>3. ASSUME NEW y \in ToSet(t) PROVE y \in ToSet(r)
    <3>1. PICK i \in 1 .. n : t[i] = y
      BY <1>7, <2>3
    <3>2. i + m \in 1 .. k /\ ~(i + m <= m) /\ (i + m) - m = i
      BY <1>1, <2>1
    <3>3. r[i + m] = y
      BY <1>2, <1>5, <2>1, <3>1, <3>2
    <3> QED
      BY <1>6, <3>2, <3>3
  <2> QED
    BY <2>2, <2>3
<1>11. ASSUME IsInjective(s), IsInjective(t), ToSet(s) \cap ToSet(t) = {} PROVE IsInjective(r)
  <2> SUFFICES ASSUME NEW i \in 1 .. k, NEW j \in 1 .. k, r[i] = r[j] PROVE i = j
    BY <1>6
  <2>1. i \in Int /\ j \in Int
    BY <1>4
  <2>2. CASE i \in 1 .. m /\ r[i] = s[i] /\ r[i] \in ToSet(s)
    <3>1. j \in 1 .. m /\ r[j] = s[j]
      BY <1>8, <1>11, <2>2
    <3> QED
      BY <1>7, <1>11, <2>2, <3>1
  <2>3. CASE i - m \in 1 .. n /\ r[i] = t[i - m] /\ r[i] \in ToSet(t)
    <3>1. j - m \in 1 .. n /\ r[j] = t[j - m]
      BY <1>8, <1>11, <2>3
    <3>2. i - m = j - m
      BY <1>7, <1>11, <2>3, <3>1
    <3> QED
      BY <1>1, <2>1, <3>2
  <2> QED
    BY <1>8, <2>2, <2>3
<1> QED
  BY <1>5, <1>9, <1>10, <1>11 DEF r, c, m, n

\* A numbering without repetition is not longer than the set it numbers.
LEMMA InjectiveIsShort ==
    ASSUME NEW T, IsFiniteSet(T), NEW n \in Nat, NEW f \in [1 .. n -> T],
           \A i, j \in 1 .. n : f[i] = f[j] => i = j
    PROVE  n <= Cardinality(T)
<1>1. IsFiniteSet(1 .. n) /\ Cardinality(1 .. n) = n
  <2> DEFINE one == 1
  <2> HIDE DEF one
  <2>1. one \in Int /\ n \in Int
    BY DEF one
  <2>2. /\ IsFiniteSet(one .. n)
        /\ Cardinality(one .. n) = IF one > n THEN 0 ELSE n - one + 1
    BY <2>1, FS_Interval, Zenon
  <2> QED
    BY <2>2 DEF one
<1>2. ~\E i, j \in 1 .. n : i # j /\ f[i] = f[j]
  OBVIOUS
<1>3. Cardinality(T) \in Nat
  BY FS_CardinalityType
<1> QED
  BY <1>1, <1>2, <1>3, FS_PigeonHole

-----------------------------------------------------------------------------
(***************************************************************************)
(* What the operations of the manager leave in each field, and that a      *)
(* manager stays a manager.                                                *)
(***************************************************************************)
ManagerOK(m) == m \in Managers /\ Len(m.ready) < MAX_PROCS

LEMMA PushType ==
    ASSUME NEW rq \in Seq(Pids), Len(rq) < MAX_PROCS, NEW p \in Pids
    PROVE  queue_push(rq, p) \in Seq(Pids) /\ Len(queue_push(rq, p)) < MAX_PROCS
<1>1. Len(rq) \in Nat /\ Append(rq, p) \in Seq(Pids) /\ Len(Append(rq, p)) = Len(rq) + 1
  BY AppendSet, LenProperties
<1>2. <<>> \in Seq(Pids) /\ Len(<<>>) = 0
  BY EmptySeq
<1> QED
  BY <1>1, <1>2, ProcSizes DEF queue_push

LEMMA BoundedType ==
    ASSUME NEW S, NEW s \in Seq(S), NEW x \in S
    PROVE  bounded(s, x) \in Seq(S)
BY AppendSet DEF bounded

\* p's parent knows p as its child.
Told(m, p) == m.parent[p] \in Pids /\ p \in ToSet(m.children[m.parent[p]])

\* The lists of children and zombies once p's parent has been told.
ToldChildren(m, p) ==
    IF Told(m, p) THEN [m.children EXCEPT ![m.parent[p]] = RemoveFirst(@, p)] ELSE m.children
ToldDead(m, p, code) ==
    IF Told(m, p) THEN [m.dead EXCEPT ![m.parent[p]] = bounded(@, [pid |-> p, exit_code |-> code])]
    ELSE m.dead

\* m has the fields of a manager, whatever is in them.
IsRecord(m) == m \in [procs : {m.procs}, parent : {m.parent}, children : {m.children},
                      dead : {m.dead}, ready : {m.ready}]

\* n is m after c has been added as a child of q.
Added(m, c, q, n) == /\ IsRecord(n)
                     /\ n.procs = m.procs \cup {c}
                     /\ n.parent = [m.parent EXCEPT ![c] = q]
                     /\ n.children = [x \in Pids |-> IF x = c THEN <<>>
                                                     ELSE IF x = q THEN bounded(m.children[x], c)
                                                     ELSE m.children[x]]
                     /\ n.dead = [m.dead EXCEPT ![c] = <<>>]
                     /\ n.ready = queue_push(m.ready, c)

\* n is m after p has exited.
Exited(m, p, code, n) ==
    LET ch == ToldChildren(m, p)
    IN  /\ IsRecord(n)
        /\ n.procs = m.procs \ {p}
        /\ n.parent = [c \in Pids |-> IF c = p \/ Contains(ch[p], c) THEN 0 ELSE m.parent[c]]
        /\ n.children = [x \in Pids |-> IF x = p THEN <<>>
                                        ELSE IF x = 0 THEN Truncated(ch[0] \o ch[p])
                                        ELSE ch[x]]
        /\ n.dead = [x \in Pids |-> IF x = p THEN <<>> ELSE ToldDead(m, p, code)[x]]
        /\ n.ready = m.ready

LEMMA AddFields ==
    ASSUME NEW m \in Managers, NEW c \in Pids, NEW q
    PROVE  Added(m, c, q, pm_add(m, c, q))
<1>1. IsRecord(pm_add(m, c, q))
  BY DEF pm_add, Managers, IsRecord
<1> QED
  BY <1>1 DEF pm_add, Managers, Added

LEMMA ToldTypes ==
    ASSUME NEW m \in Managers, NEW p \in Pids, NEW code \in Int
    PROVE  /\ ToldChildren(m, p) \in [Pids -> Seq(Pids)]
           /\ ToldDead(m, p, code) \in [Pids -> Seq(Zombie)]
<1>1. m.children \in [Pids -> Seq(Pids)] /\ m.dead \in [Pids -> Seq(Zombie)]
  BY DEF Managers
<1>2. [pid |-> p, exit_code |-> code] \in Zombie
  BY DEF Zombie
<1>3. ASSUME NEW s \in Seq(Pids) PROVE RemoveFirst(s, p) \in Seq(Pids)
  <2> DEFINE I == {i \in 1 .. Len(s) : s[i] = p}
  <2>1. CASE I = {}
    BY <2>1 DEF RemoveFirst
  <2>2. CASE I # {}
    <3>1. Min(I) \in I
      BY <2>2, LeastPlace
    <3>2. Min(I) \in 1 .. Len(s)
      BY <3>1
    <3>3. RemoveFirst(s, p) = RemoveAt(s, Min(I))
      BY <2>2 DEF RemoveFirst, SelectInSeq
    <3> QED
      BY <3>2, <3>3, RemoveAtSeq
  <2> QED
    BY <2>1, <2>2
<1>4. \A s \in Seq(Zombie) : bounded(s, [pid |-> p, exit_code |-> code]) \in Seq(Zombie)
  BY <1>2, BoundedType
<1> QED
  BY <1>1, <1>3, <1>4 DEF ToldChildren, ToldDead, Told

LEMMA ExitFields ==
    ASSUME NEW m \in Managers, NEW p \in Pids, NEW code \in Int
    PROVE  Exited(m, p, code, pm_exit_current(m, p, code))
<1> DEFINE k == notify_parent(m, p, code)
           ch == ToldChildren(m, p)
           a == adopt(k, p)
           q == m.parent[p]
           dd == ToldDead(m, p, code)
<1>1. /\ q \in Pids \cup {PID_INVALID} /\ m.children \in [Pids -> Seq(Pids)]
      /\ m.dead \in [Pids -> Seq(Zombie)]
  BY DEF Managers
<1>2. PID_INVALID \notin Pids
  BY DEF PID_INVALID, Pids
<1>3. Told(m, p) <=> q # PID_INVALID /\ Contains(m.children[q], p)
  <2>1. CASE q = PID_INVALID
    BY <1>2, <2>1 DEF Told
  <2>2. CASE q \in Pids
    <3>1. m.children[q] \in Seq(Pids)
      BY <1>1, <2>2
    <3>2. Contains(m.children[q], p) <=> p \in ToSet(m.children[q])
      BY <3>1, SeqSet
    <3> QED
      BY <1>2, <2>2, <3>2 DEF Told
  <2> QED
    BY <1>1, <2>1, <2>2
<1>4. k = [procs |-> m.procs, parent |-> m.parent, children |-> ch,
           dead |-> ToldDead(m, p, code), ready |-> m.ready]
  <2>1. CASE Told(m, p)
    BY <1>3, <2>1 DEF notify_parent, ToldChildren, ToldDead, Managers
  <2>2. CASE ~Told(m, p)
    BY <1>3, <2>2 DEF notify_parent, ToldChildren, ToldDead, Managers
  <2> QED
    BY <2>1, <2>2
<1> HIDE DEF k, ch
<1> DEFINE b == [procs |-> m.procs,
                 parent |-> [c \in Pids |-> IF Contains(ch[p], c) THEN 0 ELSE m.parent[c]],
                 children |-> [ch EXCEPT ![0] = Truncated(@ \o ch[p])],
                 dead |-> ToldDead(m, p, code), ready |-> m.ready]
<1>5. a = b
  <2>1. k.children = ch /\ k.parent = m.parent
    BY <1>4
  <2>2. a = [k EXCEPT !.parent = [c \in Pids |-> IF Contains(ch[p], c) THEN 0 ELSE m.parent[c]],
                      !.children = [ch EXCEPT ![0] = Truncated(@ \o ch[p])]]
    BY <2>1 DEF adopt
  <2> QED
    BY <1>4, <2>2
<1>6. pm_exit_current(m, p, code) = [a EXCEPT !.procs = @ \ {p}, !.parent[p] = 0,
                                              !.children[p] = <<>>, !.dead[p] = <<>>]
  BY DEF pm_exit_current, k
<1>7. ch \in [Pids -> Seq(Pids)] /\ dd \in [Pids -> Seq(Zombie)]
  BY ToldTypes DEF ch
<1> HIDE DEF a, dd
<1> DEFINE n == [b EXCEPT !.procs = @ \ {p}, !.parent[p] = 0, !.children[p] = <<>>, !.dead[p] = <<>>]
<1>8. /\ IsRecord(n)
      /\ n.procs = m.procs \ {p} /\ n.ready = m.ready
      /\ n.parent = [b.parent EXCEPT ![p] = 0]
      /\ n.children = [b.children EXCEPT ![p] = <<>>]
      /\ n.dead = [b.dead EXCEPT ![p] = <<>>]
  BY DEF IsRecord
<1>9. /\ b.parent = [c \in Pids |-> IF Contains(ch[p], c) THEN 0 ELSE m.parent[c]]
      /\ b.children = [x \in Pids |-> IF x = 0 THEN Truncated(ch[0] \o ch[p]) ELSE ch[x]]
      /\ b.dead = dd
  <2>1. b.dead = dd
    BY DEF dd
  <2>2. b.children = [ch EXCEPT ![0] = Truncated(@ \o ch[p])]
    OBVIOUS
  <2> HIDE DEF b
  <2>3. b.children = [x \in Pids |-> IF x = 0 THEN Truncated(ch[0] \o ch[p]) ELSE ch[x]]
    BY <1>7, <2>2
  <2> QED
    BY <2>1, <2>3 DEF b
<1>10. pm_exit_current(m, p, code) = n
  BY <1>5, <1>6
<1> HIDE DEF b, n
<1>11. /\ n.parent = [c \in Pids |-> IF c = p \/ Contains(ch[p], c) THEN 0 ELSE m.parent[c]]
       /\ n.children = [x \in Pids |-> IF x = p THEN <<>>
                                       ELSE IF x = 0 THEN Truncated(ch[0] \o ch[p])
                                       ELSE ch[x]]
       /\ n.dead = [x \in Pids |-> IF x = p THEN <<>> ELSE dd[x]]
  <2>1. n.parent = [c \in Pids |-> IF c = p \/ Contains(ch[p], c) THEN 0 ELSE m.parent[c]]
    BY <1>8, <1>9
  <2>2. n.children = [x \in Pids |-> IF x = p THEN <<>>
                                    ELSE IF x = 0 THEN Truncated(ch[0] \o ch[p])
                                    ELSE ch[x]]
    BY <1>8, <1>9
  <2>3. n.dead = [x \in Pids |-> IF x = p THEN <<>> ELSE dd[x]]
    BY <1>7, <1>8, <1>9
  <2> QED
    BY <2>1, <2>2, <2>3
<1> QED
  BY <1>8, <1>10, <1>11 DEF Exited, ch, dd

\* pm_wait takes the i-th zombie of p, or changes nothing.
TakenAt(m, p, w, i) == /\ i \in 1 .. Len(m.dead[p])
                       /\ w.pid = m.dead[p][i].pid /\ w.exit_code = m.dead[p][i].exit_code
                       /\ w.pm = [m EXCEPT !.dead[p] = RemoveAt(@, i)]

LEMMA WaitFields ==
    ASSUME NEW m \in Managers, NEW p \in Pids, NEW want
    PROVE  LET w == pm_wait(m, p, want)
           IN  \/ ~(w.found /\ w.pid # STILL_ALIVE) /\ w.pm = m
               \/ w.found /\ \E i \in 1 .. Len(m.dead[p]) : TakenAt(m, p, w, i)
<1> DEFINE d == m.dead[p]
           w == pm_wait(m, p, want)
           Goal(r) == \/ ~(r.found /\ r.pid # STILL_ALIVE) /\ r.pm = m
                      \/ r.found /\ \E i \in 1 .. Len(m.dead[p]) : TakenAt(m, p, r, i)
<1>1. d \in Seq(Zombie) /\ Len(d) \in Nat
  <2>1. d \in Seq(Zombie)
    BY DEF Managers
  <2> QED
    BY <2>1, LenProperties
<1>2. Goal(NotFound(m)) /\ Goal(StillAlive(m))
  BY DEF NotFound, StillAlive, WaitResult
<1>3. ASSUME NEW i \in 1 .. Len(d)
      PROVE  Goal(WaitResult(TRUE, d[i], [m EXCEPT !.dead[p] = RemoveAt(@, i)]))
  BY <1>3 DEF WaitResult, TakenAt
<1>4. ASSUME d # <<>> PROVE Len(d) \in 1 .. Len(d) /\ Last(d) = d[Len(d)] /\ Front(d) = RemoveAt(d, Len(d))
  <2> DEFINE n == Len(d)
  <2>1. n \in 1 .. n
    BY <1>1, <1>4, EmptySeq
  <2>2. SubSeq(d, n + 1, n) = <<>>
    <3>1. n + 1 \in Int /\ n \in Int /\ n < n + 1
      BY <1>1
    <3> HIDE DEF n
    <3> QED
      BY <3>1, SubSeqEmpty
  <2>3. Front(d) \in Seq(Zombie)
    <3>1. \A i \in 1 .. n - 1 : d[i] \in Zombie
      BY <1>1, ElementOfSeq
    <3>2. 1 \in Int /\ n - 1 \in Int
      BY <1>1
    <3> QED
      BY <3>1, <3>2, SubSeqProperties DEF Front
  <2>4. Front(d) \o <<>> = Front(d)
    BY <2>3, ConcatEmptySeq
  <2> QED
    BY <2>1, <2>2, <2>4 DEF Last, Front, RemoveAt
<1>5. Goal(wait_any(m, p))
  <2>1. CASE d # <<>>
    <3>1. wait_any(m, p) = WaitResult(TRUE, d[Len(d)], [m EXCEPT !.dead[p] = RemoveAt(@, Len(d))])
      BY <1>4, <2>1 DEF wait_any
    <3> QED
      BY <1>3, <1>4, <2>1, <3>1
  <2>2. CASE d = <<>>
    BY <1>2, <2>2 DEF wait_any
  <2> QED
    BY <2>1, <2>2
<1>6. Goal(wait_for(m, p, want))
  <2> DEFINE I == {i \in 1 .. Len(d) : d[i].pid = want}
  <2>1. CASE I # {}
    <3>1. Min(I) \in I
      BY <1>1, <2>1, LeastPlace
    <3>2. Min(I) \in 1 .. Len(d) /\ Min(I) # 0
      BY <1>1, <3>1
    <3>3. wait_for(m, p, want) = WaitResult(TRUE, d[Min(I)], [m EXCEPT !.dead[p] = RemoveAt(@, Min(I))])
      BY <2>1, <3>2 DEF wait_for, SelectInSeq
    <3> QED
      BY <1>3, <3>2, <3>3
  <2>2. CASE I = {}
    BY <1>2, <2>2 DEF wait_for, SelectInSeq
  <2> QED
    BY <2>1, <2>2
<1> QED
  BY <1>5, <1>6 DEF pm_wait

LEMMA RecordOK ==
    ASSUME NEW n, IsRecord(n), n.procs \subseteq Pids,
           n.parent \in [Pids -> Pids \cup {PID_INVALID}],
           n.children \in [Pids -> Seq(Pids)], n.dead \in [Pids -> Seq(Zombie)],
           n.ready \in Seq(Pids), Len(n.ready) < MAX_PROCS
    PROVE  ManagerOK(n)
BY DEF IsRecord, ManagerOK, Managers

LEMMA ManagerTypes ==
    ASSUME NEW m, ManagerOK(m), NEW p \in Pids
    PROVE  /\ \A c \in Pids, q \in Pids \cup {PID_INVALID} : ManagerOK(pm_add(m, c, q))
           /\ ManagerOK(pm_suspend_current(m, p))
           /\ \A code \in Int : ManagerOK(pm_exit_current(m, p, code))
           /\ \A want : ManagerOK(pm_wait(m, p, want).pm)
<1>0. /\ m \in Managers /\ m.ready \in Seq(Pids) /\ Len(m.ready) < MAX_PROCS
      /\ m.procs \subseteq Pids /\ m.parent \in [Pids -> Pids \cup {PID_INVALID}]
      /\ m.children \in [Pids -> Seq(Pids)] /\ m.dead \in [Pids -> Seq(Zombie)]
      /\ 0 \in Pids
  BY ProcSizes DEF ManagerOK, Managers, Pids
<1>1. \A x \in Pids : queue_push(m.ready, x) \in Seq(Pids) /\ Len(queue_push(m.ready, x)) < MAX_PROCS
  BY <1>0, PushType
<1>2. ASSUME NEW c \in Pids, NEW q \in Pids \cup {PID_INVALID} PROVE ManagerOK(pm_add(m, c, q))
  <2> DEFINE n == pm_add(m, c, q)
  <2>1. Added(m, c, q, n)
    BY <1>0, AddFields
  <2> HIDE DEF n
  <2>2. /\ n.procs \subseteq Pids /\ n.parent \in [Pids -> Pids \cup {PID_INVALID}]
        /\ n.dead \in [Pids -> Seq(Zombie)]
    BY <1>0, <2>1, EmptySeq DEF Added
  <2>3. n.children \in [Pids -> Seq(Pids)]
    <3>1. \A x \in Pids : bounded(m.children[x], c) \in Seq(Pids)
      BY <1>0, BoundedType
    <3> QED
      BY <1>0, <2>1, <3>1 DEF Added
  <2>4. n.ready \in Seq(Pids) /\ Len(n.ready) < MAX_PROCS /\ IsRecord(n)
    BY <1>1, <2>1 DEF Added
  <2> QED
    BY <2>2, <2>3, <2>4, RecordOK DEF n
<1>3. ManagerOK(pm_suspend_current(m, p))
  <2>1. queue_push(m.ready, p) \in Seq(Pids) /\ Len(queue_push(m.ready, p)) < MAX_PROCS
    BY <1>1
  <2> QED
    BY <1>0, <2>1 DEF pm_suspend_current, ManagerOK, Managers
<1>4. ASSUME NEW code \in Int PROVE ManagerOK(pm_exit_current(m, p, code))
  <2> DEFINE n == pm_exit_current(m, p, code)
             ch == ToldChildren(m, p)
             dd == ToldDead(m, p, code)
  <2>1. ch \in [Pids -> Seq(Pids)] /\ dd \in [Pids -> Seq(Zombie)]
    BY <1>0, ToldTypes
  <2>2. Truncated(ch[0] \o ch[p]) \in Seq(Pids)
    BY <1>0, <2>1, TruncatedSet
  <2>3. Exited(m, p, code, n)
    BY <1>0, ExitFields
  <2> HIDE DEF n, ch, dd
  <2>5. /\ n.parent \in [Pids -> Pids \cup {PID_INVALID}] /\ n.procs \subseteq Pids
        /\ n.ready \in Seq(Pids) /\ Len(n.ready) < MAX_PROCS /\ IsRecord(n)
    BY <1>0, <2>3 DEF Exited
  <2>6. n.children \in [Pids -> Seq(Pids)]
    BY <1>0, <2>1, <2>2, <2>3 DEF Exited, ch
  <2>7. n.dead \in [Pids -> Seq(Zombie)]
    BY <1>0, <2>1, <2>3 DEF Exited, dd
  <2> QED
    BY <2>5, <2>6, <2>7, RecordOK DEF n
<1>5. ASSUME NEW want PROVE ManagerOK(pm_wait(m, p, want).pm)
  <2> DEFINE w == pm_wait(m, p, want)
  <2>1. CASE w.pm = m
    BY <2>1
  <2>2. ASSUME NEW i \in 1 .. Len(m.dead[p]), TakenAt(m, p, w, i) PROVE ManagerOK(w.pm)
    <3>1. m.dead[p] \in Seq(Zombie)
      BY <1>0
    <3>2. RemoveAt(m.dead[p], i) \in Seq(Zombie)
      BY <3>1, RemoveAtSeq
    <3> DEFINE s == RemoveAt(m.dead[p], i)
               n == [m EXCEPT !.dead[p] = s]
    <3>3. w.pm = n
      BY <2>2 DEF TakenAt
    <3> HIDE DEF w, s
    <3>4. /\ IsRecord(n) /\ n.procs = m.procs /\ n.parent = m.parent /\ n.children = m.children
          /\ n.dead = [m.dead EXCEPT ![p] = s] /\ n.ready = m.ready
      BY <1>0 DEF Managers, IsRecord
    <3> HIDE DEF n
    <3>5. n.dead \in [Pids -> Seq(Zombie)]
      BY <1>0, <3>2, <3>4 DEF s
    <3> QED
      BY <1>0, <3>3, <3>4, <3>5, RecordOK
  <2> QED
    BY <1>0, <2>1, <2>2, WaitFields
<1> QED
  BY <1>2, <1>3, <1>4, <1>5

-----------------------------------------------------------------------------
(***************************************************************************)
(* An iteration in two halves.  The system call turns the manager that     *)
(* lacks p in the ring into m; then the process goes back to the ring or   *)
(* exits.                                                                  *)
(***************************************************************************)
\* The second half.
Ends(p, m, n) == \/ n = pm_suspend_current(m, p)
                 \/ \E code \in Int : n = pm_exit_current(m, p, code)

\* The first half: nothing, a child, or a zombie p asked for.
Idle(m) == /\ m = Popped /\ reported' = reported
           /\ g_pid_counter' \in {g_pid_counter, g_pid_counter + 1}

Born(p, m) == /\ m = pm_add(Popped, g_pid_counter, p) /\ reported' = reported
              /\ g_pid_counter \in Pids /\ g_pid_counter' = g_pid_counter + 1
              /\ Cardinality(Known) <= MAX_CHILDREN \/ Uses("crowd")

Reaped(p, m, i) == /\ i \in 1 .. Len(pm.dead[p])
                   /\ m = [Popped EXCEPT !.dead[p] = RemoveAt(@, i)]
                   /\ LET z == pm.dead[p][i]
                      IN  reported' = [reported EXCEPT ![z.pid] = Append(@, z.exit_code)]
                   /\ g_pid_counter' = g_pid_counter

Middle(p, m) == Idle(m) \/ Born(p, m) \/ \E i \in 1 .. Len(pm.dead[p]) : Reaped(p, m, i)

Iteration(p) == /\ Runs(p)
                /\ g_pid_counter' \in 1 .. MAX_PROCS
                /\ Tables(signal', ctx', saved_ctx')
                /\ \E m : Middle(p, m) /\ Ends(p, m, pm')

LEMMA ReturnEnds ==
    ASSUME NEW p \in Pids, NEW m, NEW sm, NEW cs, NEW ss, Tables(sm, cs, ss),
           NEW end, end.exits \in BOOLEAN, end.exit_code \in Int,
           Return(p, m, sm, cs, ss, end)
    PROVE  Tables(signal', ctx', saved_ctx') /\ Ends(p, m, pm')
<1> DEFINE r == signal_handle(sm[p])
           kept == [cs EXCEPT ![p] = IF Caught(r) THEN handler_context ELSE @]
<1>1. IsResult(r)
  BY HandleResult DEF Tables
<1>2. r.sm \in SignalManagers /\ r.exit_code \in Int
  BY <1>1 DEF IsResult
<1>3. \/ pm' = pm_exit_current(m, p, r.exit_code)
      \/ pm' = pm_suspend_current(m, p)
      \/ pm' = pm_exit_current(m, p, end.exit_code)
  BY DEF Return, Stopped
<1>4. signal' = [sm EXCEPT ![p] = r.sm] /\ saved_ctx' = [ss EXCEPT ![p] = IF Caught(r) THEN cs[p] ELSE @]
  BY DEF Return
<1>5. ctx' = kept \/ ctx' = [kept EXCEPT ![p].a0 = "result"]
  BY ReturnContexts
<1> HIDE DEF r
<1>6. kept \in [Pids -> Contexts]
  BY DEF Tables, Contexts, handler_context
<1>7. ctx' \in [Pids -> Contexts]
  BY <1>5, <1>6 DEF Contexts
<1> QED
  BY <1>2, <1>3, <1>4, <1>7 DEF Tables, Ends

\* The manager that p has been taken from.
LEMMA PoppedFields ==
    ASSUME TypeOK, NEW p \in Pids, Runs(p)
    PROVE  /\ ManagerOK(pm) /\ ManagerOK(Popped) /\ IsRecord(Popped)
           /\ p \in pm.procs
           /\ Popped.procs = pm.procs /\ Popped.parent = pm.parent
           /\ Popped.children = pm.children /\ Popped.dead = pm.dead
           /\ Popped.ready = Tail(pm.ready) /\ Popped.ready \in Seq(Pids)
           /\ pm.ready \in Seq(Pids) /\ pm.ready # <<>> /\ p = Head(pm.ready)
           /\ Len(Popped.ready) = Len(pm.ready) - 1
<1>1. ManagerOK(pm)
  BY DEF TypeOK, ManagerOK
<1>2. pm.ready \in Seq(Pids) /\ pm.ready # <<>> /\ Len(pm.ready) < MAX_PROCS /\ Len(pm.ready) \in Nat
  BY <1>1, LenProperties DEF ManagerOK, Managers, Runs
<1>3. Tail(pm.ready) \in Seq(Pids) /\ Len(Tail(pm.ready)) = Len(pm.ready) - 1
  BY <1>2, TailSet
<1>4. /\ IsRecord(Popped) /\ Popped.procs = pm.procs /\ Popped.parent = pm.parent
      /\ Popped.children = pm.children /\ Popped.dead = pm.dead /\ Popped.ready = Tail(pm.ready)
  BY <1>1 DEF Popped, ManagerOK, Managers, IsRecord
<1>5. ManagerOK(Popped)
  <2>1. Len(Popped.ready) < MAX_PROCS /\ Popped.ready \in Seq(Pids)
    BY <1>2, <1>3, <1>4, ProcSizes
  <2>2. /\ pm.procs \subseteq Pids /\ pm.parent \in [Pids -> Pids \cup {PID_INVALID}]
        /\ pm.children \in [Pids -> Seq(Pids)] /\ pm.dead \in [Pids -> Seq(Zombie)]
    BY <1>1 DEF ManagerOK, Managers
  <2> QED
    BY <1>4, <2>1, <2>2, RecordOK
<1> QED
  BY <1>1, <1>2, <1>3, <1>4, <1>5 DEF Runs

\* The tables of signals and contexts when p traps.
LEMMA TrapTables ==
    ASSUME TypeOK, NEW p \in Pids
    PROVE  /\ Trapped(p) \in Contexts
           /\ Tables(signal, ctx, saved_ctx)
           /\ Tables(signal, [ctx EXCEPT ![p] = Trapped(p)], saved_ctx)
           /\ Continues.exits \in BOOLEAN /\ Continues.exit_code \in Int
           /\ \A code \in Int : Exits(code).exits \in BOOLEAN /\ Exits(code).exit_code \in Int
<1>1. ctx[p] \in Contexts
  BY DEF TypeOK
<1>2. Trapped(p) \in Contexts
  BY <1>1 DEF Trapped, Contexts
<1> QED
  BY <1>2 DEF TypeOK, Tables, Continues, Exits

LEMMA CallEnds ==
    ASSUME TypeOK, NEW p \in Pids, NEW m, NEW sm \in [Pids -> SignalManagers],
           NEW end, end.exits \in BOOLEAN, end.exit_code \in Int, Call(p, m, sm, end)
    PROVE  Tables(signal', ctx', saved_ctx') /\ Ends(p, m, pm')
<1>1. Tables(sm, [ctx EXCEPT ![p] = Trapped(p)], saved_ctx)
  BY TrapTables DEF Tables
<1> QED
  BY <1>1, ReturnEnds DEF Call

LEMMA ForkIteration ==
    ASSUME TypeOK, NEW p \in Pids, Fork(p)
    PROVE  Iteration(p)
<1> DEFINE c == g_pid_counter
<1>1. Runs(p) /\ reported' = reported /\ pid_alloc /\ c \in 1 .. MAX_PROCS
  BY DEF Fork, TypeOK
<1>2. g_pid_counter' \in 1 .. MAX_PROCS /\ g_pid_counter' \in {c, c + 1}
  BY <1>1, ProcSizes DEF pid_alloc
<1>3. CASE Call(p, Popped, signal, Continues)
  <2>1. Tables(signal', ctx', saved_ctx') /\ Ends(p, Popped, pm')
    BY <1>3, TrapTables, CallEnds DEF Tables
  <2> QED
    BY <1>1, <1>2, <2>1 DEF Iteration, Middle, Idle
<1>4. CASE /\ ~NoSlot(c)
           /\ Cardinality(Known) <= MAX_CHILDREN \/ Uses("crowd")
           /\ Return(p, pm_add(Popped, c, p), [signal EXCEPT ![c] = signal_fork(signal[p])],
                     [ctx EXCEPT ![p] = Trapped(p), ![c] = [Trapped(p) EXCEPT !.a0 = "result"]],
                     saved_ctx, Continues)
  <2> DEFINE m == pm_add(Popped, c, p)
             sm == [signal EXCEPT ![c] = signal_fork(signal[p])]
             child == [Trapped(p) EXCEPT !.a0 = "result"]
             cs == [ctx EXCEPT ![p] = Trapped(p), ![c] = child]
  <2>1. c \in Pids /\ g_pid_counter' = c + 1
    BY <1>1, <1>4, ProcSizes DEF NoSlot, Pids, pid_alloc
  <2>2. child \in Contexts
    BY TrapTables DEF Contexts
  <2>3. signal[p] \in SignalManagers
    BY DEF TypeOK
  <2>4. Tables(sm, cs, saved_ctx)
    BY <2>2, <2>3, SignalOps, TrapTables DEF Tables
  <2>5. Return(p, m, sm, cs, saved_ctx, Continues)
    BY <1>4
  <2>6. Born(p, m)
    BY <1>1, <1>4, <2>1 DEF Born
  <2> HIDE DEF sm, cs, m
  <2>7. Continues.exits \in BOOLEAN /\ Continues.exit_code \in Int
    BY DEF Continues
  <2>8. Tables(signal', ctx', saved_ctx') /\ Ends(p, m, pm')
    BY <2>4, <2>5, <2>7, ReturnEnds
  <2> QED
    BY <1>1, <1>2, <2>6, <2>8 DEF Iteration, Middle
<1> QED
  BY <1>3, <1>4 DEF Fork

LEMMA WaitIteration ==
    ASSUME TypeOK, NEW p \in Pids, NEW want, Waitpid(p, want)
    PROVE  Iteration(p)
<1> DEFINE w == pm_wait(Popped, p, want)
<1>1. /\ Runs(p) /\ Call(p, w.pm, signal, Continues) /\ g_pid_counter' = g_pid_counter
      /\ reported' = IF w.found /\ w.pid # STILL_ALIVE
                     THEN [reported EXCEPT ![w.pid] = Append(@, w.exit_code)]
                     ELSE reported
      /\ g_pid_counter' \in 1 .. MAX_PROCS
  BY DEF Waitpid, TypeOK
<1>2. Tables(signal', ctx', saved_ctx') /\ Ends(p, w.pm, pm')
  <2>1. signal \in [Pids -> SignalManagers] /\ Continues.exits \in BOOLEAN /\ Continues.exit_code \in Int
    BY DEF TypeOK, Continues
  <2>2. Call(p, w.pm, signal, Continues)
    BY <1>1
  <2> HIDE DEF w
  <2> QED
    BY <2>1, <2>2, CallEnds
<1>3. Popped \in Managers /\ Popped.dead = pm.dead /\ pm.dead[p] \in Seq(Zombie)
  BY <1>1, PoppedFields DEF ManagerOK, Managers
<1>4. \/ ~(w.found /\ w.pid # STILL_ALIVE) /\ w.pm = Popped
      \/ w.found /\ \E i \in 1 .. Len(Popped.dead[p]) : TakenAt(Popped, p, w, i)
  BY <1>3, WaitFields
<1> HIDE DEF w
<1>5. Middle(p, w.pm)
  <2>1. CASE ~(w.found /\ w.pid # STILL_ALIVE) /\ w.pm = Popped
    BY <1>1, <2>1 DEF Middle, Idle
  <2>2. CASE w.found /\ \E i \in 1 .. Len(Popped.dead[p]) : TakenAt(Popped, p, w, i)
    <3>1. PICK i \in 1 .. Len(pm.dead[p]) : TakenAt(Popped, p, w, i)
      BY <1>3, <2>2
    <3>2. pm.dead[p][i] \in Zombie
      BY <1>3, <3>1, ElementOfSeq
    <3>3. w.pid \in Pids /\ w.pid # STILL_ALIVE
      BY <1>3, <3>1, <3>2 DEF TakenAt, Zombie, STILL_ALIVE, Pids
    <3> QED
      BY <1>1, <1>3, <2>2, <3>1, <3>3 DEF Middle, Reaped, TakenAt
  <2> QED
    BY <1>4, <2>1, <2>2
<1> QED
  BY <1>1, <1>2, <1>5 DEF Iteration

LEMMA SignalIteration ==
    ASSUME TypeOK, NEW p \in Pids,
           \/ \E target \in Pids, s \in Signals : Kill(p, target, s)
           \/ \E s \in Signals, installs \in BOOLEAN : Sigaction(p, s, installs)
           \/ \E mask \in SUBSET Signals : Sigprocmask(p, mask)
    PROVE  Iteration(p)
<1>1. /\ Runs(p) /\ g_pid_counter' = g_pid_counter /\ reported' = reported
      /\ g_pid_counter' \in 1 .. MAX_PROCS
  BY DEF Kill, Sigaction, Sigprocmask, TypeOK
<1>2. signal \in [Pids -> SignalManagers] /\ Signals \subseteq SignalNumbers
  BY Kernel7Assumption DEF TypeOK
<1>3. ASSUME NEW sm \in [Pids -> SignalManagers], Call(p, Popped, sm, Continues)
      PROVE  Iteration(p)
  <2>1. Continues.exits \in BOOLEAN /\ Continues.exit_code \in Int
    BY DEF Continues
  <2>2. Tables(signal', ctx', saved_ctx') /\ Ends(p, Popped, pm')
    BY <1>3, <2>1, CallEnds
  <2> QED
    BY <1>1, <2>2 DEF Iteration, Middle, Idle
<1>4. ASSUME NEW q \in Pids, NEW f \in SignalManagers, Call(p, Popped, [signal EXCEPT ![q] = f], Continues)
      PROVE  Iteration(p)
  <2>1. [signal EXCEPT ![q] = f] \in [Pids -> SignalManagers]
    BY <1>2
  <2> QED
    BY <1>3, <1>4, <2>1
<1>5. ASSUME NEW target \in Pids, NEW s \in Signals, Kill(p, target, s)
      PROVE  Iteration(p)
  <2>1. signal_add(signal[target], s) \in SignalManagers
    BY <1>2, SignalOps
  <2> QED
    BY <1>2, <1>3, <1>4, <1>5, <2>1 DEF Kill
<1>6. ASSUME NEW s \in Signals, NEW installs \in BOOLEAN, Sigaction(p, s, installs)
      PROVE  Iteration(p)
  <2>1. signal_set_action(signal[p], s, installs) \in SignalManagers
    BY <1>2, SignalOps
  <2> QED
    BY <1>4, <1>6, <2>1 DEF Sigaction
<1>7. ASSUME NEW mask \in SUBSET Signals, Sigprocmask(p, mask)
      PROVE  Iteration(p)
  <2>1. signal[p] \in SignalManagers /\ mask \in SUBSET SignalNumbers
    BY <1>2
  <2>2. signal_update_mask(signal[p], mask) \in SignalManagers
    BY <2>1, SignalOps
  <2> QED
    BY <1>4, <1>7, <2>2 DEF Sigprocmask
<1> QED
  BY <1>5, <1>6, <1>7

\* The calls that set p's context themselves.
LEMMA ContextIteration ==
    ASSUME TypeOK, NEW p \in Pids, Exec(p) \/ Sigreturn(p)
    PROVE  Iteration(p)
<1>1. /\ Runs(p) /\ g_pid_counter' = g_pid_counter /\ reported' = reported
      /\ g_pid_counter' \in 1 .. MAX_PROCS
  BY DEF Exec, Sigreturn, TypeOK
<1>2. /\ signal \in [Pids -> SignalManagers] /\ signal[p] \in SignalManagers
      /\ ctx \in [Pids -> Contexts] /\ saved_ctx \in [Pids -> Contexts]
  BY DEF TypeOK
<1>3. ASSUME NEW f \in SignalManagers, NEW x \in Contexts,
             Return(p, Popped, [signal EXCEPT ![p] = f], [ctx EXCEPT ![p] = x], saved_ctx, Continues)
      PROVE  Iteration(p)
  <2>1. Continues.exits \in BOOLEAN /\ Continues.exit_code \in Int
    BY DEF Continues
  <2>2. Tables([signal EXCEPT ![p] = f], [ctx EXCEPT ![p] = x], saved_ctx)
    BY <1>2 DEF Tables
  <2>3. Tables(signal', ctx', saved_ctx') /\ Ends(p, Popped, pm')
    BY <1>3, <2>1, <2>2, ReturnEnds
  <2> QED
    BY <1>1, <2>3 DEF Iteration, Middle, Idle
<1>4. CASE Exec(p)
  <2>1. signal_clear(signal[p]) \in SignalManagers /\ context_user \in Contexts
    BY <1>2, SignalOps DEF context_user, Contexts
  <2> QED
    BY <1>3, <1>4, <2>1 DEF Exec
<1>5. CASE Sigreturn(p)
  <2>1. signal_return(signal[p]) \in SignalManagers
    BY <1>2, SignalOps
  <2>2. restored(p) \in Contexts
    BY <1>2, TrapTables DEF restored
  <2> QED
    BY <1>3, <1>5, <2>1, <2>2 DEF Sigreturn
<1> QED
  BY <1>4, <1>5

\* The calls that touch no signal manager, and faults.
LEMMA OtherIteration ==
    ASSUME TypeOK, NEW p \in Pids,
           Plain(p) \/ Unsupported(p) \/ Exception(p) \/ \E code \in ExitCodes : Exit(p, code)
    PROVE  Iteration(p)
<1>1. /\ Runs(p) /\ g_pid_counter' = g_pid_counter /\ reported' = reported
      /\ g_pid_counter' \in 1 .. MAX_PROCS
  BY DEF Plain, Unsupported, Exception, Exit, TypeOK
<1>2. signal \in [Pids -> SignalManagers] /\ Tables(signal, ctx, saved_ctx) /\ ExitCodes \subseteq Int
  BY Kernel7Assumption, TrapTables DEF TypeOK
<1>3. ASSUME NEW end, end.exits \in BOOLEAN, end.exit_code \in Int, Call(p, Popped, signal, end)
      PROVE  Iteration(p)
  <2>1. Tables(signal', ctx', saved_ctx') /\ Ends(p, Popped, pm')
    BY <1>2, <1>3, CallEnds
  <2> QED
    BY <1>1, <2>1 DEF Iteration, Middle, Idle
<1>4. /\ Continues.exits \in BOOLEAN /\ Continues.exit_code \in Int
      /\ \A code \in Int : Exits(code).exits \in BOOLEAN /\ Exits(code).exit_code \in Int
  BY DEF Continues, Exits
<1>5. CASE Plain(p)
  BY <1>3, <1>4, <1>5 DEF Plain
<1>6. CASE Unsupported(p)
  BY <1>3, <1>4, <1>6 DEF Unsupported
<1>7. CASE \E code \in ExitCodes : Exit(p, code)
  BY <1>2, <1>3, <1>4, <1>7 DEF Exit
<1>8. CASE Exception(p)
  <2>1. Ends(p, Popped, pm') /\ Tables(signal', ctx', saved_ctx')
    BY <1>2, <1>8 DEF Exception, Ends
  <2> QED
    BY <1>1, <2>1 DEF Iteration, Middle, Idle
<1> QED
  BY <1>5, <1>6, <1>7, <1>8

LEMMA ProcessIteration ==
    ASSUME TypeOK, NEW p \in Pids, Process(p)
    PROVE  Iteration(p)
BY ForkIteration, WaitIteration, SignalIteration, ContextIteration, OtherIteration DEF Process

-----------------------------------------------------------------------------
(***************************************************************************)
(* The ranges of the tables.                                               *)
(***************************************************************************)
LEMMA MiddleManager ==
    ASSUME TypeOK, NEW p \in Pids, Runs(p), NEW m, Middle(p, m)
    PROVE  ManagerOK(m)
<1>1. ManagerOK(Popped) /\ Popped.dead = pm.dead /\ IsRecord(Popped)
  BY PoppedFields
<1>2. CASE Idle(m)
  BY <1>1, <1>2 DEF Idle
<1>3. CASE Born(p, m)
  BY <1>1, <1>3, ManagerTypes DEF Born
<1>4. ASSUME NEW i \in 1 .. Len(pm.dead[p]), Reaped(p, m, i)
      PROVE  ManagerOK(m)
  <2> DEFINE d == RemoveAt(Popped.dead[p], i)
  <2>1. /\ Popped.procs \subseteq Pids /\ Popped.parent \in [Pids -> Pids \cup {PID_INVALID}]
        /\ Popped.children \in [Pids -> Seq(Pids)] /\ Popped.dead \in [Pids -> Seq(Zombie)]
        /\ Popped.ready \in Seq(Pids) /\ Len(Popped.ready) < MAX_PROCS
    BY <1>1 DEF ManagerOK, Managers
  <2>2. d \in Seq(Zombie)
    BY <1>1, <1>4, <2>1, RemoveAtSeq
  <2>3. m = [Popped EXCEPT !.dead = [Popped.dead EXCEPT ![p] = d]]
    BY <1>4 DEF Reaped
  <2>4. [Popped.dead EXCEPT ![p] = d] \in [Pids -> Seq(Zombie)]
    BY <2>1, <2>2
  <2> HIDE DEF d
  <2>5. /\ IsRecord(m) /\ m.procs = Popped.procs /\ m.parent = Popped.parent
        /\ m.children = Popped.children /\ m.dead = [Popped.dead EXCEPT ![p] = d]
        /\ m.ready = Popped.ready
    BY <1>1, <2>3 DEF IsRecord
  <2> QED
    BY <2>1, <2>4, <2>5, RecordOK
<1> QED
  BY <1>2, <1>3, <1>4 DEF Middle

LEMMA TypeInit == Init => TypeOK
<1> SUFFICES ASSUME Init PROVE TypeOK
  OBVIOUS
<1>1. 0 \in Pids /\ 1 \in 1 .. MAX_PROCS
  BY ProcSizes DEF Pids
<1>2. ManagerOK(pm_init)
  <2>1. <<>> \in Seq(Pids) /\ <<>> \in Seq(Zombie) /\ Len(<<>>) < MAX_PROCS
    BY EmptySeq, ProcSizes
  <2> QED
    BY <1>1, <2>1 DEF pm_init, ManagerOK, Managers
<1>3. ManagerOK(pm)
  BY <1>1, <1>2, ManagerTypes DEF Init, PID_INVALID
<1>4. signal_init \in SignalManagers /\ context_user \in Contexts
  BY DEF signal_init, SignalManagers, HandlingTypes, context_user, Contexts
<1>5. <<>> \in Seq(Int)
  BY EmptySeq
<1> QED
  BY <1>1, <1>3, <1>4, <1>5 DEF Init, TypeOK, ManagerOK

LEMMA TypeNext == TypeOK /\ [Next]_vars => TypeOK'
<1> SUFFICES ASSUME TypeOK, [Next]_vars PROVE TypeOK'
  OBVIOUS
<1>1. ASSUME NEW p \in Pids, Iteration(p) PROVE TypeOK'
  <2>1. PICK m : Middle(p, m) /\ Ends(p, m, pm')
    BY <1>1 DEF Iteration
  <2>2. ManagerOK(m)
    BY <1>1, <2>1, MiddleManager DEF Iteration
  <2>3. ManagerOK(pm')
    BY <2>1, <2>2, ManagerTypes DEF Ends
  <2>4. reported \in [Pids -> Seq(Int)] /\ pm.dead[p] \in Seq(Zombie)
    BY DEF TypeOK, Managers
  <2>5. ASSUME NEW i \in 1 .. Len(pm.dead[p]), Reaped(p, m, i)
        PROVE  reported' \in [Pids -> Seq(Int)]
    <3>1. pm.dead[p][i] \in Zombie
      BY <2>4, <2>5, ElementOfSeq
    <3>2. pm.dead[p][i].pid \in Pids /\ pm.dead[p][i].exit_code \in Int
      BY <3>1 DEF Zombie
    <3>3. Append(reported[pm.dead[p][i].pid], pm.dead[p][i].exit_code) \in Seq(Int)
      BY <2>4, <3>2, AppendSet
    <3> QED
      BY <2>4, <2>5, <3>2, <3>3 DEF Reaped
  <2>6. reported' \in [Pids -> Seq(Int)]
    BY <2>1, <2>4, <2>5 DEF Middle, Idle, Born
  <2> QED
    BY <1>1, <2>3, <2>6 DEF TypeOK, ManagerOK, Iteration, Tables
<1>2. CASE UNCHANGED vars
  BY <1>2 DEF vars, TypeOK
<1> QED
  BY <1>1, <1>2, ProcessIteration DEF Next

\* proc_manage.c, the loop of ch7/main.c: whatever the programs do, every table
\* keeps to its range: the ring never holds MAX_PROCS entries, which would
\* make it look empty, the next pid never passes the table, and the exit codes
\* and signal states stored are ones the kernel writes.
THEOREM Kernel7Types == Spec => []TypeOK
BY TypeInit, TypeNext, PTL DEF Spec

-----------------------------------------------------------------------------
(***************************************************************************)
(* Nobody is told of an exit twice.  Pids are never given back, so a pid   *)
(* that was told of belongs to no process and to no zombie any more.       *)
(***************************************************************************)
\* For a manager m, what the parents were told, and the next pid: the process
\* ids are old, the i-th zombie of q is an old process nobody was told of, two
\* zombies are two processes, and nobody was told of a process twice.
Old(m, g) == \A c \in m.procs : c < g
Untold(m, rep, g) == \A q \in Pids : \A i \in DOMAIN m.dead[q] :
    LET c == m.dead[q][i].pid
    IN  c \in Pids /\ c < g /\ c \notin m.procs /\ rep[c] = <<>>
Apart(m) == \A q, r \in Pids : \A i \in DOMAIN m.dead[q], j \in DOMAIN m.dead[r] :
    m.dead[q][i].pid = m.dead[r][j].pid => q = r /\ i = j
ToldOnce(m, rep, g) == \A c \in Pids :
    Len(rep[c]) <= 1 /\ (rep[c] # <<>> => c \notin m.procs /\ c < g)

Once(m, rep, g) == Old(m, g) /\ Untold(m, rep, g) /\ Apart(m) /\ ToldOnce(m, rep, g)

\* A zombie list keeps its entries when one is added at its end, if it is.
LEMMA BoundedPlaces ==
    ASSUME NEW S, NEW s \in Seq(S), NEW x \in S
    PROVE  LET t == bounded(s, x)
           IN  /\ t \in Seq(S) /\ Len(s) <= Len(t) /\ Len(t) <= Len(s) + 1
               /\ \A i \in 1 .. Len(s) : t[i] = s[i]
               /\ Len(t) = Len(s) + 1 => t[Len(s) + 1] = x
<1>1. Len(s) \in Nat
  BY LenProperties
<1>2. /\ Append(s, x) \in Seq(S) /\ Len(Append(s, x)) = Len(s) + 1
      /\ \A i \in 1 .. Len(s) : Append(s, x)[i] = s[i]
      /\ Append(s, x)[Len(s) + 1] = x
  BY AppendProperties
<1> QED
  BY <1>1, <1>2 DEF bounded

\* A list without its i-th entry keeps the others in their order.
DropsPlace(s, i, t) == /\ DOMAIN t = 1 .. Len(s) - 1
                       /\ \A k \in 1 .. Len(s) - 1 : t[k] = IF k < i THEN s[k] ELSE s[k + 1]

LEMMA RemovedPlaces ==
    ASSUME NEW S, NEW s \in Seq(S), NEW i \in 1 .. Len(s)
    PROVE  /\ i \in DOMAIN s /\ s[i] \in S /\ i \in Nat
           /\ Len(s) \in Nat /\ DOMAIN s = 1 .. Len(s)
           /\ DropsPlace(s, i, RemoveAt(s, i))
<1>1. Len(s) \in Nat /\ DOMAIN s = 1 .. Len(s)
  BY LenProperties
<1>2. /\ RemoveAt(s, i) \in Seq(S) /\ Len(RemoveAt(s, i)) = Len(s) - 1
      /\ \A k \in 1 .. Len(s) - 1 : RemoveAt(s, i)[k] = IF k < i THEN s[k] ELSE s[k + 1]
  BY RemoveAtSeq
<1>3. DOMAIN RemoveAt(s, i) = 1 .. Len(RemoveAt(s, i))
  BY <1>2, LenProperties
<1>4. s[i] \in S
  BY ElementOfSeq
<1> QED
  BY <1>1, <1>2, <1>3, <1>4 DEF DropsPlace

LEMMA OnceBorn ==
    ASSUME NEW m, ManagerOK(m), NEW rep, NEW c \in Pids, Once(m, rep, c), NEW q,
           NEW n, Added(m, c, q, n)
    PROVE  Once(n, rep, c + 1)
<1>1. m.procs \subseteq Pids /\ m.dead \in [Pids -> Seq(Zombie)] /\ \A x \in Pids : x \in Int
  BY DEF ManagerOK, Managers, Pids
<1>2. n.procs = m.procs \cup {c} /\ n.dead = [m.dead EXCEPT ![c] = <<>>]
  BY DEF Added
<1>3. \A a \in Pids : \A i \in DOMAIN n.dead[a] : n.dead[a] = m.dead[a]
  <2>1. DOMAIN <<>> = {}
    OBVIOUS
  <2> QED
    BY <1>1, <1>2, <2>1
<1>4. \A x \in Int : x < c => x < c + 1 /\ x # c
  BY <1>1
<1>5. c \in Int /\ c < c + 1
  BY <1>1
<1>6. Old(n, c + 1)
  BY <1>1, <1>2, <1>4, <1>5 DEF Once, Old
<1>7. Untold(n, rep, c + 1)
  <2> SUFFICES ASSUME NEW a \in Pids, NEW i \in DOMAIN n.dead[a]
               PROVE  LET x == n.dead[a][i].pid
                      IN  x \in Pids /\ x < c + 1 /\ x \notin n.procs /\ rep[x] = <<>>
    BY DEF Untold
  <2>1. LET x == m.dead[a][i].pid
        IN  x \in Pids /\ x < c /\ x \notin m.procs /\ rep[x] = <<>>
    BY <1>3 DEF Once, Untold
  <2> QED
    BY <1>1, <1>2, <1>3, <1>4, <2>1
<1>8. Apart(n)
  BY <1>3 DEF Once, Apart
<1>9. ToldOnce(n, rep, c + 1)
  BY <1>1, <1>2, <1>4 DEF Once, ToldOnce
<1> QED
  BY <1>6, <1>7, <1>8, <1>9 DEF Once

LEMMA OnceReaped ==
    ASSUME NEW m, ManagerOK(m), NEW rep \in [Pids -> Seq(Int)], NEW g \in Nat, Once(m, rep, g),
           NEW p \in Pids, NEW i \in 1 .. Len(m.dead[p]), NEW n,
           n.procs = m.procs, n.dead = [m.dead EXCEPT ![p] = RemoveAt(@, i)]
    PROVE  LET z == m.dead[p][i]
           IN  Once(n, [rep EXCEPT ![z.pid] = Append(@, z.exit_code)], g)
<1> DEFINE d == m.dead[p]
           z == d[i]
           r == [rep EXCEPT ![z.pid] = Append(@, z.exit_code)]
           old(q, k) == IF q = p /\ k >= i THEN k + 1 ELSE k
<1>1. /\ m.dead \in [Pids -> Seq(Zombie)]
      /\ \A q \in Pids : Len(m.dead[q]) \in Nat /\ DOMAIN m.dead[q] = 1 .. Len(m.dead[q])
  BY LenProperties DEF ManagerOK, Managers
<1>2. d \in Seq(Zombie)
  BY <1>1
<1>3. /\ i \in DOMAIN d /\ z \in Zombie /\ i \in Nat /\ Len(d) \in Nat /\ DOMAIN d = 1 .. Len(d)
      /\ DropsPlace(d, i, RemoveAt(d, i))
  BY <1>2, RemovedPlaces
<1>4. z.pid \in Pids /\ z.exit_code \in Int
  BY <1>3 DEF Zombie
<1>5. rep[z.pid] = <<>> /\ z.pid < g /\ z.pid \notin m.procs
  BY <1>3 DEF Once, Untold
<1>6. /\ n.dead[p] = RemoveAt(d, i) /\ \A q \in Pids : q # p => n.dead[q] = m.dead[q]
  BY <1>1
<1>7. ASSUME NEW q \in Pids, NEW k \in DOMAIN n.dead[q]
      PROVE  /\ k \in Nat /\ old(q, k) \in DOMAIN m.dead[q]
             /\ n.dead[q][k] = m.dead[q][old(q, k)] /\ ~(q = p /\ old(q, k) = i)
  <2>1. CASE q # p
    <3>1. n.dead[q] = m.dead[q] /\ old(q, k) = k /\ k \in Nat
      BY <1>1, <1>6, <1>7, <2>1
    <3> QED
      BY <1>7, <2>1, <3>1
  <2>2. CASE q = p
    <3>1. n.dead[q] = RemoveAt(d, i) /\ k \in 1 .. Len(d) - 1
      BY <1>3, <1>6, <1>7, <2>2 DEF DropsPlace
    <3>2. k \in Nat /\ old(q, k) \in 1 .. Len(d) /\ old(q, k) # i
      BY <1>3, <2>2, <3>1
    <3>3. RemoveAt(d, i)[k] = d[old(q, k)]
      <4>1. CASE k < i
        BY <1>3, <2>2, <3>1, <4>1 DEF DropsPlace
      <4>2. CASE ~(k < i)
        <5>1. old(q, k) = k + 1
          BY <1>3, <2>2, <3>1, <4>2
        <5>2. RemoveAt(d, i)[k] = d[k + 1]
          BY <1>3, <3>1, <4>2 DEF DropsPlace
        <5> QED
          BY <5>1, <5>2
      <4> QED
        BY <4>1, <4>2
    <3> HIDE DEF old
    <3> QED
      BY <1>3, <2>2, <3>1, <3>2, <3>3
  <2> QED
    BY <2>1, <2>2
<1>8. r[z.pid] = Append(<<>>, z.exit_code) /\ Len(r[z.pid]) = 1
  <2>1. r[z.pid] = Append(<<>>, z.exit_code)
    BY <1>4, <1>5
  <2>2. <<>> \in Seq(Int) /\ Len(<<>>) = 0
    BY EmptySeq
  <2>3. Len(Append(<<>>, z.exit_code)) = 0 + 1
    BY <1>4, <2>2, AppendSet
  <2> HIDE DEF r
  <2> QED
    BY <2>1, <2>3
<1>9. \A c \in Pids : c # z.pid => r[c] = rep[c]
  OBVIOUS
<1>10. \A q \in Pids : \A k, j \in Nat : old(q, k) = old(q, j) => k = j
  BY <1>3
<1> HIDE DEF r, old
<1>11. Untold(n, r, g)
  <2> SUFFICES ASSUME NEW q \in Pids, NEW k \in DOMAIN n.dead[q]
               PROVE  LET c == n.dead[q][k].pid
                      IN  c \in Pids /\ c < g /\ c \notin n.procs /\ r[c] = <<>>
    BY DEF Untold
  <2> DEFINE k0 == old(q, k)
             c == m.dead[q][k0].pid
  <2>1. k0 \in DOMAIN m.dead[q] /\ n.dead[q][k].pid = c /\ ~(q = p /\ k0 = i)
    BY <1>7
  <2> HIDE DEF k0
  <2>2. c # z.pid
    BY <1>3, <2>1 DEF Once, Apart
  <2>3. c \in Pids /\ c < g /\ c \notin m.procs /\ rep[c] = <<>>
    BY <2>1 DEF Once, Untold
  <2> QED
    BY <1>9, <2>1, <2>2, <2>3
<1>12. Apart(n)
  <2> SUFFICES ASSUME NEW q \in Pids, NEW s \in Pids,
                      NEW k \in DOMAIN n.dead[q], NEW j \in DOMAIN n.dead[s],
                      n.dead[q][k].pid = n.dead[s][j].pid
               PROVE  q = s /\ k = j
    BY DEF Apart
  <2> DEFINE k0 == old(q, k)
             j0 == old(s, j)
  <2>1. /\ k0 \in DOMAIN m.dead[q] /\ n.dead[q][k] = m.dead[q][k0]
        /\ j0 \in DOMAIN m.dead[s] /\ n.dead[s][j] = m.dead[s][j0]
    BY <1>7
  <2> HIDE DEF k0, j0
  <2>2. q = s /\ k0 = j0
    BY <2>1 DEF Once, Apart
  <2> QED
    BY <1>7, <1>10, <2>2 DEF k0, j0
<1>13. ToldOnce(n, r, g)
  <2> SUFFICES ASSUME NEW c \in Pids
               PROVE  Len(r[c]) <= 1 /\ (r[c] # <<>> => c \notin n.procs /\ c < g)
    BY DEF ToldOnce
  <2>1. CASE c = z.pid
    <3>1. Len(r[c]) = 1
      BY <1>8, <2>1
    <3> QED
      BY <1>5, <2>1, <3>1
  <2>2. CASE c # z.pid
    BY <1>9, <2>2 DEF Once, ToldOnce
  <2> QED
    BY <2>1, <2>2
<1>14. Once(n, r, g)
  BY <1>11, <1>12, <1>13 DEF Once, Old
<1> QED
  BY <1>14 DEF r

\* After p has exited, the zombies of the others are where they were; p itself
\* may come behind those of its parent, and does if there is room.
LEMMA ExitPlaces ==
    ASSUME NEW m, ManagerOK(m), NEW p \in Pids, NEW code \in Int, NEW n, Exited(m, p, code, n)
    PROVE  /\ \A q \in Pids : \A i \in DOMAIN n.dead[q] :
                 \/ i \in DOMAIN m.dead[q] /\ n.dead[q][i] = m.dead[q][i]
                 \/ q = m.parent[p] /\ i = Len(m.dead[q]) + 1 /\ n.dead[q][i].pid = p
           /\ \A q \in Pids \ {p} : \A i \in DOMAIN m.dead[q] :
                 i \in DOMAIN n.dead[q] /\ n.dead[q][i] = m.dead[q][i]
           /\ LET q == m.parent[p]
              IN  Told(m, p) /\ q # p /\ Len(m.dead[q]) < MAX_CHILDREN
                  => \E i \in DOMAIN n.dead[q] : n.dead[q][i].pid = p
<1> DEFINE z == [pid |-> p, exit_code |-> code]
           dd == ToldDead(m, p, code)
<1>1. /\ m.dead \in [Pids -> Seq(Zombie)]
      /\ \A q \in Pids : /\ m.dead[q] \in Seq(Zombie) /\ Len(m.dead[q]) \in Nat
                         /\ DOMAIN m.dead[q] = 1 .. Len(m.dead[q])
  BY LenProperties DEF ManagerOK, Managers
<1>2. n.procs = m.procs \ {p} /\ n.dead = [q \in Pids |-> IF q = p THEN <<>> ELSE dd[q]]
  BY DEF Exited
<1>3. z \in Zombie /\ z.pid = p
  BY DEF Zombie
<1>4. ASSUME NEW q \in Pids
      PROVE  dd[q] = m.dead[q] \/ (q = m.parent[p] /\ dd[q] = bounded(m.dead[q], z))
  BY <1>1 DEF ToldDead, Told
<1> HIDE DEF dd, z
\* The i-th zombie of q is one q had, or p itself.
<1>5. ASSUME NEW q \in Pids, NEW i \in DOMAIN n.dead[q]
      PROVE  \/ i \in DOMAIN m.dead[q] /\ n.dead[q][i] = m.dead[q][i]
             \/ q = m.parent[p] /\ i = Len(m.dead[q]) + 1 /\ n.dead[q][i].pid = p
  <2>1. CASE q = p
    <3>1. n.dead[q] = <<>> /\ DOMAIN <<>> = {}
      BY <1>2, <2>1
    <3> QED
      BY <1>5, <3>1
  <2>2. CASE q # p /\ dd[q] = m.dead[q]
    BY <1>2, <1>5, <2>2
  <2>3. CASE q # p /\ q = m.parent[p] /\ dd[q] = bounded(m.dead[q], z)
    <3> DEFINE s == m.dead[q]
               t == bounded(s, z)
    <3>1. s \in Seq(Zombie) /\ Len(s) \in Nat /\ DOMAIN s = 1 .. Len(s) /\ n.dead[q] = t
      BY <1>1, <1>2, <2>3
    <3> HIDE DEF s
    <3>2. /\ t \in Seq(Zombie) /\ Len(s) <= Len(t) /\ Len(t) <= Len(s) + 1
          /\ \A k \in 1 .. Len(s) : t[k] = s[k]
          /\ Len(t) = Len(s) + 1 => t[Len(s) + 1] = z
      BY <1>3, <3>1, BoundedPlaces
    <3> HIDE DEF t
    <3>3. i \in 1 .. Len(s) \/ (i = Len(s) + 1 /\ Len(t) = Len(s) + 1)
      <4>1. Len(t) \in Nat /\ DOMAIN t = 1 .. Len(t)
        BY <3>2, LenProperties
      <4>2. i \in 1 .. Len(t) /\ Len(t) \in Nat /\ Len(s) \in Nat
        BY <1>5, <3>1, <4>1
      <4>3. Len(s) <= Len(t) /\ Len(t) <= Len(s) + 1
        BY <3>2
      <4> QED
        BY <4>2, <4>3
    <3>4. CASE i \in 1 .. Len(s)
      BY <3>1, <3>2, <3>4 DEF s
    <3>5. CASE i = Len(s) + 1 /\ Len(t) = Len(s) + 1
      <4>1. n.dead[q][i].pid = p
        BY <1>3, <3>1, <3>2, <3>5
      <4> QED
        BY <2>3, <3>5, <4>1 DEF s
    <3> QED
      BY <3>3, <3>4, <3>5
  <2> QED
    BY <1>4, <2>1, <2>2, <2>3
<1>6. ASSUME NEW q \in Pids, q # p, NEW i \in DOMAIN m.dead[q]
      PROVE  i \in DOMAIN n.dead[q] /\ n.dead[q][i] = m.dead[q][i]
  <2>1. n.dead[q] = dd[q]
    BY <1>2, <1>6
  <2>2. CASE dd[q] = m.dead[q]
    BY <2>1, <2>2
  <2>3. CASE dd[q] = bounded(m.dead[q], z)
    <3> DEFINE s == m.dead[q]
               t == bounded(s, z)
    <3>1. s \in Seq(Zombie) /\ Len(s) \in Nat /\ i \in 1 .. Len(s)
      BY <1>1, <1>6
    <3>2. n.dead[q] = t
      BY <2>1, <2>3
    <3> HIDE DEF s
    <3>3. t \in Seq(Zombie) /\ Len(s) <= Len(t) /\ \A k \in 1 .. Len(s) : t[k] = s[k]
      BY <1>3, <3>1, BoundedPlaces
    <3> HIDE DEF t
    <3>4. t \in Seq(Zombie) /\ Len(s) <= Len(t)
      BY <3>3
    <3>5. Len(t) \in Nat /\ DOMAIN t = 1 .. Len(t)
      BY <3>4, LenProperties
    <3>6. i \in 1 .. Len(t)
      BY <3>1, <3>4, <3>5
    <3>7. t[i] = s[i]
      BY <3>1, <3>3
    <3> QED
      BY <3>2, <3>5, <3>6, <3>7 DEF s
  <2> QED
    BY <1>4, <2>2, <2>3
<1>7. ASSUME Told(m, p), m.parent[p] # p, Len(m.dead[m.parent[p]]) < MAX_CHILDREN
      PROVE  \E i \in DOMAIN n.dead[m.parent[p]] : n.dead[m.parent[p]][i].pid = p
  <2> DEFINE q == m.parent[p]
             s == m.dead[q]
  <2>1. q \in Pids /\ s \in Seq(Zombie) /\ q # p
    BY <1>1, <1>7 DEF Told
  <2>2. n.dead[q] = bounded(s, z)
    BY <1>1, <1>2, <1>7, <2>1 DEF dd, ToldDead, z
  <2>3. n.dead[q] = Append(s, z)
    BY <1>7, <2>2 DEF bounded
  <2>4. Append(s, z) \in Seq(Zombie) /\ Len(Append(s, z)) = Len(s) + 1 /\ Append(s, z)[Len(s) + 1] = z
    BY <1>3, <2>1, AppendProperties
  <2>5. Len(s) \in Nat /\ DOMAIN Append(s, z) = 1 .. Len(s) + 1
    BY <1>1, <2>1, <2>4, LenProperties
  <2> HIDE DEF q, s
  <2>6. Len(s) + 1 \in DOMAIN n.dead[q] /\ n.dead[q][Len(s) + 1].pid = p
    BY <1>3, <2>3, <2>4, <2>5
  <2> QED
    BY <2>6 DEF q
<1> QED
  BY <1>5, <1>6, <1>7

LEMMA OnceExited ==
    ASSUME NEW m, ManagerOK(m), NEW rep, NEW g, Once(m, rep, g),
           NEW p \in Pids, p \in m.procs, NEW code \in Int, NEW n, Exited(m, p, code, n)
    PROVE  Once(n, rep, g)
<1>1. n.procs = m.procs \ {p}
  BY DEF Exited
<1>2. \A q \in Pids : \A i \in DOMAIN n.dead[q] :
         \/ i \in DOMAIN m.dead[q] /\ n.dead[q][i] = m.dead[q][i]
         \/ q = m.parent[p] /\ i = Len(m.dead[q]) + 1 /\ n.dead[q][i].pid = p
  BY ExitPlaces
<1>3. p < g /\ rep[p] = <<>>
  BY DEF Once, Old, ToldOnce
<1>4. Untold(n, rep, g)
  <2> SUFFICES ASSUME NEW q \in Pids, NEW i \in DOMAIN n.dead[q]
               PROVE  LET c == n.dead[q][i].pid
                      IN  c \in Pids /\ c < g /\ c \notin n.procs /\ rep[c] = <<>>
    BY DEF Untold
  <2>1. CASE i \in DOMAIN m.dead[q] /\ n.dead[q][i] = m.dead[q][i]
    BY <1>1, <2>1 DEF Once, Untold
  <2>2. CASE n.dead[q][i].pid = p
    BY <1>1, <1>3, <2>2
  <2> QED
    BY <1>2, <2>1, <2>2
<1>5. Apart(n)
  <2> SUFFICES ASSUME NEW q \in Pids, NEW r \in Pids,
                      NEW i \in DOMAIN n.dead[q], NEW j \in DOMAIN n.dead[r],
                      n.dead[q][i].pid = n.dead[r][j].pid
               PROVE  q = r /\ i = j
    BY DEF Apart
  <2>1. \A a \in Pids : \A k \in DOMAIN m.dead[a] : m.dead[a][k].pid # p
    BY DEF Once, Untold
  <2>2. CASE i \in DOMAIN m.dead[q] /\ n.dead[q][i] = m.dead[q][i]
    BY <1>2, <2>1, <2>2 DEF Once, Apart
  <2>3. CASE q = m.parent[p] /\ i = Len(m.dead[q]) + 1 /\ n.dead[q][i].pid = p
    BY <1>2, <2>1, <2>3
  <2> QED
    BY <1>2, <2>2, <2>3
<1>6. Old(n, g) /\ ToldOnce(n, rep, g)
  BY <1>1 DEF Once, Old, ToldOnce
<1> QED
  BY <1>4, <1>5, <1>6 DEF Once

\* The inductive invariant.
OnceInv == TypeOK /\ Once(pm, reported, g_pid_counter)

LEMMA OnceMiddle ==
    ASSUME OnceInv, NEW p \in Pids, Runs(p), NEW m, Middle(p, m)
    PROVE  Once(m, reported', g_pid_counter')
<1>1. /\ ManagerOK(Popped) /\ Popped \in Managers /\ Popped.procs = pm.procs /\ Popped.dead = pm.dead
      /\ pm.procs \subseteq Pids /\ ManagerOK(pm)
  BY PoppedFields DEF OnceInv, ManagerOK, Managers
<1>2. reported \in [Pids -> Seq(Int)] /\ g_pid_counter \in Nat
  BY ProcSizes DEF OnceInv, TypeOK
<1>3. Once(Popped, reported, g_pid_counter)
  BY <1>1 DEF OnceInv, Once, Old, Untold, Apart, ToldOnce
<1>4. CASE Idle(m)
  <2>1. \A c \in Pids : c < g_pid_counter => c < g_pid_counter'
    BY <1>2, <1>4 DEF Idle, Pids
  <2> QED
    BY <1>1, <1>3, <1>4, <2>1 DEF Idle, Once, Old, Untold, Apart, ToldOnce
<1>5. CASE Born(p, m)
  <2>1. Added(Popped, g_pid_counter, p, m)
    BY <1>1, <1>5, AddFields DEF Born
  <2> QED
    BY <1>1, <1>3, <1>5, <2>1, OnceBorn DEF Born
<1>6. ASSUME NEW i \in 1 .. Len(pm.dead[p]), Reaped(p, m, i)
      PROVE  Once(m, reported', g_pid_counter')
  <2>1. m.procs = Popped.procs /\ m.dead = [Popped.dead EXCEPT ![p] = RemoveAt(@, i)]
    BY <1>1, <1>6 DEF Reaped, Managers
  <2>2. LET z == Popped.dead[p][i]
        IN  Once(m, [reported EXCEPT ![z.pid] = Append(@, z.exit_code)], g_pid_counter)
    BY <1>1, <1>2, <1>3, <2>1, OnceReaped
  <2> QED
    BY <1>1, <1>6, <2>2 DEF Reaped
<1> QED
  BY <1>4, <1>5, <1>6 DEF Middle

LEMMA OnceEnds ==
    ASSUME NEW m, ManagerOK(m), NEW rep, NEW g, Once(m, rep, g),
           NEW p \in Pids, p \in m.procs, NEW n, Ends(p, m, n)
    PROVE  Once(n, rep, g)
<1>1. CASE n = pm_suspend_current(m, p)
  <2>1. n.procs = m.procs /\ n.dead = m.dead
    BY <1>1 DEF pm_suspend_current, ManagerOK, Managers
  <2> QED
    BY <2>1 DEF Once, Old, Untold, Apart, ToldOnce
<1>2. ASSUME NEW code \in Int, n = pm_exit_current(m, p, code)
      PROVE  Once(n, rep, g)
  BY <1>2, ExitFields, OnceExited DEF ManagerOK
<1> QED
  BY <1>1, <1>2 DEF Ends

\* p is still there when its iteration ends.
LEMMA MiddleProcs ==
    ASSUME TypeOK, NEW p \in Pids, Runs(p), NEW m, Middle(p, m)
    PROVE  p \in m.procs /\ pm.procs \subseteq m.procs
<1>1. p \in pm.procs /\ Popped \in Managers /\ Popped.procs = pm.procs
  BY PoppedFields DEF ManagerOK
<1>2. CASE Idle(m)
  BY <1>1, <1>2 DEF Idle
<1>3. CASE Born(p, m)
  <2>1. Added(Popped, g_pid_counter, p, m)
    BY <1>1, <1>3, AddFields DEF Born
  <2> QED
    BY <1>1, <2>1 DEF Added
<1>4. ASSUME NEW i \in 1 .. Len(pm.dead[p]), Reaped(p, m, i)
      PROVE  m.procs = pm.procs
  BY <1>1, <1>4 DEF Reaped, Managers
<1> QED
  BY <1>1, <1>2, <1>3, <1>4 DEF Middle

LEMMA OnceInit == Init => OnceInv
<1> SUFFICES ASSUME Init PROVE OnceInv
  OBVIOUS
<1>1. TypeOK
  BY TypeInit
<1>2. 0 \in Pids /\ pm_init \in Managers
  BY ProcSizes, EmptySeq DEF Pids, pm_init, Managers
<1>3. Added(pm_init, 0, PID_INVALID, pm)
  BY <1>2, AddFields DEF Init
<1>4. pm.procs = {0} /\ \A q \in Pids : pm.dead[q] = <<>>
  BY <1>3 DEF Added, pm_init
<1>5. g_pid_counter = 1 /\ \A c \in Pids : reported[c] = <<>>
  BY DEF Init
<1>6. DOMAIN <<>> = {} /\ Len(<<>>) = 0
  OBVIOUS
<1> QED
  BY <1>1, <1>4, <1>5, <1>6 DEF OnceInv, Once, Old, Untold, Apart, ToldOnce

LEMMA OnceNext == OnceInv /\ [Next]_vars => OnceInv'
<1> SUFFICES ASSUME OnceInv, [Next]_vars PROVE OnceInv'
  OBVIOUS
<1>1. TypeOK /\ TypeOK'
  BY TypeNext DEF OnceInv
<1>2. ASSUME NEW p \in Pids, Iteration(p) PROVE OnceInv'
  <2>1. PICK m : Middle(p, m) /\ Ends(p, m, pm')
    BY <1>2 DEF Iteration
  <2>2. Runs(p)
    BY <1>2 DEF Iteration
  <2>3. ManagerOK(m) /\ p \in m.procs /\ Once(m, reported', g_pid_counter')
    BY <1>1, <2>1, <2>2, MiddleManager, MiddleProcs, OnceMiddle
  <2>4. Once(pm', reported', g_pid_counter')
    BY <2>1, <2>3, OnceEnds
  <2> QED
    BY <1>1, <2>4 DEF OnceInv
<1>3. CASE UNCHANGED vars
  BY <1>1, <1>3 DEF vars, OnceInv, Once, Old, Untold, Apart, ToldOnce
<1> QED
  BY <1>1, <1>2, <1>3, ProcessIteration DEF Next

\* pm_exit_current, pm_wait (proc_manage.c): an exit is told once, to whoever
\* has the zombie on its list, and no process on such a list is alive again.
THEOREM Kernel7ReportedOnce == Spec => []ReportedOnce
<1>1. OnceInv => ReportedOnce
  <2> SUFFICES ASSUME OnceInv PROVE ReportedOnce
    OBVIOUS
  <2>1. \A p \in Pids : pm.dead[p] \in Seq(Zombie)
    BY DEF OnceInv, TypeOK, Managers
  <2>2. ASSUME NEW p \in Pids, NEW z \in Zombies(p)
        PROVE  z.pid \notin pm.procs /\ reported[z.pid] = <<>>
    <3>1. PICK i \in DOMAIN pm.dead[p] : pm.dead[p][i] = z
      BY <2>1, <2>2, SeqSet DEF Zombies
    <3> QED
      BY <3>1 DEF OnceInv, Once, Untold
  <2> QED
    BY <2>2 DEF ReportedOnce, OnceInv, Once, ToldOnce
<1> QED
  BY <1>1, OnceInit, OnceNext, PTL DEF Spec

-----------------------------------------------------------------------------
(***************************************************************************)
(* How many processes there are.                                           *)
(***************************************************************************)
\* Programs that keep the processes, dead or alive, to one family's lists.
NobodyCrowds == "crowd" \notin Workload

\* The processes alive or on a zombie list of m.
KnownTo(m) == m.procs \cup {z.pid : z \in UNION {ToSet(m.dead[q]) : q \in Pids}}
Roomy(m) == Cardinality(KnownTo(m)) <= MAX_CHILDREN + 1

LEMMA KnownIff ==
    ASSUME NEW m, NEW c
    PROVE  c \in KnownTo(m) <=>
               c \in m.procs \/ \E q \in Pids : \E i \in DOMAIN m.dead[q] : m.dead[q][i].pid = c
BY DEF KnownTo, ToSet

LEMMA KnownElement ==
    ASSUME NEW m, ManagerOK(m)
    PROVE  /\ KnownTo(m) \subseteq Pids /\ IsFiniteSet(KnownTo(m)) /\ Cardinality(KnownTo(m)) \in Nat
           /\ \A c : c \in KnownTo(m) <=>
                        c \in m.procs \/ \E q \in Pids : \E i \in DOMAIN m.dead[q] : m.dead[q][i].pid = c
           /\ IsFiniteSet(Pids)
<1>1. m.procs \subseteq Pids /\ m.dead \in [Pids -> Seq(Zombie)]
  BY DEF ManagerOK, Managers
<1>2. ASSUME NEW c
      PROVE  c \in KnownTo(m) <=>
                 c \in m.procs \/ \E q \in Pids : \E i \in DOMAIN m.dead[q] : m.dead[q][i].pid = c
  BY KnownIff
<1>3. ASSUME NEW q \in Pids, NEW i \in DOMAIN m.dead[q]
      PROVE  m.dead[q][i].pid \in Pids
  <2>1. m.dead[q] \in Seq(Zombie)
    BY <1>1
  <2>2. i \in 1 .. Len(m.dead[q])
    BY <1>3, <2>1, LenProperties
  <2>3. m.dead[q][i] \in Zombie
    BY <2>1, <2>2, ElementOfSeq
  <2> QED
    BY <2>3 DEF Zombie
<1>4. KnownTo(m) \subseteq Pids
  BY <1>1, <1>2, <1>3
<1>5. IsFiniteSet(Pids)
  <2>1. 0 \in Int /\ MAX_PROCS - 1 \in Int
    BY ProcSizes
  <2> QED
    BY <2>1, FS_Interval, Zenon DEF Pids
<1>6. IsFiniteSet(KnownTo(m))
  BY <1>4, <1>5, FS_Subset
<1> QED
  BY <1>2, <1>4, <1>5, <1>6, FS_CardinalityType

\* A list without repetition is not longer than a set with its elements.
LEMMA ShortList ==
    ASSUME NEW S, NEW s \in Seq(S), IsInjective(s), NEW T, IsFiniteSet(T), ToSet(s) \subseteq T
    PROVE  Len(s) <= Cardinality(T)
<1> DEFINE f == [i \in 1 .. Len(s) |-> s[i]]
<1>1. Len(s) \in Nat /\ \A i, j \in 1 .. Len(s) : s[i] = s[j] => i = j
  BY SeqSet
<1>2. f \in [1 .. Len(s) -> T] /\ \A i, j \in 1 .. Len(s) : f[i] = f[j] => i = j
  BY <1>1, SeqSet
<1> HIDE DEF f
<1> QED
  BY <1>1, <1>2, InjectiveIsShort

\* Without two of its elements a set is smaller by two.
LEMMA WithoutTwo ==
    ASSUME NEW T, IsFiniteSet(T), NEW a \in T, NEW b \in T, a # b
    PROVE  /\ IsFiniteSet(T \ {a}) /\ Cardinality(T \ {a}) = Cardinality(T) - 1
           /\ IsFiniteSet(T \ {a, b}) /\ Cardinality(T \ {a, b}) = Cardinality(T) - 2
           /\ Cardinality(T) \in Nat
<1>1. IsFiniteSet(T \ {a}) /\ Cardinality(T \ {a}) = Cardinality(T) - 1 /\ Cardinality(T) \in Nat
  BY FS_RemoveElement, FS_CardinalityType
<1>2. IsFiniteSet((T \ {a}) \ {b}) /\ Cardinality((T \ {a}) \ {b}) = Cardinality(T \ {a}) - 1
  BY <1>1, FS_RemoveElement
<1>3. (T \ {a}) \ {b} = T \ {a, b}
  OBVIOUS
<1> QED
  BY <1>1, <1>2, <1>3

\* The zombies of a live process are known, and neither it nor another live
\* process is among them: its list has room for that other process.
LEMMA RoomForZombie ==
    ASSUME NEW m, ManagerOK(m), NEW rep, NEW g, Once(m, rep, g), Roomy(m),
           NEW q \in m.procs, NEW p \in m.procs, p # q
    PROVE  Len(m.dead[q]) < MAX_CHILDREN
<1> DEFINE d == m.dead[q]
           T == KnownTo(m) \ {p, q}
           f == [i \in 1 .. Len(d) |-> d[i].pid]
<1>1. q \in Pids /\ d \in Seq(Zombie) /\ Len(d) \in Nat /\ DOMAIN d = 1 .. Len(d)
  BY LenProperties DEF ManagerOK, Managers
<1>2. p \in KnownTo(m) /\ q \in KnownTo(m) /\ IsFiniteSet(KnownTo(m))
  BY KnownElement
<1>3. IsFiniteSet(T) /\ Cardinality(T) = Cardinality(KnownTo(m)) - 2 /\ Cardinality(KnownTo(m)) \in Nat
  BY <1>2, WithoutTwo
<1>4. \A i \in 1 .. Len(d) : d[i].pid \in T
  BY <1>1, KnownElement DEF Once, Untold
<1>5. \A i, j \in 1 .. Len(d) : d[i].pid = d[j].pid => i = j
  BY <1>1 DEF Once, Apart
<1> HIDE DEF T, d
<1>6. f \in [1 .. Len(d) -> T] /\ \A i, j \in 1 .. Len(d) : f[i] = f[j] => i = j
  BY <1>4, <1>5
<1> HIDE DEF f
<1>7. Len(d) <= Cardinality(T)
  BY <1>1, <1>3, <1>6, InjectiveIsShort
<1>8. Len(d) < MAX_CHILDREN
  BY <1>1, <1>3, <1>7, ProcSizes DEF Roomy
<1> QED
  BY <1>8 DEF d

LEMMA FewerKnown ==
    ASSUME NEW m, ManagerOK(m), NEW n, KnownTo(n) \subseteq KnownTo(m), Roomy(m)
    PROVE  Roomy(n)
<1>1. IsFiniteSet(KnownTo(m)) /\ Cardinality(KnownTo(m)) \in Nat
  BY KnownElement
<1>2. IsFiniteSet(KnownTo(n)) /\ Cardinality(KnownTo(n)) <= Cardinality(KnownTo(m))
  BY <1>1, FS_Subset
<1>3. Cardinality(KnownTo(n)) \in Nat
  BY <1>2, FS_CardinalityType
<1> QED
  BY <1>1, <1>2, <1>3, ProcSizes DEF Roomy

LEMMA MiddleRoomy ==
    ASSUME NobodyCrowds, TypeOK, Roomy(pm), NEW p \in Pids, Runs(p), NEW m, Middle(p, m)
    PROVE  Roomy(m)
<1>1. /\ ManagerOK(pm) /\ ManagerOK(Popped) /\ Popped \in Managers
      /\ Popped.procs = pm.procs /\ Popped.dead = pm.dead /\ KnownTo(Popped) = KnownTo(pm)
  BY PoppedFields DEF ManagerOK, KnownTo
<1>2. CASE Idle(m)
  BY <1>1, <1>2 DEF Idle, Roomy
<1>3. CASE Born(p, m)
  <2> DEFINE c == g_pid_counter
  <2>1. Added(Popped, c, p, m) /\ c \in Pids
    BY <1>1, <1>3, AddFields DEF Born
  <2>2. ManagerOK(m) /\ m.procs = pm.procs \cup {c} /\ m.dead = [pm.dead EXCEPT ![c] = <<>>]
    BY <1>1, <1>3, <2>1, ManagerTypes DEF Added, Born
  <2>3. Cardinality(KnownTo(pm)) <= MAX_CHILDREN
    <3>1. Known = KnownTo(pm)
      BY DEF Known, KnownTo
    <3> QED
      BY <1>3, <3>1 DEF Born, Uses, NobodyCrowds
  <2>4. KnownTo(m) \subseteq KnownTo(pm) \cup {c}
    <3> SUFFICES ASSUME NEW x \in KnownTo(m), x # c PROVE x \in KnownTo(pm)
      OBVIOUS
    <3>1. x \in m.procs \/ \E q \in Pids : \E i \in DOMAIN m.dead[q] : m.dead[q][i].pid = x
      BY KnownIff
    <3>2. pm.dead \in [Pids -> Seq(Zombie)] /\ DOMAIN <<>> = {}
      BY <1>1 DEF ManagerOK, Managers
    <3>3. x \in pm.procs \/ \E q \in Pids : \E i \in DOMAIN pm.dead[q] : pm.dead[q][i].pid = x
      BY <2>2, <3>1, <3>2
    <3> QED
      BY <3>3, KnownIff
  <2>5. /\ IsFiniteSet(KnownTo(pm) \cup {c}) /\ Cardinality(KnownTo(pm)) \in Nat
        /\ Cardinality(KnownTo(pm) \cup {c}) <= Cardinality(KnownTo(pm)) + 1
        /\ Cardinality(KnownTo(pm) \cup {c}) \in Nat
    <3>1. IsFiniteSet(KnownTo(pm)) /\ Cardinality(KnownTo(pm)) \in Nat
      BY <1>1, KnownElement
    <3> QED
      BY <3>1, FS_AddElement, FS_CardinalityType
  <2>6. Cardinality(KnownTo(m)) <= Cardinality(KnownTo(pm) \cup {c}) /\ Cardinality(KnownTo(m)) \in Nat
    BY <2>2, <2>4, <2>5, FS_Subset, KnownElement
  <2> QED
    BY <2>3, <2>5, <2>6, ProcSizes DEF Roomy
<1>4. ASSUME NEW i \in 1 .. Len(pm.dead[p]), Reaped(p, m, i)
      PROVE  Roomy(m)
  <2>1. m.procs = pm.procs /\ m.dead = [pm.dead EXCEPT ![p] = RemoveAt(@, i)] /\ ManagerOK(m)
    BY <1>1, <1>4, MiddleManager DEF Reaped, Managers, Middle
  <2>2. pm.dead \in [Pids -> Seq(Zombie)] /\ pm.dead[p] \in Seq(Zombie)
    BY <1>1 DEF ManagerOK, Managers
  <2>3. DropsPlace(pm.dead[p], i, RemoveAt(pm.dead[p], i)) /\ i \in Nat /\ Len(pm.dead[p]) \in Nat
        /\ DOMAIN pm.dead[p] = 1 .. Len(pm.dead[p])
    BY <2>2, RemovedPlaces
  <2>4. ASSUME NEW q \in Pids, NEW k \in DOMAIN m.dead[q]
        PROVE  \E j \in DOMAIN pm.dead[q] : pm.dead[q][j] = m.dead[q][k]
    <3>1. CASE q # p
      BY <2>1, <2>2, <2>4, <3>1
    <3>2. CASE q = p
      <4>1. m.dead[p] = RemoveAt(pm.dead[p], i) /\ k \in 1 .. Len(pm.dead[p]) - 1
        BY <2>1, <2>2, <2>3, <2>4, <3>2 DEF DropsPlace
      <4>2. k \in DOMAIN pm.dead[p] /\ k + 1 \in DOMAIN pm.dead[p]
        BY <2>3, <4>1
      <4>3. m.dead[p][k] = pm.dead[p][k] \/ m.dead[p][k] = pm.dead[p][k + 1]
        BY <2>3, <4>1 DEF DropsPlace
      <4> QED
        BY <3>2, <4>2, <4>3
    <3> QED
      BY <3>1, <3>2
  <2>5. KnownTo(m) \subseteq KnownTo(pm)
    <3> SUFFICES ASSUME NEW x \in KnownTo(m) PROVE x \in KnownTo(pm)
      OBVIOUS
    <3>1. x \in m.procs \/ \E q \in Pids : \E k \in DOMAIN m.dead[q] : m.dead[q][k].pid = x
      BY KnownIff
    <3>2. x \in pm.procs \/ \E q \in Pids : \E k \in DOMAIN pm.dead[q] : pm.dead[q][k].pid = x
      BY <2>1, <2>4, <3>1
    <3> QED
      BY <3>2, KnownIff
  <2> QED
    BY <1>1, <2>5, FewerKnown
<1> QED
  BY <1>2, <1>3, <1>4 DEF Middle

LEMMA EndsRoomy ==
    ASSUME NEW m, ManagerOK(m), Roomy(m), NEW p \in Pids, p \in m.procs, NEW n, Ends(p, m, n)
    PROVE  Roomy(n)
<1>1. CASE n = pm_suspend_current(m, p)
  <2>1. n.procs = m.procs /\ n.dead = m.dead
    BY <1>1 DEF pm_suspend_current, ManagerOK, Managers
  <2> QED
    BY <2>1 DEF Roomy, KnownTo
<1>2. ASSUME NEW code \in Int, n = pm_exit_current(m, p, code)
      PROVE  Roomy(n)
  <2>1. Exited(m, p, code, n) /\ ManagerOK(n)
    BY <1>2, ExitFields, ManagerTypes DEF ManagerOK
  <2>2. n.procs = m.procs \ {p}
    BY <2>1 DEF Exited
  <2>3. KnownTo(n) \subseteq KnownTo(m)
    <3> SUFFICES ASSUME NEW x \in KnownTo(n) PROVE x \in KnownTo(m)
      OBVIOUS
    <3>1. x \in n.procs \/ \E q \in Pids : \E k \in DOMAIN n.dead[q] : n.dead[q][k].pid = x
      BY KnownIff
    <3>2. x = p \/ x \in m.procs \/ \E q \in Pids : \E k \in DOMAIN m.dead[q] : m.dead[q][k].pid = x
      BY <2>1, <2>2, <3>1, ExitPlaces
    <3> QED
      BY <3>2, KnownIff
  <2> QED
    BY <2>3, FewerKnown
<1> QED
  BY <1>1, <1>2 DEF Ends

-----------------------------------------------------------------------------
(***************************************************************************)
(* The family tree.                                                        *)
(***************************************************************************)
\* The live processes whose parent is q.
Children(m, q) == {c \in m.procs : m.parent[c] = q}

\* A parent is older than its child, so nobody is an ancestor of itself.
Older(m) == \A c \in m.procs : m.parent[c] < c
\* Every list of children holds children, each once, the list of a live
\* process all of them.  (The list of process 0 goes on being filled after it
\* has exited.)
Listed(m) == \A q \in Pids : /\ IsInjective(m.children[q])
                             /\ ToSet(m.children[q]) \subseteq Children(m, q)
                             /\ q \in m.procs => ToSet(m.children[q]) = Children(m, q)
Family(m) == Older(m) /\ Listed(m)

\* What the proofs below use of a manager.
LEMMA FamilyTypes ==
    ASSUME NEW m, ManagerOK(m)
    PROVE  /\ m.procs \subseteq Pids /\ IsFiniteSet(m.procs) /\ IsFiniteSet(Pids)
           /\ m.parent \in [Pids -> Pids \cup {PID_INVALID}]
           /\ m.children \in [Pids -> Seq(Pids)]
           /\ \A q \in Pids : Len(m.children[q]) \in Nat
           /\ \A c \in Pids : c \in Nat /\ m.parent[c] \in Int
           /\ 0 \in Pids
<1>1. /\ m.procs \subseteq Pids /\ m.parent \in [Pids -> Pids \cup {PID_INVALID}]
      /\ m.children \in [Pids -> Seq(Pids)]
  BY DEF ManagerOK, Managers
<1>2. IsFiniteSet(m.procs) /\ IsFiniteSet(Pids)
  BY <1>1, KnownElement, FS_Subset
<1>3. 0 \in Pids /\ \A c \in Pids : c \in Nat
  BY ProcSizes DEF Pids
<1>4. \A c \in Pids : m.parent[c] \in Int
  BY <1>1, <1>3 DEF PID_INVALID
<1>5. \A q \in Pids : Len(m.children[q]) \in Nat
  BY <1>1, LenProperties
<1> QED
  BY <1>1, <1>2, <1>3, <1>4, <1>5

\* The live processes that are not p are at most as many as a list holds.
LEMMA OthersFit ==
    ASSUME NEW m, ManagerOK(m), Roomy(m), NEW p \in m.procs, NEW T, T \subseteq m.procs \ {p}
    PROVE  IsFiniteSet(T) /\ Cardinality(T) \in Nat /\ Cardinality(T) <= MAX_CHILDREN
<1> DEFINE K == KnownTo(m)
<1>1. IsFiniteSet(K) /\ Cardinality(K) \in Nat
  BY KnownElement
<1>2. p \in K /\ T \subseteq K \ {p}
  BY DEF KnownTo
<1>3. Cardinality(K) <= MAX_CHILDREN + 1
  BY DEF Roomy
<1> HIDE DEF K
<1>4. IsFiniteSet(K \ {p}) /\ Cardinality(K \ {p}) = Cardinality(K) - 1
  BY <1>1, <1>2, FS_RemoveElement
<1>5. IsFiniteSet(T) /\ Cardinality(T) <= Cardinality(K \ {p})
  BY <1>2, <1>4, FS_Subset
<1>6. Cardinality(T) \in Nat
  BY <1>5, FS_CardinalityType
<1> QED
  BY <1>1, <1>3, <1>4, <1>5, <1>6, ProcSizes

LEMMA FamilyBorn ==
    ASSUME NEW m, ManagerOK(m), Family(m), NEW c \in Pids, Old(m, c), NEW q \in m.procs,
           Cardinality(KnownTo(m)) <= MAX_CHILDREN, NEW n, Added(m, c, q, n)
    PROVE  Family(n)
<1>1. /\ m.procs \subseteq Pids /\ m.parent \in [Pids -> Pids \cup {PID_INVALID}]
      /\ m.children \in [Pids -> Seq(Pids)] /\ q \in Pids
      /\ \A x \in Pids : x \in Nat /\ m.parent[x] \in Int
  BY FamilyTypes
<1>2. \A x \in m.procs : x < c /\ x # c /\ m.parent[x] # c
  BY <1>1 DEF Old, Family, Older
<1>3. /\ n.procs = m.procs \cup {c} /\ n.parent = [m.parent EXCEPT ![c] = q]
      /\ n.children = [x \in Pids |-> IF x = c THEN <<>>
                                      ELSE IF x = q THEN bounded(m.children[x], c)
                                      ELSE m.children[x]]
  BY DEF Added
<1>4. Older(n)
  BY <1>1, <1>2, <1>3 DEF Older, Family
<1>5. n.children[q] = Append(m.children[q], c)
  <2> DEFINE K == KnownTo(m)
  <2>1. IsFiniteSet(K) /\ Cardinality(K) \in Nat /\ q \in K
    BY KnownElement DEF KnownTo
  <2>2. IsFiniteSet(K \ {q}) /\ Cardinality(K \ {q}) = Cardinality(K) - 1
    BY <2>1, FS_RemoveElement
  <2>3. IsInjective(m.children[q]) /\ ToSet(m.children[q]) \subseteq K \ {q}
    <3>1. IsInjective(m.children[q]) /\ ToSet(m.children[q]) \subseteq Children(m, q)
      BY <1>1 DEF Family, Listed
    <3>2. q \notin Children(m, q)
      BY <1>1 DEF Family, Older, Children
    <3> QED
      BY <3>1, <3>2 DEF Children, KnownTo
  <2>4. Cardinality(K) <= MAX_CHILDREN
    OBVIOUS
  <2> HIDE DEF K
  <2>5. Len(m.children[q]) <= Cardinality(K \ {q}) /\ Len(m.children[q]) \in Nat
    BY <1>1, <2>2, <2>3, ShortList, FamilyTypes
  <2>6. Len(m.children[q]) < MAX_CHILDREN
    BY <2>1, <2>2, <2>4, <2>5, ProcSizes
  <2> QED
    BY <1>1, <1>2, <1>3, <2>6 DEF bounded
<1>6. ASSUME NEW x \in Pids
      PROVE  /\ IsInjective(n.children[x])
             /\ ToSet(n.children[x]) \subseteq Children(n, x)
             /\ x \in n.procs => ToSet(n.children[x]) = Children(n, x)
  <2>1. /\ IsInjective(m.children[x]) /\ ToSet(m.children[x]) \subseteq Children(m, x)
        /\ x \in m.procs => ToSet(m.children[x]) = Children(m, x)
        /\ m.children[x] \in Seq(Pids)
    BY <1>1 DEF Family, Listed
  <2>2. Children(n, x) = IF x = q THEN Children(m, x) \cup {c} ELSE Children(m, x)
    BY <1>1, <1>2, <1>3 DEF Children
  <2>3. CASE x = c
    <3>1. n.children[x] = <<>> /\ x # q
      BY <1>2, <1>3, <2>3
    <3>2. Children(m, x) = {}
      BY <1>2, <2>3 DEF Children
    <3>3. IsInjective(<<>>) /\ ToSet(<<>>) = {}
      BY DEF IsInjective, ToSet
    <3> QED
      BY <2>2, <3>1, <3>2, <3>3
  <2>4. CASE x = q
    <3>1. c \notin ToSet(m.children[x])
      BY <1>2, <2>1 DEF Children
    <3>2. IsInjective(n.children[x]) /\ ToSet(n.children[x]) = ToSet(m.children[x]) \cup {c}
      <4> DEFINE s == m.children[x]
      <4>1. s \in Seq(Pids) /\ IsInjective(s) /\ c \notin ToSet(s) /\ n.children[x] = Append(s, c)
        BY <1>5, <2>1, <2>4, <3>1
      <4> HIDE DEF s
      <4>2. IsInjective(n.children[x]) /\ ToSet(n.children[x]) = ToSet(s) \cup {c}
        BY <4>1, AppendSet
      <4> QED
        BY <4>2 DEF s
    <3> QED
      BY <1>1, <2>1, <2>2, <2>4, <3>2
  <2>5. CASE x # c /\ x # q
    <3>1. n.children[x] = m.children[x]
      BY <1>3, <2>5
    <3> QED
      BY <1>3, <2>1, <2>2, <2>5, <3>1
  <2> QED
    BY <2>3, <2>4, <2>5
<1> QED
  BY <1>4, <1>6 DEF Family, Listed

\* The lists of children once p's parent has been told.
LEMMA ToldFamily ==
    ASSUME NEW m, ManagerOK(m), Family(m), NEW p \in m.procs, NEW x \in Pids
    PROVE  LET s == ToldChildren(m, p)[x]
           IN  s \in Seq(Pids) /\ IsInjective(s) /\ ToSet(s) = ToSet(m.children[x]) \ {p}
<1>1. /\ m.children \in [Pids -> Seq(Pids)] /\ m.children[x] \in Seq(Pids) /\ p \in Pids
      /\ IsInjective(m.children[x]) /\ ToSet(m.children[x]) \subseteq Children(m, x)
  BY FamilyTypes DEF Family, Listed
<1>2. CASE Told(m, p) /\ x = m.parent[p]
  <2>1. ToldChildren(m, p)[x] = RemoveFirst(m.children[x], p)
    BY <1>1, <1>2 DEF ToldChildren
  <2> QED
    BY <1>1, <2>1, RemoveFirstSet
<1>3. CASE ~(Told(m, p) /\ x = m.parent[p])
  <2>1. ToldChildren(m, p)[x] = m.children[x]
    BY <1>1, <1>3 DEF ToldChildren
  <2>2. p \notin ToSet(m.children[x])
    BY <1>1, <1>3 DEF Told, Children
  <2> QED
    BY <1>1, <2>1, <2>2
<1> QED
  BY <1>2, <1>3

LEMMA FamilyExited ==
    ASSUME NEW m, ManagerOK(m), Family(m), Roomy(m), NEW p \in m.procs,
           NEW code \in Int, NEW n, Exited(m, p, code, n)
    PROVE  Family(n)
<1> DEFINE ch == ToldChildren(m, p)
<1>1. /\ m.procs \subseteq Pids /\ m.parent \in [Pids -> Pids \cup {PID_INVALID}]
      /\ m.children \in [Pids -> Seq(Pids)] /\ p \in Pids /\ 0 \in Pids
      /\ \A x \in Pids : x \in Nat /\ m.parent[x] \in Int
  BY FamilyTypes
<1>2. \A x \in Pids : ch[x] \in Seq(Pids) /\ IsInjective(ch[x]) /\ ToSet(ch[x]) = ToSet(m.children[x]) \ {p}
  BY ToldFamily
<1>3. /\ n.procs = m.procs \ {p}
      /\ n.parent = [c \in Pids |-> IF c = p \/ Contains(ch[p], c) THEN 0 ELSE m.parent[c]]
      /\ n.children = [x \in Pids |-> IF x = p THEN <<>>
                                      ELSE IF x = 0 THEN Truncated(ch[0] \o ch[p])
                                      ELSE ch[x]]
  BY DEF Exited
<1> HIDE DEF ch
<1>4. /\ \A x \in Pids : ToSet(m.children[x]) \subseteq Children(m, x)
      /\ \A x \in m.procs : ToSet(m.children[x]) = Children(m, x)
  BY <1>1 DEF Family, Listed
<1>5. \A x \in m.procs : m.parent[x] < x /\ m.parent[x] # x
  BY <1>1 DEF Family, Older
<1>6. ToSet(ch[p]) = Children(m, p) /\ \A c : Contains(ch[p], c) <=> c \in Children(m, p)
  <2>1. ToSet(ch[p]) = Children(m, p)
    <3>1. p \notin Children(m, p)
      BY <1>5 DEF Children
    <3>2. ToSet(ch[p]) = ToSet(m.children[p]) \ {p} /\ ToSet(m.children[p]) = Children(m, p)
      BY <1>1, <1>2, <1>4
    <3> QED
      BY <3>1, <3>2
  <2>2. \A c : Contains(ch[p], c) <=> c \in ToSet(ch[p])
    BY <1>1, <1>2, SeqSet
  <2> QED
    BY <2>1, <2>2
<1>7. \A c \in n.procs : c \in m.procs /\ c # p /\ n.parent[c] = IF m.parent[c] = p THEN 0 ELSE m.parent[c]
  BY <1>1, <1>3, <1>6 DEF Children
<1>8. Older(n)
  <2> SUFFICES ASSUME NEW c \in n.procs PROVE n.parent[c] < c
    BY DEF Older
  <2>1. c \in Nat /\ p \in Nat /\ m.parent[c] < c
    BY <1>1, <1>5, <1>7
  <2>2. CASE m.parent[c] = p
    BY <1>7, <2>1, <2>2
  <2>3. CASE m.parent[c] # p
    BY <1>7, <2>1, <2>3
  <2> QED
    BY <2>2, <2>3
<1>9. \A x \in Pids : Children(n, x) = IF x = p THEN Children(n, x)
                                       ELSE IF x = 0 THEN (Children(m, 0) \ {p}) \cup Children(m, p)
                                       ELSE Children(m, x) \ {p}
  <2> SUFFICES ASSUME NEW x \in Pids, x # p
               PROVE  Children(n, x) = IF x = 0 THEN (Children(m, 0) \ {p}) \cup Children(m, p)
                                       ELSE Children(m, x) \ {p}
    OBVIOUS
  <2>1. p \notin Children(m, p)
    BY <1>1, <1>5 DEF Children
  <2> QED
    BY <1>3, <1>7, <2>1 DEF Children
<1>10. ASSUME NEW x \in Pids
       PROVE  /\ IsInjective(n.children[x])
              /\ ToSet(n.children[x]) \subseteq Children(n, x)
              /\ x \in n.procs => ToSet(n.children[x]) = Children(n, x)
  <2>1. CASE x = p
    <3>1. n.children[x] = <<>> /\ x \notin n.procs
      BY <1>3, <2>1
    <3>2. IsInjective(<<>>) /\ ToSet(<<>>) = {}
      BY DEF IsInjective, ToSet
    <3> QED
      BY <3>1, <3>2
  <2>2. CASE x # p /\ x = 0
    <3> DEFINE s == ch[0]
               t == ch[p]
    <3>1. n.children[x] = Truncated(s \o t)
      BY <1>3, <2>2
    <3>2. /\ s \in Seq(Pids) /\ t \in Seq(Pids) /\ IsInjective(s) /\ IsInjective(t)
          /\ ToSet(s) = ToSet(m.children[0]) \ {p} /\ ToSet(t) = Children(m, p)
      BY <1>1, <1>2, <1>6
    <3>3. ToSet(s) \subseteq Children(m, 0) \ {p} /\ ToSet(s) \cap ToSet(t) = {}
      BY <1>1, <1>4, <2>2, <3>2 DEF Children
    <3>4. ToSet(t) \subseteq m.procs \ {p} /\ ToSet(s) \subseteq m.procs \ {p}
      BY <1>1, <1>5, <3>2, <3>3 DEF Children
    <3> HIDE DEF s, t
    <3>5. Len(s) + Len(t) <= MAX_CHILDREN
      <4>1. /\ IsFiniteSet(ToSet(s)) /\ Cardinality(ToSet(s)) \in Nat
            /\ IsFiniteSet(ToSet(t)) /\ Cardinality(ToSet(t)) \in Nat
        BY <3>4, OthersFit
      <4>2. Cardinality(ToSet(s) \cup ToSet(t)) <= MAX_CHILDREN
        BY <3>4, OthersFit
      <4>3. Len(s) <= Cardinality(ToSet(s)) /\ Len(t) <= Cardinality(ToSet(t))
        BY <3>2, <4>1, ShortList
      <4>4. Len(s) \in Nat /\ Len(t) \in Nat
        BY <3>2, LenProperties
      <4>5. Cardinality(ToSet(s) \cup ToSet(t)) = Cardinality(ToSet(s)) + Cardinality(ToSet(t)) - Cardinality({})
        BY <3>3, <4>1, FS_Union
      <4>6. Cardinality({}) = 0
        BY FS_EmptySet
      <4> QED
        BY <4>1, <4>2, <4>3, <4>4, <4>5, <4>6, ProcSizes
    <3>6. IsInjective(n.children[x]) /\ ToSet(n.children[x]) = ToSet(s) \cup ToSet(t)
      <4> DEFINE r == Truncated(s \o t)
      <4>1. /\ r \in Seq(Pids)
            /\ ToSet(r) \subseteq ToSet(s) \cup ToSet(t)
            /\ Len(s) + Len(t) <= MAX_CHILDREN => ToSet(r) = ToSet(s) \cup ToSet(t)
            /\ IsInjective(s) /\ IsInjective(t) /\ ToSet(s) \cap ToSet(t) = {} => IsInjective(r)
        BY <3>2, TruncatedSet
      <4> HIDE DEF r
      <4>2. IsInjective(r) /\ ToSet(r) = ToSet(s) \cup ToSet(t)
        BY <3>2, <3>3, <3>5, <4>1
      <4> QED
        BY <3>1, <4>2 DEF r
    <3>7. x \in n.procs => ToSet(s) = Children(m, 0) \ {p}
      BY <1>3, <1>4, <2>2, <3>2
    <3>8. Children(n, x) = (Children(m, 0) \ {p}) \cup Children(m, p)
      BY <1>9, <2>2
    <3> QED
      BY <3>2, <3>3, <3>6, <3>7, <3>8
  <2>3. CASE x # p /\ x # 0
    <3>1. n.children[x] = ch[x]
      BY <1>3, <2>3
    <3>2. Children(n, x) = Children(m, x) \ {p}
      BY <1>9, <2>3
    <3> QED
      BY <1>2, <1>3, <1>4, <2>3, <3>1, <3>2
  <2> QED
    BY <2>1, <2>2, <2>3
<1> QED
  BY <1>8, <1>10 DEF Family, Listed

\* The inductive invariant: with it the lists of children and zombies never
\* drop an entry.
TreeInv == OnceInv /\ Family(pm) /\ Roomy(pm)

LEMMA FamilySame ==
    ASSUME NEW m, NEW n, Family(m), n.procs = m.procs, n.parent = m.parent, n.children = m.children
    PROVE  Family(n)
BY DEF Family, Older, Listed, Children

LEMMA MiddleFamily ==
    ASSUME NobodyCrowds, TreeInv, NEW p \in Pids, Runs(p), NEW m, Middle(p, m)
    PROVE  Family(m)
<1>1. /\ ManagerOK(Popped) /\ Popped \in Managers /\ Popped.procs = pm.procs /\ p \in pm.procs
      /\ Popped.parent = pm.parent /\ Popped.children = pm.children /\ Popped.dead = pm.dead
  BY PoppedFields DEF TreeInv, OnceInv, ManagerOK
<1>2. Family(Popped)
  BY <1>1, FamilySame DEF TreeInv
<1>3. CASE Idle(m)
  BY <1>2, <1>3 DEF Idle
<1>4. CASE Born(p, m)
  <2>1. Added(Popped, g_pid_counter, p, m) /\ g_pid_counter \in Pids
    BY <1>1, <1>4, AddFields DEF Born
  <2>2. Old(Popped, g_pid_counter)
    BY <1>1 DEF TreeInv, OnceInv, Once, Old
  <2>3. Cardinality(KnownTo(Popped)) <= MAX_CHILDREN
    <3>1. KnownTo(Popped) = Known
      BY <1>1 DEF Known, KnownTo
    <3> QED
      BY <1>4, <3>1 DEF Born, Uses, NobodyCrowds
  <2> QED
    BY <1>1, <1>2, <2>1, <2>2, <2>3, FamilyBorn
<1>5. ASSUME NEW i \in 1 .. Len(pm.dead[p]), Reaped(p, m, i)
      PROVE  Family(m)
  <2>1. m.procs = Popped.procs /\ m.parent = Popped.parent /\ m.children = Popped.children
    BY <1>1, <1>5 DEF Reaped, Managers
  <2> QED
    BY <1>2, <2>1, FamilySame
<1> QED
  BY <1>3, <1>4, <1>5 DEF Middle

LEMMA EndsFamily ==
    ASSUME NEW m, ManagerOK(m), Family(m), Roomy(m), NEW p \in m.procs, NEW n, Ends(p, m, n)
    PROVE  Family(n)
<1>1. CASE n = pm_suspend_current(m, p)
  <2>1. n.procs = m.procs /\ n.parent = m.parent /\ n.children = m.children
    BY <1>1 DEF pm_suspend_current, ManagerOK, Managers
  <2> QED
    BY <2>1, FamilySame
<1>2. ASSUME NEW code \in Int, n = pm_exit_current(m, p, code)
      PROVE  Family(n)
  <2>1. p \in Pids /\ m \in Managers
    BY FamilyTypes DEF ManagerOK
  <2> QED
    BY <1>2, <2>1, ExitFields, FamilyExited
<1> QED
  BY <1>1, <1>2 DEF Ends

\* One iteration, with all that holds of the manager in its middle.
LEMMA TreeIteration ==
    ASSUME NobodyCrowds, TreeInv, NEW p \in Pids, Iteration(p)
    PROVE  /\ \E m : /\ Middle(p, m) /\ Ends(p, m, pm') /\ ManagerOK(m) /\ p \in m.procs
                     /\ Once(m, reported', g_pid_counter') /\ Family(m) /\ Roomy(m)
           /\ Family(pm') /\ Roomy(pm')
<1>1. PICK m : Middle(p, m) /\ Ends(p, m, pm')
  BY DEF Iteration
<1>2. Runs(p) /\ TypeOK /\ OnceInv /\ Roomy(pm)
  BY DEF Iteration, TreeInv, OnceInv
<1>3. ManagerOK(m) /\ p \in m.procs /\ Once(m, reported', g_pid_counter')
  BY <1>1, <1>2, MiddleManager, MiddleProcs, OnceMiddle
<1>4. Family(m) /\ Roomy(m)
  BY <1>1, <1>2, MiddleFamily, MiddleRoomy
<1>5. Family(pm') /\ Roomy(pm')
  BY <1>1, <1>3, <1>4, EndsFamily, EndsRoomy
<1> QED
  BY <1>1, <1>3, <1>4, <1>5

LEMMA TreeInit == Init => TreeInv
<1> SUFFICES ASSUME Init PROVE TreeInv
  OBVIOUS
<1>1. OnceInv
  BY OnceInit
<1>2. 0 \in Pids /\ pm_init \in Managers
  BY ProcSizes, EmptySeq DEF Pids, pm_init, Managers
<1>3. Added(pm_init, 0, PID_INVALID, pm)
  BY <1>2, AddFields DEF Init
<1>4. /\ pm.procs = {0} /\ \A q \in Pids : pm.dead[q] = <<>> /\ pm.children[q] = <<>>
      /\ pm.parent[0] = PID_INVALID
  <2>1. \A q \in Pids : q # PID_INVALID
    BY DEF Pids, PID_INVALID
  <2> QED
    BY <1>2, <1>3, <2>1 DEF Added, pm_init
<1>5. Older(pm)
  BY <1>4 DEF Older, PID_INVALID
<1>6. Listed(pm)
  <2>1. \A q \in Pids : Children(pm, q) = {}
    BY <1>4 DEF Children, Pids, PID_INVALID
  <2>2. IsInjective(<<>>) /\ ToSet(<<>>) = {}
    BY DEF IsInjective, ToSet
  <2> QED
    BY <1>4, <2>1, <2>2 DEF Listed
<1>7. Roomy(pm)
  <2>1. ManagerOK(pm)
    BY <1>1 DEF OnceInv, TypeOK, ManagerOK
  <2>2. KnownTo(pm) = {0}
    <3>1. DOMAIN <<>> = {}
      OBVIOUS
    <3>2. \A c : c \in KnownTo(pm) <=> c = 0
      BY <1>4, <3>1, KnownIff
    <3> QED
      BY <3>2
  <2>3. IsFiniteSet({}) /\ Cardinality({}) = 0
    BY FS_EmptySet
  <2>4. Cardinality({} \cup {0}) = 0 + 1
    BY <2>3, FS_AddElement
  <2>5. {} \cup {0} = {0}
    OBVIOUS
  <2>6. Cardinality(KnownTo(pm)) = 1
    BY <2>2, <2>4, <2>5
  <2> QED
    BY <2>6, ProcSizes DEF Roomy
<1> QED
  BY <1>1, <1>5, <1>6, <1>7 DEF TreeInv, Family

LEMMA TreeNext == NobodyCrowds /\ TreeInv /\ [Next]_vars => TreeInv'
<1> SUFFICES ASSUME NobodyCrowds, TreeInv, [Next]_vars PROVE TreeInv'
  OBVIOUS
<1>1. OnceInv' /\ TypeOK
  BY OnceNext DEF TreeInv, OnceInv
<1>2. ASSUME NEW p \in Pids, Iteration(p) PROVE TreeInv'
  BY <1>1, <1>2, TreeIteration DEF TreeInv
<1>3. CASE UNCHANGED vars
  BY <1>1, <1>3 DEF vars, TreeInv
<1> QED
  BY <1>1, <1>2, <1>3, ProcessIteration DEF Next

\* pm_add, pm_exit_current (proc_manage.c): the lists of children and the
\* parent fields agree for every live process, while there are never more
\* processes than the lists were made for.
THEOREM Kernel7FamilyTree == ASSUME NobodyCrowds PROVE Spec => []FamilyTree
<1>1. TreeInv => FamilyTree
  <2> SUFFICES ASSUME TreeInv PROVE FamilyTree
    OBVIOUS
  <2>1. pm.procs \subseteq Pids
    BY DEF TreeInv, OnceInv, TypeOK, Managers
  <2> QED
    BY <2>1 DEF FamilyTree, TreeInv, Family, Listed, Children
<1> QED
  BY <1>1, TreeInit, TreeNext, PTL DEF Spec

-----------------------------------------------------------------------------
(***************************************************************************)
(* What a step does with exits.                                            *)
(***************************************************************************)
\* The step of NoExitLost.
ExitsKept == \A p \in pm.procs \cap pm'.procs :
    /\ \A c \in pm.procs \ pm'.procs :
          pm.parent[c] = p => \E z \in Zombies(p)' : z.pid = c
    /\ \A z \in Zombies(p) \ Zombies(p)' :
          reported'[z.pid] = Append(reported[z.pid], z.exit_code)

\* What the first half of an iteration of a leaves of the zombies.
LEMMA MiddleZombies ==
    ASSUME TreeInv, NEW a \in Pids, Runs(a), NEW m, Middle(a, m), NEW p \in pm.procs
    PROVE  /\ \A c \in pm.procs : m.parent[c] = pm.parent[c]
           /\ \A i \in DOMAIN pm.dead[p] :
                 \/ \E j \in DOMAIN m.dead[p] : m.dead[p][j] = pm.dead[p][i]
                 \/ LET z == pm.dead[p][i]
                    IN  reported'[z.pid] = Append(reported[z.pid], z.exit_code)
<1>1. /\ ManagerOK(Popped) /\ Popped \in Managers /\ Popped.procs = pm.procs
      /\ Popped.parent = pm.parent /\ Popped.dead = pm.dead
      /\ pm.procs \subseteq Pids /\ pm.dead \in [Pids -> Seq(Zombie)]
      /\ pm.parent \in [Pids -> Pids \cup {PID_INVALID}]
  BY PoppedFields DEF TreeInv, OnceInv, ManagerOK, Managers
<1>2. CASE Idle(m)
  BY <1>1, <1>2 DEF Idle
<1>3. CASE Born(a, m)
  <2> DEFINE c == g_pid_counter
  <2>1. Added(Popped, c, a, m) /\ c \in Pids
    BY <1>1, <1>3, AddFields DEF Born
  <2>2. c \notin pm.procs
    BY <2>1 DEF TreeInv, OnceInv, Once, Old, Pids
  <2>3. m.parent = [pm.parent EXCEPT ![c] = a] /\ m.dead = [pm.dead EXCEPT ![c] = <<>>]
    BY <1>1, <2>1 DEF Added
  <2> HIDE DEF c
  <2>4. m.dead[p] = pm.dead[p] /\ \A x \in pm.procs : m.parent[x] = pm.parent[x]
    BY <1>1, <2>1, <2>2, <2>3
  <2> QED
    BY <2>4
<1>4. ASSUME NEW k \in 1 .. Len(pm.dead[a]), Reaped(a, m, k)
      PROVE  /\ \A c \in pm.procs : m.parent[c] = pm.parent[c]
             /\ \A i \in DOMAIN pm.dead[p] :
                   \/ \E j \in DOMAIN m.dead[p] : m.dead[p][j] = pm.dead[p][i]
                   \/ LET z == pm.dead[p][i]
                      IN  reported'[z.pid] = Append(reported[z.pid], z.exit_code)
  <2> DEFINE d == pm.dead[a]
  <2>1. m.parent = pm.parent /\ m.dead = [pm.dead EXCEPT ![a] = RemoveAt(d, k)]
    BY <1>1, <1>4 DEF Reaped, Managers
  <2>2. d \in Seq(Zombie) /\ p \in Pids
    BY <1>1
  <2>3. /\ k \in DOMAIN d /\ d[k] \in Zombie /\ k \in Nat /\ Len(d) \in Nat /\ DOMAIN d = 1 .. Len(d)
        /\ DropsPlace(d, k, RemoveAt(d, k))
    BY <1>4, <2>2, RemovedPlaces
  <2>4. reported'[d[k].pid] = Append(reported[d[k].pid], d[k].exit_code)
    <3>1. d[k].pid \in Pids /\ reported \in [Pids -> Seq(Int)]
      BY <2>3 DEF Zombie, TreeInv, OnceInv, TypeOK
    <3>2. reported' = [reported EXCEPT ![d[k].pid] = Append(@, d[k].exit_code)]
      BY <1>4 DEF Reaped
    <3> QED
      BY <3>1, <3>2
  <2>5. ASSUME NEW i \in DOMAIN pm.dead[p]
        PROVE  \/ \E j \in DOMAIN m.dead[p] : m.dead[p][j] = pm.dead[p][i]
               \/ LET z == pm.dead[p][i]
                  IN  reported'[z.pid] = Append(reported[z.pid], z.exit_code)
    <3>1. CASE p # a
      BY <1>1, <2>1, <2>2, <2>5, <3>1
    <3>2. CASE p = a /\ i = k
      BY <2>4, <3>2
    <3>3. CASE p = a /\ i # k
      <4> DEFINE r == RemoveAt(d, k)
      <4>1. m.dead[p] = r /\ i \in 1 .. Len(d) /\ i \in Nat
        BY <1>1, <2>1, <2>2, <2>3, <2>5, <3>3
      <4>2. DOMAIN r = 1 .. Len(d) - 1 /\ \A j \in 1 .. Len(d) - 1 : r[j] = IF j < k THEN d[j] ELSE d[j + 1]
        BY <2>3 DEF DropsPlace
      <4> HIDE DEF d, r
      <4>3. CASE i < k
        <5>1. i \in 1 .. Len(d) - 1
          BY <2>3, <4>1, <4>3
        <5>2. r[i] = d[i] /\ i \in DOMAIN r
          BY <4>2, <4>3, <5>1
        <5> QED
          BY <3>3, <4>1, <5>2 DEF d
      <4>4. CASE ~(i < k)
        <5>1. i - 1 \in 1 .. Len(d) - 1 /\ ~(i - 1 < k) /\ (i - 1) + 1 = i
          BY <2>3, <3>3, <4>1, <4>4
        <5>2. r[i - 1] = d[i] /\ i - 1 \in DOMAIN r
          BY <4>2, <5>1
        <5> QED
          BY <3>3, <4>1, <5>2 DEF d
      <4> QED
        BY <4>3, <4>4
    <3> QED
      BY <3>1, <3>2, <3>3
  <2> QED
    BY <2>1, <2>5
<1> QED
  BY <1>2, <1>3, <1>4 DEF Middle

LEMMA ExitsKeptNext == NobodyCrowds /\ TreeInv /\ [Next]_vars => [ExitsKept]_vars
<1> SUFFICES ASSUME NobodyCrowds, TreeInv, Next PROVE ExitsKept
  OBVIOUS
<1>1. PICK a \in Pids : Iteration(a)
  BY ProcessIteration DEF Next, TreeInv, OnceInv
<1>2. PICK m : /\ Middle(a, m) /\ Ends(a, m, pm') /\ ManagerOK(m) /\ a \in m.procs
               /\ Once(m, reported', g_pid_counter') /\ Family(m) /\ Roomy(m)
  BY <1>1, TreeIteration
<1>3. TypeOK /\ Runs(a) /\ pm.procs \subseteq Pids /\ pm.procs \subseteq m.procs
  BY <1>1, <1>2, MiddleProcs DEF Iteration, TreeInv, OnceInv, TypeOK, Managers
<1>4. TreeInv'
  BY TreeNext
<1>5. pm.dead \in [Pids -> Seq(Zombie)] /\ pm'.dead \in [Pids -> Seq(Zombie)]
  BY <1>3, <1>4 DEF TypeOK, TreeInv, OnceInv, Managers
<1>6. /\ \A p \in Pids : \A z : z \in Zombies(p) <=> \E i \in DOMAIN pm.dead[p] : pm.dead[p][i] = z
      /\ \A p \in Pids : \A z : z \in Zombies(p)' <=> \E i \in DOMAIN pm'.dead[p] : pm'.dead[p][i] = z
  BY DEF Zombies, ToSet
<1>7. SUFFICES ASSUME NEW p \in pm.procs, p \in pm'.procs
      PROVE  /\ \A c \in pm.procs \ pm'.procs :
                   pm.parent[c] = p => \E i \in DOMAIN pm'.dead[p] : pm'.dead[p][i].pid = c
             /\ \A i \in DOMAIN pm.dead[p] :
                   \/ \E j \in DOMAIN pm'.dead[p] : pm'.dead[p][j] = pm.dead[p][i]
                   \/ LET z == pm.dead[p][i]
                      IN  reported'[z.pid] = Append(reported[z.pid], z.exit_code)
  <2> DEFINE Kept(q) ==
               /\ \A c \in pm.procs \ pm'.procs :
                     pm.parent[c] = q => \E i \in DOMAIN pm'.dead[q] : pm'.dead[q][i].pid = c
               /\ \A i \in DOMAIN pm.dead[q] :
                     \/ \E j \in DOMAIN pm'.dead[q] : pm'.dead[q][j] = pm.dead[q][i]
                     \/ LET z == pm.dead[q][i]
                        IN  reported'[z.pid] = Append(reported[z.pid], z.exit_code)
  <2> SUFFICES ASSUME \A q \in pm.procs : q \in pm'.procs => Kept(q)
               PROVE  ExitsKept
    OBVIOUS
  <2> SUFFICES ASSUME NEW q \in pm.procs, q \in pm'.procs
               PROVE  /\ \A c \in pm.procs \ pm'.procs :
                            pm.parent[c] = q => \E z \in Zombies(q)' : z.pid = c
                      /\ \A z \in Zombies(q) \ Zombies(q)' :
                            reported'[z.pid] = Append(reported[z.pid], z.exit_code)
    BY DEF ExitsKept
  <2>1. Kept(q) /\ q \in Pids
    BY <1>3
  <2>2. ASSUME NEW c \in pm.procs \ pm'.procs, pm.parent[c] = q
        PROVE  \E z \in Zombies(q)' : z.pid = c
    <3>1. PICK i \in DOMAIN pm'.dead[q] : pm'.dead[q][i].pid = c
      BY <2>1, <2>2
    <3> QED
      BY <1>6, <2>1, <3>1
  <2>3. ASSUME NEW z \in Zombies(q) \ Zombies(q)'
        PROVE  reported'[z.pid] = Append(reported[z.pid], z.exit_code)
    <3>1. PICK i \in DOMAIN pm.dead[q] : pm.dead[q][i] = z
      BY <1>6, <2>1, <2>3
    <3>2. z \notin Zombies(q)'
      BY <2>3
    <3>3. ~\E j \in DOMAIN pm'.dead[q] : pm'.dead[q][j] = pm.dead[q][i]
      BY <1>6, <2>1, <3>1, <3>2
    <3>4. LET x == pm.dead[q][i] IN reported'[x.pid] = Append(reported[x.pid], x.exit_code)
      BY <2>1, <3>3
    <3> QED
      BY <3>1, <3>4
  <2> QED
    BY <2>2, <2>3
<1>8. p \in Pids /\ p \in m.procs
  BY <1>3
<1>9. /\ \A c \in pm.procs : m.parent[c] = pm.parent[c]
      /\ \A i \in DOMAIN pm.dead[p] :
            \/ \E j \in DOMAIN m.dead[p] : m.dead[p][j] = pm.dead[p][i]
            \/ LET z == pm.dead[p][i]
               IN  reported'[z.pid] = Append(reported[z.pid], z.exit_code)
  BY <1>2, <1>3, MiddleZombies
<1>10. CASE pm' = pm_suspend_current(m, a)
  <2>1. pm'.procs = m.procs /\ pm'.dead = m.dead
    BY <1>2, <1>10 DEF pm_suspend_current, ManagerOK, Managers
  <2> QED
    BY <1>3, <1>9, <2>1
<1>11. ASSUME NEW code \in Int, pm' = pm_exit_current(m, a, code)
       PROVE  /\ \A c \in pm.procs \ pm'.procs :
                    pm.parent[c] = p => \E i \in DOMAIN pm'.dead[p] : pm'.dead[p][i].pid = c
              /\ \A i \in DOMAIN pm.dead[p] :
                    \/ \E j \in DOMAIN pm'.dead[p] : pm'.dead[p][j] = pm.dead[p][i]
                    \/ LET z == pm.dead[p][i]
                       IN  reported'[z.pid] = Append(reported[z.pid], z.exit_code)
  <2>1. Exited(m, a, code, pm') /\ pm'.procs = m.procs \ {a} /\ p # a
    <3>1. Exited(m, a, code, pm')
      BY <1>2, <1>11, ExitFields DEF ManagerOK
    <3>2. pm'.procs = m.procs \ {a}
      BY <3>1 DEF Exited
    <3> QED
      BY <1>7, <3>1, <3>2
  <2>2. \A i \in DOMAIN m.dead[p] : i \in DOMAIN pm'.dead[p] /\ pm'.dead[p][i] = m.dead[p][i]
    <3>1. \A q \in Pids \ {a} : \A i \in DOMAIN m.dead[q] :
             i \in DOMAIN pm'.dead[q] /\ pm'.dead[q][i] = m.dead[q][i]
      BY <1>2, <2>1, ExitPlaces
    <3> QED
      BY <1>8, <2>1, <3>1
  <2>3. ASSUME NEW c \in pm.procs, c \notin pm'.procs, pm.parent[c] = p
        PROVE  \E i \in DOMAIN pm'.dead[p] : pm'.dead[p][i].pid = c
    <3>1. c = a /\ m.parent[a] = p
      BY <1>3, <1>9, <2>1, <2>3
    <3>2. Told(m, a)
      BY <1>2, <1>8, <3>1 DEF Told, Family, Listed, Children
    <3>3. Len(m.dead[p]) < MAX_CHILDREN
      BY <1>2, <1>8, <2>1, RoomForZombie
    <3> QED
      BY <1>2, <2>1, <3>1, <3>2, <3>3, ExitPlaces
  <2> QED
    BY <1>9, <2>2, <2>3
<1> QED
  BY <1>2, <1>10, <1>11 DEF Ends

\* pm_exit_current, pm_wait (proc_manage.c): while there are never more
\* processes than the lists were made for, an exit reaches the parent's list
\* and leaves it only by being told, whatever else exits, forks or is adopted.
THEOREM Kernel7NoExitLost == ASSUME NobodyCrowds PROVE Spec => NoExitLost
<1>1. TreeInv /\ [Next]_vars => [\A p \in pm.procs \cap pm'.procs :
          /\ \A c \in pm.procs \ pm'.procs :
                pm.parent[c] = p => \E z \in Zombies(p)' : z.pid = c
          /\ \A z \in Zombies(p) \ Zombies(p)' :
                reported'[z.pid] = Append(reported[z.pid], z.exit_code)]_vars
  BY ExitsKeptNext DEF ExitsKept
<1> QED
  BY <1>1, TreeInit, TreeNext, PTL DEF Spec, NoExitLost

-----------------------------------------------------------------------------
(***************************************************************************)
(* The ring of ready processes.                                            *)
(***************************************************************************)
\* The ring has more places than a family has members: 64 and 33 in the code.
RingHolds == MAX_CHILDREN + 1 < MAX_PROCS

\* m's ring holds the processes of ps, each once.
RingOf(m, ps) == IsInjective(m.ready) /\ ToSet(m.ready) = ps

LEMMA PushRing ==
    ASSUME RingHolds, NEW rq \in Seq(Pids), IsInjective(rq), IsFiniteSet(ToSet(rq)),
           Cardinality(ToSet(rq)) \in Nat, Cardinality(ToSet(rq)) <= MAX_CHILDREN,
           NEW p \in Pids, p \notin ToSet(rq)
    PROVE  IsInjective(queue_push(rq, p)) /\ ToSet(queue_push(rq, p)) = ToSet(rq) \cup {p}
<1>1. Len(rq) \in Nat /\ Len(rq) <= Cardinality(ToSet(rq))
  BY ShortList, LenProperties
<1>2. Len(rq) # MAX_PROCS - 1
  BY <1>1, ProcSizes DEF RingHolds
<1>3. queue_push(rq, p) = Append(rq, p)
  BY <1>2 DEF queue_push
<1> QED
  BY <1>3, AppendSet

\* In the middle of an iteration of p the ring holds everybody but p.
LEMMA MiddleRing ==
    ASSUME NobodyCrowds, RingHolds, TreeInv, ReadyIsLive, NEW p \in Pids, Runs(p),
           NEW m, Middle(p, m)
    PROVE  RingOf(m, m.procs \ {p})
<1>1. /\ ManagerOK(Popped) /\ Popped \in Managers /\ Popped.procs = pm.procs /\ p \in pm.procs
      /\ Popped.ready = Tail(pm.ready) /\ pm.ready \in Seq(Pids) /\ pm.ready # <<>> /\ p = Head(pm.ready)
      /\ Popped.dead = pm.dead /\ Popped.ready \in Seq(Pids)
  BY PoppedFields DEF TreeInv, OnceInv, ManagerOK
<1>2. IsInjective(pm.ready) /\ ToSet(pm.ready) = pm.procs
  BY DEF ReadyIsLive
<1>3. RingOf(Popped, pm.procs \ {p})
  BY <1>1, <1>2, TailSet DEF RingOf
<1>4. CASE Idle(m)
  BY <1>1, <1>3, <1>4 DEF Idle
<1>5. CASE Born(p, m)
  <2> DEFINE c == g_pid_counter
             rq == Popped.ready
  <2>1. Added(Popped, c, p, m) /\ c \in Pids
    BY <1>1, <1>5, AddFields DEF Born
  <2>2. c \notin pm.procs
    BY <2>1 DEF TreeInv, OnceInv, Once, Old, Pids
  <2>3. m.procs = pm.procs \cup {c} /\ m.ready = queue_push(rq, c)
    BY <1>1, <2>1 DEF Added
  <2>4. Roomy(Popped)
    BY <1>1 DEF TreeInv, Roomy, KnownTo
  <2>5. rq \in Seq(Pids) /\ IsInjective(rq) /\ ToSet(rq) = Popped.procs \ {p} /\ p \in Popped.procs
    BY <1>1, <1>3 DEF RingOf
  <2> HIDE DEF rq, c
  <2>6. IsFiniteSet(ToSet(rq)) /\ Cardinality(ToSet(rq)) \in Nat /\ Cardinality(ToSet(rq)) <= MAX_CHILDREN
    BY <1>1, <2>4, <2>5, OthersFit
  <2>7. c \notin ToSet(rq) /\ c # p
    BY <1>1, <2>2, <2>5
  <2>8. IsInjective(m.ready) /\ ToSet(m.ready) = ToSet(rq) \cup {c}
    BY <2>1, <2>3, <2>5, <2>6, <2>7, PushRing
  <2> QED
    BY <1>1, <2>3, <2>5, <2>7, <2>8 DEF RingOf
<1>6. ASSUME NEW i \in 1 .. Len(pm.dead[p]), Reaped(p, m, i)
      PROVE  RingOf(m, m.procs \ {p})
  <2>1. m.procs = Popped.procs /\ m.ready = Popped.ready
    BY <1>1, <1>6 DEF Reaped, Managers
  <2> QED
    BY <1>1, <1>3, <2>1 DEF RingOf
<1> QED
  BY <1>4, <1>5, <1>6 DEF Middle

LEMMA EndsRing ==
    ASSUME RingHolds, NEW m, ManagerOK(m), Roomy(m), NEW p \in m.procs, RingOf(m, m.procs \ {p}),
           NEW n, Ends(p, m, n)
    PROVE  RingOf(n, n.procs)
<1>1. p \in Pids /\ m.ready \in Seq(Pids) /\ m \in Managers
  BY FamilyTypes DEF ManagerOK, Managers
<1>2. CASE n = pm_suspend_current(m, p)
  <2>1. n.procs = m.procs /\ n.ready = queue_push(m.ready, p)
    BY <1>1, <1>2 DEF pm_suspend_current, Managers
  <2>2. IsInjective(m.ready) /\ ToSet(m.ready) = m.procs \ {p}
    BY DEF RingOf
  <2>3. /\ IsFiniteSet(ToSet(m.ready)) /\ Cardinality(ToSet(m.ready)) \in Nat
        /\ Cardinality(ToSet(m.ready)) <= MAX_CHILDREN
    BY <2>2, OthersFit
  <2>4. IsInjective(n.ready) /\ ToSet(n.ready) = ToSet(m.ready) \cup {p}
    BY <1>1, <2>1, <2>2, <2>3, PushRing
  <2> QED
    BY <2>1, <2>2, <2>4 DEF RingOf
<1>3. ASSUME NEW code \in Int, n = pm_exit_current(m, p, code)
      PROVE  RingOf(n, n.procs)
  <2>1. Exited(m, p, code, n)
    BY <1>1, <1>3, ExitFields
  <2> QED
    BY <2>1 DEF Exited, RingOf
<1> QED
  BY <1>2, <1>3 DEF Ends

LEMMA RingInit == RingHolds /\ Init => ReadyIsLive
<1> SUFFICES ASSUME RingHolds, Init PROVE ReadyIsLive
  OBVIOUS
<1>1. 0 \in Pids /\ pm_init \in Managers
  BY ProcSizes, EmptySeq DEF Pids, pm_init, Managers
<1>2. Added(pm_init, 0, PID_INVALID, pm)
  BY <1>1, AddFields DEF Init
<1>3. pm.procs = {0} /\ pm.ready = queue_push(<<>>, 0)
  BY <1>2 DEF Added, pm_init
<1>4. IsInjective(<<>>) /\ ToSet(<<>>) = {} /\ <<>> \in Seq(Pids)
  BY EmptySeq DEF IsInjective, ToSet
<1>5. IsFiniteSet({}) /\ Cardinality({}) = 0
  BY FS_EmptySet
<1> DEFINE rq == <<>>
<1>6. /\ rq \in Seq(Pids) /\ IsInjective(rq) /\ ToSet(rq) = {}
      /\ IsFiniteSet(ToSet(rq)) /\ Cardinality(ToSet(rq)) = 0 /\ pm.ready = queue_push(rq, 0)
  BY <1>3, <1>4, <1>5
<1> HIDE DEF rq
<1>7. Cardinality(ToSet(rq)) \in Nat /\ Cardinality(ToSet(rq)) <= MAX_CHILDREN /\ 0 \notin ToSet(rq)
  BY <1>6, ProcSizes
<1>8. IsInjective(pm.ready) /\ ToSet(pm.ready) = ToSet(rq) \cup {0}
  BY <1>1, <1>6, <1>7, PushRing
<1> QED
  BY <1>3, <1>6, <1>8 DEF ReadyIsLive

LEMMA RingNext == NobodyCrowds /\ RingHolds /\ TreeInv /\ ReadyIsLive /\ [Next]_vars => ReadyIsLive'
<1> SUFFICES ASSUME NobodyCrowds, RingHolds, TreeInv, ReadyIsLive, [Next]_vars
             PROVE  ReadyIsLive'
  OBVIOUS
<1>1. ASSUME NEW p \in Pids, Iteration(p) PROVE ReadyIsLive'
  <2>1. PICK m : Middle(p, m) /\ Ends(p, m, pm') /\ ManagerOK(m) /\ p \in m.procs /\ Roomy(m)
    BY <1>1, TreeIteration
  <2>2. RingOf(m, m.procs \ {p})
    BY <1>1, <2>1, MiddleRing DEF Iteration
  <2>3. RingOf(pm', pm'.procs)
    BY <2>1, <2>2, EndsRing
  <2> QED
    BY <2>3 DEF RingOf, ReadyIsLive
<1>2. CASE UNCHANGED vars
  BY <1>2 DEF vars, ReadyIsLive
<1> QED
  BY <1>1, <1>2, ProcessIteration DEF Next, TreeInv, OnceInv

\* queue_push, pm_add, pm_suspend_current, pm_exit_current (proc_manage.c)
\* through the loop of main.c: the ring holds the live processes, each once, so
\* none is lost from it and main never finds an empty slot at its head.
THEOREM Kernel7ReadyIsLive == ASSUME NobodyCrowds, RingHolds PROVE Spec => []ReadyIsLive
BY TreeInit, TreeNext, RingInit, RingNext, PTL DEF Spec
=============================================================================
