----------------------------- MODULE RuntimeApi -----------------------------
(***************************************************************************)
(* One warm environment of the process executor: the task that runs        *)
(* ProcessExecutor::invoke, the HTTP handlers of its Runtime API server,   *)
(* and the bootstrap process, which is free to poll, answer, stay silent   *)
(* or exit.  The three run in parallel and meet in the channel of events,  *)
(* the `pending` table and two oneshot channels per invocation.            *)
(*                                                                         *)
(* invoke() borrows the environment mutably (its WarmEnv is behind a       *)
(* mutex), so there is at most one invocation, `cur`.  One poll of its     *)
(* select! is two steps: first the oneshot is read, then the timer and the *)
(* process are looked at; the handlers run on other threads in between.    *)
(***************************************************************************)
EXTENDS Naturals, Sequences

CONSTANTS Requests,  \* request ids: the invocations one environment serves
          NoRequest

ASSUME RuntimeApiAssumption == NoRequest \notin Requests

VARIABLES
  cur,        \* the invocation in flight, or NoRequest
  pc,         \* where its task is
  verdict,    \* how it is about to return
  outcome,    \* history: how each invocation returned
  needsReset, \* Environment::needs_reset
  proc,       \* the bootstrap process
  initFired,  \* INIT_TIMEOUT of the current invocation has elapsed
  queue,      \* the mpsc channel of events
  poll,       \* a GET /invocation/next is open
  held,       \* the event that handler has received and not registered yet
  pending,    \* the table of delivered invocations waiting for a response
  started,    \* invocations whose deadline was sent to the caller
  expired,    \* invocations whose deadline has passed
  seen,       \* events the current process has received
  posts,      \* responses it has posted and the server has not handled yet
  reply,      \* the value in the oneshot of each invocation
  accepted    \* history: responses answered 202, and whether the process lived

callerVars == <<cur, pc, verdict, outcome, needsReset, initFired>>
apiVars == <<queue, poll, held, pending, started, expired, reply, accepted>>
procVars == <<proc, seen, posts>>
vars == <<callerVars, apiVars, procVars>>

Pcs == {"none", "init", "initEmpty", "wait", "waitEmpty", "finish"}
Verdicts == {"none", "answered", "timeout", "initTimeout", "undelivered", "dropped", "exit"}

Init ==
  /\ cur = NoRequest /\ pc = "none" /\ verdict = "none"
  /\ outcome = [r \in Requests |-> "new"]
  /\ needsReset = FALSE
  /\ proc = "running"
  /\ initFired = FALSE
  /\ queue = <<>> /\ poll = FALSE /\ held = NoRequest
  /\ pending = {} /\ started = {} /\ expired = {} /\ seen = {} /\ posts = {}
  /\ reply = [r \in Requests |-> NoRequest]
  /\ accepted = [r \in Requests |-> "no"]

(* The receiving halves of the two oneshots of r are alive: select! drops   *)
(* them as soon as one of its branches wins.                                *)
StartOpen(r) == cur = r /\ pc \in {"init", "initEmpty"}
RxOpen(r) == cur = r /\ pc \in {"init", "initEmpty", "wait", "waitEmpty"}

-----------------------------------------------------------------------------
(* invoke(): the environment is marked for reset until it is known to be    *)
(* clean, and the event goes into the channel.                              *)
Invoke(r) ==
  /\ cur = NoRequest /\ ~needsReset /\ outcome[r] = "new"
  /\ cur' = r /\ pc' = "init" /\ needsReset' = TRUE /\ initFired' = FALSE
  /\ queue' = Append(queue, r)
  /\ outcome' = [outcome EXCEPT ![r] = "running"]
  /\ UNCHANGED <<verdict, poll, held, pending, started, expired, reply, accepted, procVars>>

InitFire ==
  /\ pc \in {"init", "initEmpty"} /\ ~initFired
  /\ initFired' = TRUE
  /\ UNCHANGED <<cur, pc, verdict, outcome, needsReset, apiVars, procVars>>

(* Variant for the mutation runs: the branch taken is not recorded. *)
DecideNothing(v) == UNCHANGED verdict /\ pc' = "finish"
Decide(v) == verdict' = v /\ pc' = "finish"

(* start_rx: the deadline, or an error once its sender was dropped. *)
Undelivered(r) == r \notin started /\ held # r /\ \A i \in DOMAIN queue : queue[i] # r
PollStart ==
  /\ pc = "init"
  /\ IF cur \in started THEN pc' = "wait" /\ UNCHANGED verdict
     ELSE IF Undelivered(cur) THEN Decide("undelivered")
     ELSE pc' = "initEmpty" /\ UNCHANGED verdict
  /\ UNCHANGED <<cur, outcome, needsReset, initFired, apiVars, procVars>>

(* rx: the response, or an error once its sender was dropped. *)
PollReply ==
  /\ pc = "wait"
  /\ IF reply[cur] # NoRequest THEN Decide("answered")
     ELSE IF cur \notin pending THEN Decide("dropped")
     ELSE pc' = "waitEmpty" /\ UNCHANGED verdict
  /\ UNCHANGED <<cur, outcome, needsReset, initFired, apiVars, procVars>>

(* The rest of the same poll: the timer first, then peek_exit. *)
TimerElapsedNoInit == pc = "waitEmpty" /\ cur \in expired \* variant: no INIT_TIMEOUT
TimerElapsed == IF pc = "initEmpty" THEN initFired ELSE cur \in expired
PollTimerAndExit ==
  /\ pc \in {"initEmpty", "waitEmpty"}
  /\ IF TimerElapsed THEN Decide(IF pc = "initEmpty" THEN "initTimeout" ELSE "timeout")
     ELSE IF proc # "running" THEN Decide("exit")
     ELSE pc' = (IF pc = "initEmpty" THEN "init" ELSE "wait") /\ UNCHANGED verdict
  /\ UNCHANGED <<cur, outcome, needsReset, initFired, apiVars, procVars>>

Over == cur' = NoRequest /\ pc' = "none" /\ verdict' = "none"

(* Variant for the mutation runs: a timed out process is left running. *)
FinishWithoutKill ==
  /\ pc = "finish"
  /\ pending' = pending \ {cur}
  /\ needsReset' = (verdict # "answered")
  /\ outcome' = [outcome EXCEPT ![cur] = verdict]
  /\ Over
  /\ UNCHANGED <<initFired, queue, poll, held, started, expired, reply, accepted, procVars>>

(* After select!: the entry leaves `pending`; an answer makes the environment *)
(* reusable, everything else terminates the process.  The gap between the two *)
(* is not visible: the receiver is already gone.                              *)
Finish ==
  /\ pc = "finish"
  /\ pending' = pending \ {cur}
  /\ IF verdict = "answered" THEN needsReset' = FALSE /\ UNCHANGED proc
     ELSE proc' = "killed" /\ UNCHANGED needsReset
  /\ outcome' = [outcome EXCEPT ![cur] = verdict]
  /\ Over
  /\ UNCHANGED <<initFired, queue, poll, held, started, expired, reply, accepted, seen, posts>>

(* Variant for the mutation runs: a cancelled invocation just disappears. *)
CancelOnly ==
  /\ cur # NoRequest
  /\ outcome' = [outcome EXCEPT ![cur] = "cancelled"]
  /\ needsReset' = FALSE
  /\ Over
  /\ UNCHANGED <<initFired, apiVars, procVars>>

(* The caller goes away and the future is dropped: InvocationGuard kills the *)
(* process; `pending` and the channel keep what they had.                    *)
Cancel ==
  /\ cur # NoRequest
  /\ proc' = "killed"
  /\ outcome' = [outcome EXCEPT ![cur] = "cancelled"]
  /\ Over
  /\ UNCHANGED <<needsReset, initFired, apiVars, seen, posts>>

(* The invoker replaces an environment that needs a reset: a new executor,  *)
(* server and process.                                                      *)
ColdStart ==
  /\ cur = NoRequest /\ needsReset
  /\ needsReset' = FALSE /\ proc' = "running"
  /\ queue' = <<>> /\ poll' = FALSE /\ held' = NoRequest
  /\ pending' = {} /\ seen' = {} /\ posts' = {}
  /\ UNCHANGED <<cur, pc, verdict, outcome, initFired, started, expired, reply, accepted>>

-----------------------------------------------------------------------------
(* The bootstrap process. *)
CallNext ==
  /\ proc = "running" /\ ~poll
  /\ poll' = TRUE
  /\ UNCHANGED <<callerVars, procVars, queue, held, pending, started, expired, reply, accepted>>

(* POST /response or /error, for the event it works on or an older one. *)
Post(r) ==
  /\ proc = "running" /\ r \in seen
  /\ posts' = posts \cup {r}
  /\ UNCHANGED <<callerVars, apiVars, proc, seen>>

Exit ==
  /\ proc = "running"
  /\ proc' = "exited"
  /\ UNCHANGED <<callerVars, apiVars, seen, posts>>

(* The connection of an open /next is closed: its handler is dropped, with  *)
(* the event it holds.                                                      *)
CloseNext ==
  /\ poll
  /\ poll' = FALSE /\ held' = NoRequest
  /\ UNCHANGED <<callerVars, procVars, queue, pending, started, expired, reply, accepted>>

-----------------------------------------------------------------------------
(* next_invocation, up to `pending.lock().await`: the head of the channel,  *)
(* skipped when its caller is gone.  Its deadline is set here.              *)
NextReceive ==
  /\ poll /\ held = NoRequest /\ queue # <<>>
  /\ held' = IF RxOpen(Head(queue)) /\ StartOpen(Head(queue)) THEN Head(queue) ELSE NoRequest
  /\ queue' = Tail(queue)
  /\ UNCHANGED <<callerVars, procVars, poll, pending, started, expired, reply, accepted>>

(* ... and under the lock: registered, announced to the caller, delivered. *)
NextDeliver ==
  /\ poll /\ held # NoRequest
  /\ IF StartOpen(held)
     THEN /\ pending' = pending \cup {held} /\ started' = started \cup {held}
          /\ seen' = seen \cup {held}
          /\ poll' = FALSE
     ELSE UNCHANGED <<pending, started, seen, poll>>
  /\ held' = NoRequest
  /\ UNCHANGED <<callerVars, proc, posts, queue, expired, reply, accepted>>

(* A deadline passes. *)
Expire(r) ==
  /\ r \in started \cup {held} /\ r \notin expired
  /\ expired' = expired \cup {r}
  /\ UNCHANGED <<callerVars, procVars, queue, poll, held, pending, started, reply, accepted>>

(* Variants for the mutation runs: the id is not looked up; an expired      *)
(* entry is taken out of the table.                                         *)
CompleteAny(r) ==
  /\ r \in posts /\ posts' = posts \ {r}
  /\ IF pending # {}
     THEN LET p == CHOOSE p \in pending : TRUE IN
          pending' = pending \ {p} /\ reply' = [reply EXCEPT ![p] = r]
     ELSE UNCHANGED <<pending, reply>>
  /\ UNCHANGED <<callerVars, proc, seen, queue, poll, held, started, expired, accepted>>
CompleteRemovesExpired(r) ==
  /\ r \in posts /\ posts' = posts \ {r}
  /\ pending' = pending \ {r}
  /\ IF r \in pending /\ r \notin expired /\ RxOpen(r)
     THEN reply' = [reply EXCEPT ![r] = r]
     ELSE UNCHANGED reply
  /\ UNCHANGED <<callerVars, proc, seen, queue, poll, held, started, expired, accepted>>

(* complete_invocation, under the lock of `pending`: an unknown or late id  *)
(* is refused and its entry stays; otherwise the entry goes, and the        *)
(* response is accepted when the caller is still listening.                 *)
Complete(r) ==
  /\ r \in posts /\ posts' = posts \ {r}
  /\ IF r \in pending /\ r \notin expired
     THEN /\ pending' = pending \ {r}
          /\ IF RxOpen(r)
             THEN /\ reply' = [reply EXCEPT ![r] = r]
                  /\ accepted' = [accepted EXCEPT ![r] =
                                    IF proc = "running" THEN "alive" ELSE "dead"]
             ELSE UNCHANGED <<reply, accepted>>
     ELSE UNCHANGED <<pending, reply, accepted>>
  /\ UNCHANGED <<callerVars, proc, seen, queue, poll, held, started, expired>>

-----------------------------------------------------------------------------
(* With no invocation in flight the environment stays warm and waits. *)
Wait == cur = NoRequest /\ UNCHANGED vars

CallerStep == PollStart \/ PollReply \/ PollTimerAndExit \/ Finish

Next ==
  \/ \E r \in Requests : Invoke(r) \/ Post(r) \/ Expire(r) \/ Complete(r)
  \/ InitFire
  \/ CallerStep
  \/ Cancel
  \/ ColdStart
  \/ CallNext \/ Exit \/ CloseNext
  \/ NextReceive \/ NextDeliver
  \/ Wait

(* The task of the invocation is scheduled and clocks advance; nothing is   *)
(* assumed of the process.                                                  *)
Fairness ==
  /\ WF_vars(CallerStep)
  /\ WF_vars(InitFire)
  /\ \A r \in Requests : WF_vars(Expire(r))

Spec == Init /\ [][Next]_vars /\ Fairness

-----------------------------------------------------------------------------
(* Every variable ranges over the values the executor can hold. *)
TypeOK ==
  /\ cur \in Requests \cup {NoRequest}
  /\ pc \in Pcs
  /\ verdict \in Verdicts
  /\ outcome \in [Requests -> {"new", "running", "cancelled"} \cup (Verdicts \ {"none"})]
  /\ needsReset \in BOOLEAN
  /\ proc \in {"running", "exited", "killed"}
  /\ initFired \in BOOLEAN
  /\ queue \in Seq(Requests)
  /\ poll \in BOOLEAN
  /\ held \in Requests \cup {NoRequest}
  /\ pending \in SUBSET Requests
  /\ started \in SUBSET Requests
  /\ expired \in SUBSET Requests
  /\ seen \in SUBSET Requests
  /\ posts \in SUBSET Requests
  /\ reply \in [Requests -> Requests \cup {NoRequest}]
  /\ accepted \in [Requests -> {"no", "alive", "dead"}]

(* A late or repeated response never reaches another invocation of the same *)
(* process: a caller only ever receives an answer to its own event.         *)
NoContamination == \A r \in Requests : reply[r] \in {NoRequest, r}

(* "No handler is left without a deadline": a live process never works on   *)
(* an event whose caller has gone, by timeout, exit or cancellation.        *)
NoAbandonedHandler ==
  \A r \in seen : (proc = "running" /\ accepted[r] = "no") => cur = r

(* An environment that may be reused carries nothing of its past            *)
(* invocations: no queued event, no handler holding one, no entry waiting.  *)
ReusableIsClean ==
  (cur = NoRequest /\ ~needsReset) =>
    queue = <<>> /\ held = NoRequest /\ pending = {}

(* The channel has room for 64 events; borrowing the environment keeps it   *)
(* at one, so that the send in invoke() never waits.                        *)
QueueBound == Len(queue) <= 1

(* A delivered event always ends in a response, a timeout or an exit: the   *)
(* branch "la invocación se descartó sin respuesta" is never taken.         *)
NeverDropped == \A r \in Requests : outcome[r] # "dropped"

(* Every invocation returns, whatever the bootstrap does: it never answers, *)
(* never polls, closes its connection or exits.                             *)
InvokeReturns == \A r \in Requests : (cur = r) ~> (cur # r)

(* "A response already delivered wins over a later exit of the process":    *)
(* no invocation reports an exit after its response was accepted from a     *)
(* live process.                                                            *)
ResponseWinsOverExit ==
  \A r \in Requests : outcome[r] = "exit" => accepted[r] # "alive"
=============================================================================
