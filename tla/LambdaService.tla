--------------------------- MODULE LambdaService ---------------------------
(***************************************************************************)
(* What the Lambda API promises to those who invoke functions while others *)
(* create, update and delete them.  A call runs the version that was        *)
(* deployed at one moment after it began, whole and nothing else, and it    *)
(* fails only when that version did not stay deployed, runnable and at rest *)
(* for as long as the call lasted.                                          *)
(***************************************************************************)
EXTENDS FunctionStore

CONSTANTS Clients,  \* those who change functions
          Callers,  \* those who invoke them
          Nobody    \* no call, no code, no change being applied

VARIABLES
  changing, \* the function whose committed change each client is still applying
  spoiled,  \* the deployed revisions that have lost files they need
  restarts, \* how often the service was stopped and started
  calls     \* the call of each caller: the function, the version it resolved,
            \* whether it was left undisturbed, and the code it is running

serviceVars == <<storeVars, changing, spoiled, restarts, calls>>

(* After this step the version a call resolved is the deployed one, it can  *)
(* run, and no change of its function is being applied.                     *)
AtRest(call) ==
  /\ store'[call.name] = call.version
  /\ \A a \in Clients : changing'[a] # call.name
  /\ call.version.revision \notin spoiled'
  /\ ValidCode(call.version.code, call.version.runtime)

Watched(call) == IF call = Nobody THEN Nobody ELSE [call EXCEPT !.steady = @ /\ AtRest(call)]
Watch == calls' = [c \in Callers |-> Watched(calls[c])]

ServiceInit ==
  /\ Init
  /\ changing = [a \in Clients |-> Nobody] /\ spoiled = {} /\ restarts = 0
  /\ calls = [c \in Callers |-> Nobody]

(* A client changes the store, and then applies the change. *)
New(n) ==
  /\ \E code \in Blobs, runtime \in Runtimes : Create(n, code, runtime)
  /\ UNCHANGED changing
Change(a, n) ==
  /\ changing[a] = Nobody /\ changing' = [changing EXCEPT ![a] = n]
  /\ Delete(n) \/ \E code \in Blobs, expected \in 0..revs : Update(n, code, expected)
Finish(a) ==
  /\ changing[a] # Nobody /\ changing' = [changing EXCEPT ![a] = Nobody]
  /\ UNCHANGED storeVars
Work == UNCHANGED <<storeVars, changing>>

ClientStep ==
  /\ \/ \E n \in Names : New(n) \/ \E a \in Clients : Change(a, n)
     \/ \E a \in Clients : Finish(a)
     \/ Work
  /\ spoiled' \in SUBSET (1..revs')
  /\ Watch /\ UNCHANGED restarts

-----------------------------------------------------------------------------
(* A call resolves its function... *)
Invoke(c, n) ==
  /\ calls[c] = Nobody /\ store[n] # NoFunction
  /\ LET call == [name |-> n, version |-> store[n], steady |-> TRUE, runs |-> Nobody] IN
     calls' = [calls EXCEPT ![c] = [call EXCEPT !.steady = AtRest(call)]]

(* ... runs the code of the version it resolved... *)
Run(c) ==
  /\ calls[c] # Nobody /\ calls[c].runs = Nobody
  /\ calls' = [d \in Callers |->
       IF d = c THEN [Watched(calls[c]) EXCEPT !.runs = calls[c].version.code] ELSE Watched(calls[d])]

(* ... and ends: with the answer of that code, or, if it was disturbed, with *)
(* an error.                                                                 *)
End(c) ==
  /\ calls[c] # Nobody
  /\ calls[c].runs # Nobody \/ ~calls[c].steady
  /\ calls' = [d \in Callers |-> IF d = c THEN Nobody ELSE Watched(calls[d])]

CallerStep ==
  /\ \E c \in Callers : Run(c) \/ End(c) \/ \E n \in Names : Invoke(c, n)
  /\ spoiled' \in SUBSET (1..revs)
  /\ UNCHANGED <<storeVars, changing, restarts>>

(* The service stops and starts: who was waiting is told nothing.  What was *)
(* deployed stays deployed.                                                 *)
Restart ==
  /\ restarts' = restarts + 1
  /\ changing' = [a \in Clients |-> Nobody]
  /\ calls' = [c \in Callers |-> Nobody]
  /\ spoiled' \in SUBSET (1..revs)
  /\ UNCHANGED storeVars

ServiceNext == ClientStep \/ CallerStep \/ Restart
ServiceSpec == ServiceInit /\ [][ServiceNext]_serviceVars
=============================================================================
