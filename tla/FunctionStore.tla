--------------------------- MODULE FunctionStore ---------------------------
(***************************************************************************)
(* What the control plane promises to its callers, with no blobs, no       *)
(* artifact rows and no requests in flight: a map from function names to    *)
(* deployed versions, changed one atomic operation at a time.  Every change *)
(* gives the function a revision that was never used before, and a          *)
(* conditional update applies only to the revision it names.                *)
(***************************************************************************)
EXTENDS Naturals

CONSTANTS Names,      \* function names
          Blobs,      \* deployment packages
          Bootstrap,  \* the packages with a `bootstrap` at their root
          NoFunction  \* a name with no function

Runtimes == {"provided", "bundle"}
NoRevision == 0

VARIABLES
  store,  \* name -> [code, revision, runtime], or NoFunction
  revs,   \* revisions 1..revs have been issued
  log     \* the accepted updates: which revision each asked for and which it made

storeVars == <<store, revs, log>>

ValidCode(code, runtime) == runtime = "provided" => code \in Bootstrap

Init ==
  /\ store = [n \in Names |-> NoFunction]
  /\ revs = 0
  /\ log = {}

Create(n, code, runtime) ==
  /\ store[n] = NoFunction
  /\ ValidCode(code, runtime)
  /\ revs' = revs + 1
  /\ store' = [store EXCEPT ![n] = [code |-> code, revision |-> revs', runtime |-> runtime]]
  /\ UNCHANGED log

Update(n, code, expected) ==
  /\ store[n] # NoFunction
  /\ expected \in {NoRevision, store[n].revision}
  /\ revs' = revs + 1
  /\ store' = [store EXCEPT ![n] =
       [code |-> code, revision |-> revs', runtime |-> @.runtime]]
  /\ log' = log \cup {[expected |-> expected, revision |-> revs']}

Delete(n) ==
  /\ store[n] # NoFunction
  /\ store' = [store EXCEPT ![n] = NoFunction]
  /\ UNCHANGED <<revs, log>>

Next ==
  \E n \in Names :
    \/ \E code \in Blobs, runtime \in Runtimes : Create(n, code, runtime)
    \/ \E code \in Blobs, expected \in 0..revs : Update(n, code, expected)
    \/ Delete(n)

Spec == Init /\ [][Next]_storeVars
=============================================================================
