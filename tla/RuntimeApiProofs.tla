-------------------------- MODULE RuntimeApiProofs --------------------------
(***************************************************************************)
(* Safety of RuntimeApi for any number of invocations.                     *)
(***************************************************************************)
EXTENDS RuntimeApi, SequenceTheorems, TLAPS

(* A task that is about to return, and no other, knows how. *)
TypeInv ==
  /\ TypeOK
  /\ pc = "finish" <=> verdict # "none"
  /\ cur = NoRequest => pc = "none"

(* Where the event of the invocation in flight can be: in the channel, held *)
(* by a /next handler, or delivered; nothing else is in those places.       *)
EventPlaces ==
  cur # NoRequest =>
    /\ queue \in {<<>>, <<cur>>}
    /\ held \in {NoRequest, cur}
    /\ pending \subseteq {cur} /\ pending \subseteq started
    /\ (queue # <<>> \/ held # NoRequest) => (cur \notin started /\ pending = {})
    /\ queue # <<>> => held = NoRequest
    /\ reply[cur] # NoRequest => cur \in started

(* A response is read only once it was accepted, and while the caller       *)
(* listens a delivered event is either waiting in the table or answered.    *)
Answers ==
  cur # NoRequest =>
    /\ verdict = "answered" => reply[cur] # NoRequest
    /\ verdict # "dropped"
    /\ reply[cur] # NoRequest => accepted[cur] # "no"
    /\ pc \in {"wait", "waitEmpty"} => cur \in started
    /\ (pc # "finish" /\ cur \in started) => (cur \in pending \/ reply[cur] # NoRequest)

(* An invocation that has not begun has left no trace. *)
Fresh ==
  /\ cur # NoRequest => outcome[cur] = "running"
  /\ \A r \in Requests : outcome[r] = "new" =>
       r \notin started /\ reply[r] = NoRequest /\ accepted[r] = "no"

(* The mark needs_reset is set during the whole of an invocation, and an    *)
(* environment that needs a reset after it has no live process.             *)
Marks ==
  /\ pc = "none" <=> cur = NoRequest
  /\ cur # NoRequest => needsReset
  /\ (cur = NoRequest /\ needsReset) => proc # "running"

IInv ==
  /\ TypeInv
  /\ EventPlaces
  /\ Answers
  /\ Fresh
  /\ Marks
  /\ QueueBound
  /\ ReusableIsClean
  /\ NoContamination
  /\ NoAbandonedHandler
  /\ NeverDropped

LEMMA TypeInvariant == Spec => []TypeInv
<1>1. Init => TypeInv
  BY EmptySeq DEF Init, TypeInv, TypeOK, Pcs, Verdicts
<1>2. TypeInv /\ [Next]_vars => TypeInv'
  <2> SUFFICES ASSUME TypeInv, [Next]_vars PROVE TypeInv'
    OBVIOUS
  <2> USE RuntimeApiAssumption, EmptySeq DEF TypeInv, TypeOK, Pcs, Verdicts, callerVars, apiVars, procVars
  <2>1. ASSUME NEW r \in Requests, Invoke(r) PROVE TypeInv'
    <3>1. queue' \in Seq(Requests)
      BY <2>1, AppendProperties DEF Invoke
    <3> QED
      BY <2>1, <3>1 DEF Invoke
  <2>2. ASSUME NEW r \in Requests, Post(r) PROVE TypeInv'
    BY <2>2 DEF Post
  <2>3. ASSUME NEW r \in Requests, Expire(r) PROVE TypeInv'
    BY <2>3 DEF Expire
  <2>4. ASSUME NEW r \in Requests, Complete(r) PROVE TypeInv'
    BY <2>4 DEF Complete, RxOpen
  <2>5. ASSUME InitFire PROVE TypeInv'
    BY <2>5 DEF InitFire
  <2>6. ASSUME PollStart PROVE TypeInv'
    BY <2>6 DEF PollStart, Decide, Undelivered
  <2>7. ASSUME PollReply PROVE TypeInv'
    BY <2>7 DEF PollReply, Decide
  <2>8. ASSUME PollTimerAndExit PROVE TypeInv'
    BY <2>8 DEF PollTimerAndExit, TimerElapsed, Decide
  <2>9. ASSUME Finish PROVE TypeInv'
    BY <2>9 DEF Finish, Over
  <2>10. ASSUME Cancel PROVE TypeInv'
    BY <2>10 DEF Cancel, Over
  <2>11. ASSUME ColdStart PROVE TypeInv'
    BY <2>11 DEF ColdStart
  <2>12. ASSUME CallNext PROVE TypeInv'
    BY <2>12 DEF CallNext
  <2>13. ASSUME Exit PROVE TypeInv'
    BY <2>13 DEF Exit
  <2>14. ASSUME CloseNext PROVE TypeInv'
    BY <2>14 DEF CloseNext
  <2>15. ASSUME NextReceive PROVE TypeInv'
    BY <2>15 DEF NextReceive, RxOpen, StartOpen
  <2>16. ASSUME NextDeliver PROVE TypeInv'
    BY <2>16 DEF NextDeliver, StartOpen
  <2>17. ASSUME UNCHANGED vars PROVE TypeInv'
    BY <2>17 DEF vars
  <2> QED
    BY <2>1, <2>2, <2>3, <2>4, <2>5, <2>6, <2>7, <2>8, <2>9, <2>10, <2>11, <2>12, <2>13, <2>14, <2>15, <2>16, <2>17
       DEF Next, CallerStep, Wait
<1> QED
  BY <1>1, <1>2, PTL DEF Spec

(* Every variable keeps its type along every behaviour. *)
THEOREM TypeCorrect == Spec => []TypeOK
BY TypeInvariant, PTL DEF TypeInv

LEMMA Inductive == IInv /\ TypeInv' /\ [Next]_vars => IInv'
<1> SUFFICES ASSUME IInv, TypeInv', [Next]_vars PROVE IInv'
  OBVIOUS
<1> USE RuntimeApiAssumption DEF TypeInv, TypeOK, Pcs, Verdicts, callerVars, apiVars, procVars
<1>1. EventPlaces'
  <2> USE DEF IInv, EventPlaces, Fresh, Marks, ReusableIsClean, NoContamination
  <2>1. ASSUME NEW r \in Requests, Invoke(r) PROVE EventPlaces'
    BY <2>1 DEF Invoke
  <2>2. ASSUME NEW r \in Requests, Post(r) PROVE EventPlaces'
    BY <2>2 DEF Post
  <2>3. ASSUME NEW r \in Requests, Expire(r) PROVE EventPlaces'
    BY <2>3 DEF Expire
  <2>4. ASSUME NEW r \in Requests, Complete(r) PROVE EventPlaces'
    BY <2>4 DEF Complete, RxOpen
  <2>5. ASSUME InitFire PROVE EventPlaces'
    BY <2>5 DEF InitFire
  <2>6. ASSUME PollStart PROVE EventPlaces'
    BY <2>6 DEF PollStart, Decide, Undelivered
  <2>7. ASSUME PollReply PROVE EventPlaces'
    BY <2>7 DEF PollReply, Decide
  <2>8. ASSUME PollTimerAndExit PROVE EventPlaces'
    BY <2>8 DEF PollTimerAndExit, TimerElapsed, Decide
  <2>9. ASSUME Finish PROVE EventPlaces'
    BY <2>9 DEF Finish, Over
  <2>10. ASSUME Cancel PROVE EventPlaces'
    BY <2>10 DEF Cancel, Over
  <2>11. ASSUME ColdStart PROVE EventPlaces'
    BY <2>11 DEF ColdStart
  <2>12. ASSUME CallNext PROVE EventPlaces'
    BY <2>12 DEF CallNext
  <2>13. ASSUME Exit PROVE EventPlaces'
    BY <2>13 DEF Exit
  <2>14. ASSUME CloseNext PROVE EventPlaces'
    BY <2>14 DEF CloseNext
  <2>15. ASSUME NextReceive PROVE EventPlaces'
    BY <2>15 DEF NextReceive, RxOpen, StartOpen
  <2>16. ASSUME NextDeliver PROVE EventPlaces'
    BY ZenonT(30), <2>16 DEF NextDeliver, StartOpen
  <2>17. ASSUME UNCHANGED vars PROVE EventPlaces'
    BY <2>17 DEF vars
  <2> QED
    BY <2>1, <2>2, <2>3, <2>4, <2>5, <2>6, <2>7, <2>8, <2>9, <2>10, <2>11, <2>12, <2>13, <2>14, <2>15, <2>16, <2>17
       DEF Next, CallerStep, Wait
<1>2. Answers'
  <2> USE DEF IInv, Answers, EventPlaces, Fresh, Marks, ReusableIsClean
  <2>1. ASSUME NEW r \in Requests, Invoke(r) PROVE Answers'
    BY <2>1 DEF Invoke
  <2>2. ASSUME NEW r \in Requests, Post(r) PROVE Answers'
    BY <2>2 DEF Post
  <2>3. ASSUME NEW r \in Requests, Expire(r) PROVE Answers'
    BY <2>3 DEF Expire
  <2>4. ASSUME NEW r \in Requests, Complete(r) PROVE Answers'
    BY <2>4 DEF Complete, RxOpen
  <2>5. ASSUME InitFire PROVE Answers'
    BY <2>5 DEF InitFire
  <2>6. ASSUME PollStart PROVE Answers'
    BY <2>6 DEF PollStart, Decide, Undelivered
  <2>7. ASSUME PollReply PROVE Answers'
    BY <2>7 DEF PollReply, Decide
  <2>8. ASSUME PollTimerAndExit PROVE Answers'
    BY <2>8 DEF PollTimerAndExit, TimerElapsed, Decide
  <2>9. ASSUME Finish PROVE Answers'
    BY <2>9 DEF Finish, Over
  <2>10. ASSUME Cancel PROVE Answers'
    BY <2>10 DEF Cancel, Over
  <2>11. ASSUME ColdStart PROVE Answers'
    BY <2>11 DEF ColdStart
  <2>12. ASSUME CallNext PROVE Answers'
    BY <2>12 DEF CallNext
  <2>13. ASSUME Exit PROVE Answers'
    BY <2>13 DEF Exit
  <2>14. ASSUME CloseNext PROVE Answers'
    BY <2>14 DEF CloseNext
  <2>15. ASSUME NextReceive PROVE Answers'
    BY <2>15 DEF NextReceive, RxOpen, StartOpen
  <2>16. ASSUME NextDeliver PROVE Answers'
    BY ZenonT(30), <2>16 DEF NextDeliver, StartOpen
  <2>17. ASSUME UNCHANGED vars PROVE Answers'
    BY <2>17 DEF vars
  <2> QED
    BY <2>1, <2>2, <2>3, <2>4, <2>5, <2>6, <2>7, <2>8, <2>9, <2>10, <2>11, <2>12, <2>13, <2>14, <2>15, <2>16, <2>17
       DEF Next, CallerStep, Wait
<1>3. Fresh'
  <2> USE DEF IInv, Fresh, EventPlaces, Marks, ReusableIsClean
  <2>1. ASSUME NEW r \in Requests, Invoke(r) PROVE Fresh'
    BY <2>1 DEF Invoke
  <2>2. ASSUME NEW r \in Requests, Post(r) PROVE Fresh'
    BY <2>2 DEF Post
  <2>3. ASSUME NEW r \in Requests, Expire(r) PROVE Fresh'
    BY <2>3 DEF Expire
  <2>4. ASSUME NEW r \in Requests, Complete(r) PROVE Fresh'
    BY <2>4 DEF Complete, RxOpen
  <2>5. ASSUME InitFire PROVE Fresh'
    BY <2>5 DEF InitFire
  <2>6. ASSUME PollStart PROVE Fresh'
    BY <2>6 DEF PollStart, Decide, Undelivered
  <2>7. ASSUME PollReply PROVE Fresh'
    BY <2>7 DEF PollReply, Decide
  <2>8. ASSUME PollTimerAndExit PROVE Fresh'
    BY <2>8 DEF PollTimerAndExit, TimerElapsed, Decide
  <2>9. ASSUME Finish PROVE Fresh'
    BY <2>9 DEF Finish, Over
  <2>10. ASSUME Cancel PROVE Fresh'
    BY <2>10 DEF Cancel, Over
  <2>11. ASSUME ColdStart PROVE Fresh'
    BY <2>11 DEF ColdStart
  <2>12. ASSUME CallNext PROVE Fresh'
    BY <2>12 DEF CallNext
  <2>13. ASSUME Exit PROVE Fresh'
    BY <2>13 DEF Exit
  <2>14. ASSUME CloseNext PROVE Fresh'
    BY <2>14 DEF CloseNext
  <2>15. ASSUME NextReceive PROVE Fresh'
    BY <2>15 DEF NextReceive, RxOpen, StartOpen
  <2>16. ASSUME NextDeliver PROVE Fresh'
    <3>1. CASE StartOpen(held)
      BY <2>16, <3>1 DEF NextDeliver, StartOpen
    <3>2. CASE ~StartOpen(held)
      BY <2>16, <3>2 DEF NextDeliver
    <3> QED
      BY <3>1, <3>2
  <2>17. ASSUME UNCHANGED vars PROVE Fresh'
    BY <2>17 DEF vars
  <2> QED
    BY <2>1, <2>2, <2>3, <2>4, <2>5, <2>6, <2>7, <2>8, <2>9, <2>10, <2>11, <2>12, <2>13, <2>14, <2>15, <2>16, <2>17
       DEF Next, CallerStep, Wait
<1>4. Marks'
  <2> USE DEF IInv, Marks
  <2>1. ASSUME NEW r \in Requests, Invoke(r) PROVE Marks'
    BY <2>1 DEF Invoke
  <2>2. ASSUME NEW r \in Requests, Post(r) PROVE Marks'
    BY <2>2 DEF Post
  <2>3. ASSUME NEW r \in Requests, Expire(r) PROVE Marks'
    BY <2>3 DEF Expire
  <2>4. ASSUME NEW r \in Requests, Complete(r) PROVE Marks'
    BY <2>4 DEF Complete, RxOpen
  <2>5. ASSUME InitFire PROVE Marks'
    BY <2>5 DEF InitFire
  <2>6. ASSUME PollStart PROVE Marks'
    BY <2>6 DEF PollStart, Decide, Undelivered
  <2>7. ASSUME PollReply PROVE Marks'
    BY <2>7 DEF PollReply, Decide
  <2>8. ASSUME PollTimerAndExit PROVE Marks'
    BY <2>8 DEF PollTimerAndExit, TimerElapsed, Decide
  <2>9. ASSUME Finish PROVE Marks'
    BY <2>9 DEF Finish, Over
  <2>10. ASSUME Cancel PROVE Marks'
    BY <2>10 DEF Cancel, Over
  <2>11. ASSUME ColdStart PROVE Marks'
    BY <2>11 DEF ColdStart
  <2>12. ASSUME CallNext PROVE Marks'
    BY <2>12 DEF CallNext
  <2>13. ASSUME Exit PROVE Marks'
    BY <2>13 DEF Exit
  <2>14. ASSUME CloseNext PROVE Marks'
    BY <2>14 DEF CloseNext
  <2>15. ASSUME NextReceive PROVE Marks'
    BY <2>15 DEF NextReceive, RxOpen, StartOpen
  <2>16. ASSUME NextDeliver PROVE Marks'
    BY <2>16 DEF NextDeliver, StartOpen
  <2>17. ASSUME UNCHANGED vars PROVE Marks'
    BY <2>17 DEF vars
  <2> QED
    BY <2>1, <2>2, <2>3, <2>4, <2>5, <2>6, <2>7, <2>8, <2>9, <2>10, <2>11, <2>12, <2>13, <2>14, <2>15, <2>16, <2>17
       DEF Next, CallerStep, Wait
<1>5. QueueBound'
  <2> USE DEF IInv, QueueBound, ReusableIsClean, Marks
  <2>1. ASSUME NEW r \in Requests, Invoke(r) PROVE QueueBound'
    BY <2>1 DEF Invoke
  <2>2. ASSUME NEW r \in Requests, Post(r) PROVE QueueBound'
    BY <2>2 DEF Post
  <2>3. ASSUME NEW r \in Requests, Expire(r) PROVE QueueBound'
    BY <2>3 DEF Expire
  <2>4. ASSUME NEW r \in Requests, Complete(r) PROVE QueueBound'
    BY <2>4 DEF Complete, RxOpen
  <2>5. ASSUME InitFire PROVE QueueBound'
    BY <2>5 DEF InitFire
  <2>6. ASSUME PollStart PROVE QueueBound'
    BY <2>6 DEF PollStart, Decide, Undelivered
  <2>7. ASSUME PollReply PROVE QueueBound'
    BY <2>7 DEF PollReply, Decide
  <2>8. ASSUME PollTimerAndExit PROVE QueueBound'
    BY <2>8 DEF PollTimerAndExit, TimerElapsed, Decide
  <2>9. ASSUME Finish PROVE QueueBound'
    BY <2>9 DEF Finish, Over
  <2>10. ASSUME Cancel PROVE QueueBound'
    BY <2>10 DEF Cancel, Over
  <2>11. ASSUME ColdStart PROVE QueueBound'
    BY <2>11 DEF ColdStart
  <2>12. ASSUME CallNext PROVE QueueBound'
    BY <2>12 DEF CallNext
  <2>13. ASSUME Exit PROVE QueueBound'
    BY <2>13 DEF Exit
  <2>14. ASSUME CloseNext PROVE QueueBound'
    BY <2>14 DEF CloseNext
  <2>15. ASSUME NextReceive PROVE QueueBound'
    BY <2>15 DEF NextReceive, RxOpen, StartOpen
  <2>16. ASSUME NextDeliver PROVE QueueBound'
    BY <2>16 DEF NextDeliver, StartOpen
  <2>17. ASSUME UNCHANGED vars PROVE QueueBound'
    BY <2>17 DEF vars
  <2> QED
    BY <2>1, <2>2, <2>3, <2>4, <2>5, <2>6, <2>7, <2>8, <2>9, <2>10, <2>11, <2>12, <2>13, <2>14, <2>15, <2>16, <2>17
       DEF Next, CallerStep, Wait
<1>6. ReusableIsClean'
  <2> USE DEF IInv, ReusableIsClean, EventPlaces, Answers, Marks
  <2>1. ASSUME NEW r \in Requests, Invoke(r) PROVE ReusableIsClean'
    BY <2>1 DEF Invoke
  <2>2. ASSUME NEW r \in Requests, Post(r) PROVE ReusableIsClean'
    BY <2>2 DEF Post
  <2>3. ASSUME NEW r \in Requests, Expire(r) PROVE ReusableIsClean'
    BY <2>3 DEF Expire
  <2>4. ASSUME NEW r \in Requests, Complete(r) PROVE ReusableIsClean'
    BY <2>4 DEF Complete, RxOpen
  <2>5. ASSUME InitFire PROVE ReusableIsClean'
    BY <2>5 DEF InitFire
  <2>6. ASSUME PollStart PROVE ReusableIsClean'
    BY <2>6 DEF PollStart, Decide, Undelivered
  <2>7. ASSUME PollReply PROVE ReusableIsClean'
    BY <2>7 DEF PollReply, Decide
  <2>8. ASSUME PollTimerAndExit PROVE ReusableIsClean'
    BY <2>8 DEF PollTimerAndExit, TimerElapsed, Decide
  <2>9. ASSUME Finish PROVE ReusableIsClean'
    BY <2>9 DEF Finish, Over
  <2>10. ASSUME Cancel PROVE ReusableIsClean'
    BY <2>10 DEF Cancel, Over
  <2>11. ASSUME ColdStart PROVE ReusableIsClean'
    BY <2>11 DEF ColdStart
  <2>12. ASSUME CallNext PROVE ReusableIsClean'
    BY <2>12 DEF CallNext
  <2>13. ASSUME Exit PROVE ReusableIsClean'
    BY <2>13 DEF Exit
  <2>14. ASSUME CloseNext PROVE ReusableIsClean'
    BY <2>14 DEF CloseNext
  <2>15. ASSUME NextReceive PROVE ReusableIsClean'
    BY <2>15 DEF NextReceive, RxOpen, StartOpen
  <2>16. ASSUME NextDeliver PROVE ReusableIsClean'
    BY <2>16 DEF NextDeliver, StartOpen
  <2>17. ASSUME UNCHANGED vars PROVE ReusableIsClean'
    BY <2>17 DEF vars
  <2> QED
    BY <2>1, <2>2, <2>3, <2>4, <2>5, <2>6, <2>7, <2>8, <2>9, <2>10, <2>11, <2>12, <2>13, <2>14, <2>15, <2>16, <2>17
       DEF Next, CallerStep, Wait
<1>7. NoContamination'
  <2> USE DEF IInv, NoContamination
  <2>1. ASSUME NEW r \in Requests, Invoke(r) PROVE NoContamination'
    BY <2>1 DEF Invoke
  <2>2. ASSUME NEW r \in Requests, Post(r) PROVE NoContamination'
    BY <2>2 DEF Post
  <2>3. ASSUME NEW r \in Requests, Expire(r) PROVE NoContamination'
    BY <2>3 DEF Expire
  <2>4. ASSUME NEW r \in Requests, Complete(r) PROVE NoContamination'
    BY <2>4 DEF Complete, RxOpen
  <2>5. ASSUME InitFire PROVE NoContamination'
    BY <2>5 DEF InitFire
  <2>6. ASSUME PollStart PROVE NoContamination'
    BY <2>6 DEF PollStart, Decide, Undelivered
  <2>7. ASSUME PollReply PROVE NoContamination'
    BY <2>7 DEF PollReply, Decide
  <2>8. ASSUME PollTimerAndExit PROVE NoContamination'
    BY <2>8 DEF PollTimerAndExit, TimerElapsed, Decide
  <2>9. ASSUME Finish PROVE NoContamination'
    BY <2>9 DEF Finish, Over
  <2>10. ASSUME Cancel PROVE NoContamination'
    BY <2>10 DEF Cancel, Over
  <2>11. ASSUME ColdStart PROVE NoContamination'
    BY <2>11 DEF ColdStart
  <2>12. ASSUME CallNext PROVE NoContamination'
    BY <2>12 DEF CallNext
  <2>13. ASSUME Exit PROVE NoContamination'
    BY <2>13 DEF Exit
  <2>14. ASSUME CloseNext PROVE NoContamination'
    BY <2>14 DEF CloseNext
  <2>15. ASSUME NextReceive PROVE NoContamination'
    BY <2>15 DEF NextReceive, RxOpen, StartOpen
  <2>16. ASSUME NextDeliver PROVE NoContamination'
    BY <2>16 DEF NextDeliver, StartOpen
  <2>17. ASSUME UNCHANGED vars PROVE NoContamination'
    BY <2>17 DEF vars
  <2> QED
    BY <2>1, <2>2, <2>3, <2>4, <2>5, <2>6, <2>7, <2>8, <2>9, <2>10, <2>11, <2>12, <2>13, <2>14, <2>15, <2>16, <2>17
       DEF Next, CallerStep, Wait
<1>8. NoAbandonedHandler'
  <2> USE DEF IInv, NoAbandonedHandler, Answers, Marks
  <2>1. ASSUME NEW r \in Requests, Invoke(r) PROVE NoAbandonedHandler'
    BY <2>1 DEF Invoke
  <2>2. ASSUME NEW r \in Requests, Post(r) PROVE NoAbandonedHandler'
    BY <2>2 DEF Post
  <2>3. ASSUME NEW r \in Requests, Expire(r) PROVE NoAbandonedHandler'
    BY <2>3 DEF Expire
  <2>4. ASSUME NEW r \in Requests, Complete(r) PROVE NoAbandonedHandler'
    BY <2>4 DEF Complete, RxOpen
  <2>5. ASSUME InitFire PROVE NoAbandonedHandler'
    BY <2>5 DEF InitFire
  <2>6. ASSUME PollStart PROVE NoAbandonedHandler'
    BY <2>6 DEF PollStart, Decide, Undelivered
  <2>7. ASSUME PollReply PROVE NoAbandonedHandler'
    BY <2>7 DEF PollReply, Decide
  <2>8. ASSUME PollTimerAndExit PROVE NoAbandonedHandler'
    BY <2>8 DEF PollTimerAndExit, TimerElapsed, Decide
  <2>9. ASSUME Finish PROVE NoAbandonedHandler'
    BY <2>9 DEF Finish, Over
  <2>10. ASSUME Cancel PROVE NoAbandonedHandler'
    BY <2>10 DEF Cancel, Over
  <2>11. ASSUME ColdStart PROVE NoAbandonedHandler'
    BY <2>11 DEF ColdStart
  <2>12. ASSUME CallNext PROVE NoAbandonedHandler'
    BY <2>12 DEF CallNext
  <2>13. ASSUME Exit PROVE NoAbandonedHandler'
    BY <2>13 DEF Exit
  <2>14. ASSUME CloseNext PROVE NoAbandonedHandler'
    BY <2>14 DEF CloseNext
  <2>15. ASSUME NextReceive PROVE NoAbandonedHandler'
    BY <2>15 DEF NextReceive, RxOpen, StartOpen
  <2>16. ASSUME NextDeliver PROVE NoAbandonedHandler'
    <3>1. CASE StartOpen(held)
      BY <2>16, <3>1 DEF NextDeliver, StartOpen
    <3>2. CASE ~StartOpen(held)
      BY <2>16, <3>2 DEF NextDeliver
    <3> QED
      BY <3>1, <3>2
  <2>17. ASSUME UNCHANGED vars PROVE NoAbandonedHandler'
    BY <2>17 DEF vars
  <2> QED
    BY <2>1, <2>2, <2>3, <2>4, <2>5, <2>6, <2>7, <2>8, <2>9, <2>10, <2>11, <2>12, <2>13, <2>14, <2>15, <2>16, <2>17
       DEF Next, CallerStep, Wait
<1>9. NeverDropped'
  <2> USE DEF IInv, NeverDropped, Answers, Marks
  <2>1. ASSUME NEW r \in Requests, Invoke(r) PROVE NeverDropped'
    BY <2>1 DEF Invoke
  <2>2. ASSUME NEW r \in Requests, Post(r) PROVE NeverDropped'
    BY <2>2 DEF Post
  <2>3. ASSUME NEW r \in Requests, Expire(r) PROVE NeverDropped'
    BY <2>3 DEF Expire
  <2>4. ASSUME NEW r \in Requests, Complete(r) PROVE NeverDropped'
    BY <2>4 DEF Complete, RxOpen
  <2>5. ASSUME InitFire PROVE NeverDropped'
    BY <2>5 DEF InitFire
  <2>6. ASSUME PollStart PROVE NeverDropped'
    BY <2>6 DEF PollStart, Decide, Undelivered
  <2>7. ASSUME PollReply PROVE NeverDropped'
    BY <2>7 DEF PollReply, Decide
  <2>8. ASSUME PollTimerAndExit PROVE NeverDropped'
    BY <2>8 DEF PollTimerAndExit, TimerElapsed, Decide
  <2>9. ASSUME Finish PROVE NeverDropped'
    BY <2>9 DEF Finish, Over
  <2>10. ASSUME Cancel PROVE NeverDropped'
    BY <2>10 DEF Cancel, Over
  <2>11. ASSUME ColdStart PROVE NeverDropped'
    BY <2>11 DEF ColdStart
  <2>12. ASSUME CallNext PROVE NeverDropped'
    BY <2>12 DEF CallNext
  <2>13. ASSUME Exit PROVE NeverDropped'
    BY <2>13 DEF Exit
  <2>14. ASSUME CloseNext PROVE NeverDropped'
    BY <2>14 DEF CloseNext
  <2>15. ASSUME NextReceive PROVE NeverDropped'
    BY <2>15 DEF NextReceive, RxOpen, StartOpen
  <2>16. ASSUME NextDeliver PROVE NeverDropped'
    BY <2>16 DEF NextDeliver, StartOpen
  <2>17. ASSUME UNCHANGED vars PROVE NeverDropped'
    BY <2>17 DEF vars
  <2> QED
    BY <2>1, <2>2, <2>3, <2>4, <2>5, <2>6, <2>7, <2>8, <2>9, <2>10, <2>11, <2>12, <2>13, <2>14, <2>15, <2>16, <2>17
       DEF Next, CallerStep, Wait
<1> QED
  BY <1>1, <1>2, <1>3, <1>4, <1>5, <1>6, <1>7, <1>8, <1>9 DEF IInv

LEMMA Invariant == Spec => []IInv
<1>1. Init => IInv
  <2> SUFFICES ASSUME Init PROVE IInv
    OBVIOUS
  <2> USE RuntimeApiAssumption DEF Init
  <2>1. TypeInv
    BY EmptySeq DEF TypeInv, TypeOK, Pcs, Verdicts
  <2>2. EventPlaces /\ Answers /\ Marks
    BY DEF EventPlaces, Answers, Marks
  <2>3. Fresh /\ NoContamination /\ NoAbandonedHandler /\ NeverDropped
    BY DEF Fresh, NoContamination, NoAbandonedHandler, NeverDropped
  <2>4. QueueBound
    BY EmptySeq DEF QueueBound
  <2>5. ReusableIsClean
    BY DEF ReusableIsClean
  <2> QED
    BY <2>1, <2>2, <2>3, <2>4, <2>5 DEF IInv
<1> QED
  BY <1>1, Inductive, TypeInvariant, PTL DEF Spec

(* A caller only ever receives the answer to its own event. *)
THEOREM OwnAnswers == Spec => []NoContamination
BY Invariant, PTL DEF IInv

(* A warm environment is only reused when nothing of its past invocations is *)
(* left in the channel, in a handler or in the table.                        *)
THEOREM CleanReuse == Spec => []ReusableIsClean
BY Invariant, PTL DEF IInv

(* No live process works on an event whose caller has gone. *)
THEOREM HandlersHaveCallers == Spec => []NoAbandonedHandler
BY Invariant, PTL DEF IInv

(* The channel never holds more than one event, and a delivered event is    *)
(* never dropped without a response.                                        *)
THEOREM NothingQueuesOrDrops == Spec => [](QueueBound /\ NeverDropped)
BY Invariant, PTL DEF IInv
=============================================================================
