---------------------------- MODULE PublishProofs ----------------------------
(***************************************************************************)
(* PublishConfirm for any number of calls: one at a time holds the mutex,   *)
(* and as long as no call was cancelled, the only confirmation under way is *)
(* that of the call which waits for it, although nothing compares delivery  *)
(* tags.  Hence nil and an error mean what the callers of PublishJSON take  *)
(* them for.                                                                *)
(***************************************************************************)
EXTENDS PublishConfirm, SequenceTheorems, TLAPS

USE PublishAssumption

Early   == {"idle", "locking", "draining", "publishing"}
Waiting == {"polling", "selecting", "confirming"}
Holding == {"draining", "publishing"} \cup Waiting

\* sync.Mutex: the call that holds it is the one between Lock and Unlock.
MutexInv == \A m \in Call : publishMu = m <=> pc[m] \in Holding

TheReturn(m) == [kind |-> "return", of |-> m]

\* c is the confirmation of m, and tells the truth about it.
Answers(c, m) ==
  /\ c \in Confirmation
  /\ c.of = m
  /\ m \notin Unroutable => (c.kind = "ack" <=> m \in enqueued)

\* Where the message of a waiting call is: written to the socket, in the
\* broker, on its way back behind its return, or in the channel.
Written(m) ==
  /\ socket = <<m>> /\ unconfirmed = <<>> /\ wire = <<>> /\ confirms = <<>>
  /\ m \notin enqueued

InBroker(m) ==
  \E c \in Confirmation :
    /\ Answers(c, m)
    /\ socket = <<>> /\ unconfirmed = <<c>> /\ confirms = <<>>
    /\ wire = <<>> \/ (m \in Unroutable /\ wire = <<TheReturn(m)>>)

OnTheWire(m) ==
  \E c \in Confirmation :
    /\ Answers(c, m)
    /\ socket = <<>> /\ unconfirmed = <<>> /\ confirms = <<>>
    /\ wire = <<c>> \/ (m \in Unroutable /\ wire = <<TheReturn(m), c>>)

Arrived(m) ==
  \E c \in Confirmation :
    /\ Answers(c, m)
    /\ socket = <<>> /\ unconfirmed = <<>> /\ wire = <<>> /\ confirms = <<c>>

Quiet == socket = <<>> /\ unconfirmed = <<>> /\ wire = <<>> /\ confirms = <<>>

\* Only an unroutable message is returned.
InFlight(m) ==
  /\ Written(m) \/ InBroker(m) \/ OnTheWire(m) \/ Arrived(m)
  /\ m \notin Unroutable => returns = <<>> /\ pc[m] # "confirming"

\* A message is in a queue only if its call wrote it and a queue is bound.
QueuedWasWritten ==
  \A m \in Call : m \in enqueued => pc[m] \notin Early /\ m \notin Unroutable

\* Whoever returned has taken its confirmation.
QuietUnlessWaiting == (\A m \in Call : pc[m] \notin Waiting) => Quiet

\* A return that nobody took is drained before the next message is written.
DrainedBeforePublish == \A m \in Call : pc[m] = "publishing" => returns = <<>>

\* A waiting call waits for its own confirmation.
WaitingForItsOwn ==
  \A m \in Call : pc[m] \in Waiting =>
    IF open THEN InFlight(m) ELSE Quiet \/ Arrived(m)

NilTrue == \A m \in Call \ Unroutable : At(m, "ok") => m \in enqueued

ErrorTrue == open => \A m \in Call : At(m, "failed") => m \notin enqueued

FlowInv ==
  /\ QueuedWasWritten
  /\ QuietUnlessWaiting
  /\ DrainedBeforePublish
  /\ WaitingForItsOwn
  /\ NilTrue
  /\ ErrorTrue

PublishInv == TypeOK /\ MutexInv /\ (NoneCancelled => FlowInv)

-----------------------------------------------------------------------------
(* Types and the mutex, whoever is cancelled.                               *)

\* A return, and its confirmation behind it.
LEMMA AppendSecond ==
  ASSUME NEW S, NEW a \in S, NEW b \in S
  PROVE  Append(<<a>>, b) = <<a, b>>
<1>1. <<a>> \in Seq(S) /\ Len(<<a>>) = 1
  OBVIOUS
<1>2. /\ Append(<<a>>, b) \in Seq(S)
      /\ Len(Append(<<a>>, b)) = 2
      /\ Append(<<a>>, b)[1] = a
      /\ Append(<<a>>, b)[2] = b
  BY <1>1
<1>3. /\ <<a, b>> \in Seq(S)
      /\ Len(<<a, b>>) = 2
      /\ <<a, b>>[1] = a
      /\ <<a, b>>[2] = b
  OBVIOUS
<1>4. \A i \in 1 .. 2 : Append(<<a>>, b)[i] = <<a, b>>[i]
  BY <1>2, <1>3
<1> QED
  BY <1>2, <1>3, <1>4, SeqEqual

\* What the broker does with the message m that it takes from the socket.
LEMMA ReceivedAnswer ==
  ASSUME Receive
  PROVE  \E kind \in {"ack", "nack"} :
           LET m == Head(socket) IN
           /\ socket # <<>> /\ socket' = Tail(socket)
           /\ unconfirmed' = Append(unconfirmed, [kind |-> kind, of |-> m])
           /\ \/ m \in Unroutable /\ enqueued' = enqueued /\ wire' = Append(wire, TheReturn(m))
              \/ m \notin Unroutable /\ wire' = wire
                 /\ enqueued' = IF kind = "ack" THEN enqueued \cup {m} ELSE enqueued
           /\ UNCHANGED <<pc, publishMu, returns, confirms, open>>
BY DEF Receive, TheReturn, clientVars

LEMMA InitPublishInv == Init => PublishInv
<1> SUFFICES ASSUME Init PROVE PublishInv
  OBVIOUS
<1>1. TypeOK
  BY DEF Init, TypeOK, CallState, Returned
<1>2. MutexInv
  BY DEF Init, MutexInv, Holding, Waiting
<1>3. FlowInv
  BY DEF Init, FlowInv, QueuedWasWritten, QuietUnlessWaiting, DrainedBeforePublish,
         WaitingForItsOwn, NilTrue, ErrorTrue, Quiet, Waiting, At
<1> QED
  BY <1>1, <1>2, <1>3 DEF PublishInv

\* Only Lock takes the mutex, when it is free, and only the holder gives it back.
LEMMA NextMutex == TypeOK /\ MutexInv /\ [Next]_vars => MutexInv'
<1> SUFFICES ASSUME TypeOK, MutexInv, [Next]_vars PROVE MutexInv'
  OBVIOUS
<1> USE DEF TypeOK, MutexInv, Holding, Waiting, At
<1>1. ASSUME NEW m \in Call, BeginCall(m) PROVE MutexInv'
  BY <1>1 DEF BeginCall, GoTo
<1>2. ASSUME NEW m \in Call, Lock(m) PROVE MutexInv'
  BY <1>2 DEF Lock
<1>3. ASSUME NEW m \in Call, Drain(m) PROVE MutexInv'
  BY <1>3 DEF Drain, GoTo, clientVars
<1>4. ASSUME NEW m \in Call, Publish(m) PROVE MutexInv'
  BY <1>4 DEF Publish, GoTo, Finish
<1>5. ASSUME NEW m \in Call, PollReturned(m) PROVE MutexInv'
  BY <1>5 DEF PollReturned, TakeReturn, GoTo
<1>6. ASSUME NEW m \in Call, Select(m) \/ Confirm(m) PROVE MutexInv'
  BY <1>6 DEF Select, Confirm, TakeReturn, TakeConfirmation, GoTo, Finish
<1>7. ASSUME NEW m \in Call, Cancel(m) PROVE MutexInv'
  BY <1>7 DEF Cancel, Finish
<1>8. CASE BrokerStep \/ Close \/ UNCHANGED vars
  BY <1>8 DEF BrokerStep, Receive, SendConfirmation, Dispatch, Close, vars, clientVars
<1> QED
  BY <1>1, <1>2, <1>3, <1>4, <1>5, <1>6, <1>7, <1>8 DEF Next, CallStep

LEMMA NextTypeOK == TypeOK /\ [Next]_vars => TypeOK'
<1> SUFFICES ASSUME TypeOK, [Next]_vars PROVE TypeOK'
  OBVIOUS
<1> USE DEF TypeOK, CallState, Returned, At
<1>1. ASSUME NEW m \in Call, BeginCall(m) PROVE TypeOK'
  BY <1>1 DEF BeginCall, GoTo, brokerVars, frameVars
<1>2. ASSUME NEW m \in Call, Lock(m) PROVE TypeOK'
  BY <1>2 DEF Lock, brokerVars, frameVars
<1>3. ASSUME NEW m \in Call, Drain(m) PROVE TypeOK'
  BY <1>3 DEF Drain, GoTo, clientVars, brokerVars
<1>4. ASSUME NEW m \in Call, Publish(m) PROVE TypeOK'
  <2>1. CASE open
    <3>1. socket' = Append(socket, m) /\ socket' \in Seq(Call)
      <4>1. socket' = Append(socket, m)
        BY <1>4, <2>1 DEF Publish
      <4>2. socket \in Seq(Call)
        OBVIOUS
      <4> HIDE DEF TypeOK
      <4> QED
        BY <4>1, <4>2, AppendProperties
    <3>2. pc' \in [Call -> CallState]
      BY <1>4, <2>1 DEF Publish, GoTo
    <3> QED
      BY <1>4, <2>1, <3>1, <3>2 DEF Publish, GoTo, frameVars
  <2>2. CASE ~open
    BY <1>4, <2>2 DEF Publish, Finish, frameVars
  <2> QED
    BY <2>1, <2>2
<1>5. ASSUME NEW m \in Call, TakeReturn(m) PROVE TypeOK'
  BY <1>5 DEF TakeReturn, GoTo, brokerVars
<1>6. ASSUME NEW m \in Call, PollReturned(m) PROVE TypeOK'
  BY <1>5, <1>6 DEF PollReturned, GoTo, brokerVars, frameVars
<1>7. ASSUME NEW m \in Call, NEW good \in {"ok", "failed"}, TakeConfirmation(m, good)
      PROVE  TypeOK'
  BY <1>7 DEF TakeConfirmation, Finish, brokerVars
<1>8. ASSUME NEW m \in Call, Select(m) \/ Confirm(m) PROVE TypeOK'
  BY <1>5, <1>7, <1>8 DEF Select, Confirm
<1>9. ASSUME NEW m \in Call, Cancel(m) PROVE TypeOK'
  BY <1>9 DEF Cancel, Finish, brokerVars, frameVars
<1>10. CASE Receive
  <2>1. Head(socket) \in Call /\ Tail(socket) \in Seq(Call)
    BY <1>10 DEF Receive
  <2>2. PICK kind \in {"ack", "nack"} :
          /\ socket' = Tail(socket)
          /\ unconfirmed' = Append(unconfirmed, [kind |-> kind, of |-> Head(socket)])
          /\ wire' \in {wire, Append(wire, TheReturn(Head(socket)))}
          /\ enqueued' \in {enqueued, enqueued \cup {Head(socket)}}
          /\ UNCHANGED <<pc, publishMu, returns, confirms, open>>
    BY <1>10, ReceivedAnswer
  <2>3. /\ TheReturn(Head(socket)) \in Confirmation \cup Return
        /\ [kind |-> kind, of |-> Head(socket)] \in Confirmation
    BY <2>1 DEF TheReturn, Return, Confirmation
  <2>4. wire' \in Seq(Confirmation \cup Return) /\ unconfirmed' \in Seq(Confirmation)
    <3>1. wire \in Seq(Confirmation \cup Return) /\ unconfirmed \in Seq(Confirmation)
      OBVIOUS
    <3> HIDE DEF TypeOK
    <3>2. wire' \in Seq(Confirmation \cup Return)
      BY <2>2, <2>3, <3>1, AppendProperties
    <3>3. unconfirmed' \in Seq(Confirmation)
      BY <2>2, <2>3, <3>1, AppendProperties
    <3> QED
      BY <3>2, <3>3
  <2> QED
    BY <2>1, <2>2, <2>4
<1>11. CASE SendConfirmation
  BY <1>11 DEF SendConfirmation, clientVars
<1>12. CASE Dispatch
  <2>1. /\ Head(wire) \in Confirmation \cup Return
        /\ Tail(wire) \in Seq(Confirmation \cup Return)
    BY <1>12 DEF Dispatch
  <2>2. CASE Head(wire).kind = "return" /\ Len(returns) < 1 /\ returns' = Append(returns, Head(wire))
                /\ UNCHANGED confirms
    <3>1. Head(wire) \in Return
      BY <2>1, <2>2 DEF Confirmation, Return
    <3> QED
      BY <1>12, <2>1, <2>2, <3>1 DEF Dispatch, clientVars, brokerVars
  <2>3. CASE Head(wire).kind # "return" /\ Len(confirms) < 1 /\ confirms' = Append(confirms, Head(wire))
                /\ UNCHANGED returns
    <3>1. Head(wire) \in Confirmation
      BY <2>1, <2>3 DEF Confirmation, Return
    <3> QED
      BY <1>12, <2>1, <2>3, <3>1 DEF Dispatch, clientVars, brokerVars
  <2> QED
    BY <1>12, <2>2, <2>3 DEF Dispatch, ChannelCapacity
<1>13. CASE Close
  <2>1. /\ <<>> \in Seq(Call)
        /\ <<>> \in Seq(Confirmation)
        /\ <<>> \in Seq(Confirmation \cup Return)
    OBVIOUS
  <2> QED
    BY <1>13, <2>1 DEF Close, clientVars
<1>14. CASE UNCHANGED vars
  BY <1>14 DEF vars, clientVars, brokerVars, frameVars
<1> QED
  BY <1>1, <1>2, <1>3, <1>4, <1>6, <1>8, <1>9, <1>10, <1>11, <1>12, <1>13, <1>14
     DEF Next, CallStep, BrokerStep

-----------------------------------------------------------------------------
(* The way of a message, as long as no call was cancelled.                  *)

LEMMA OneHolds ==
  ASSUME MutexInv, NEW m \in Call, pc[m] \in Holding, NEW n \in Call, pc[n] \in Holding
  PROVE  m = n
BY DEF MutexInv

\* What is under way belongs to a waiting call, and only while the connection lasts.
LEMMA SomeoneWaits ==
  ASSUME FlowInv, socket # <<>> \/ unconfirmed # <<>> \/ wire # <<>>
  PROVE  open /\ \E m \in Call : pc[m] \in Waiting /\ InFlight(m)
<1>1. PICK m \in Call : pc[m] \in Waiting
  BY DEF FlowInv, QuietUnlessWaiting, Quiet
<1>2. open
  BY <1>1 DEF FlowInv, WaitingForItsOwn, Quiet, Arrived
<1> QED
  BY <1>1, <1>2 DEF FlowInv, WaitingForItsOwn

\* A step of a call that touches none of the channels.
LEMMA BeforeWritingFlow ==
  ASSUME TypeOK, MutexInv, FlowInv, NEW m \in Call, BeginCall(m) \/ Lock(m)
  PROVE  FlowInv'
<1>1. /\ pc[m] \in {"idle", "locking"}
      /\ pc' \in {[pc EXCEPT ![m] = "locking"], [pc EXCEPT ![m] = "draining"]}
      /\ UNCHANGED <<open, socket, unconfirmed, enqueued, wire, returns, confirms>>
  BY DEF BeginCall, Lock, GoTo, At, brokerVars, frameVars
<1>2. \A n \in Call : n # m => pc'[n] = pc[n]
  BY <1>1 DEF TypeOK
<1>3. pc'[m] \in {"locking", "draining"}
  BY <1>1 DEF TypeOK
<1>4. QueuedWasWritten'
  BY <1>1, <1>2 DEF FlowInv, QueuedWasWritten, Early
<1>5. QuietUnlessWaiting'
  BY <1>1, <1>2 DEF FlowInv, QuietUnlessWaiting, Quiet, Waiting
<1>6. DrainedBeforePublish'
  BY <1>1, <1>2, <1>3 DEF FlowInv, DrainedBeforePublish
<1>7. WaitingForItsOwn'
  BY <1>1, <1>2, <1>3 DEF FlowInv, WaitingForItsOwn, Waiting, Quiet, InFlight, Written, InBroker,
                          OnTheWire, Arrived, Answers, TheReturn
<1>8. NilTrue' /\ ErrorTrue'
  BY <1>1, <1>2, <1>3 DEF FlowInv, NilTrue, ErrorTrue, At
<1> QED
  BY <1>4, <1>5, <1>6, <1>7, <1>8 DEF FlowInv

LEMMA DrainFlow ==
  ASSUME TypeOK, MutexInv, FlowInv, NEW m \in Call, Drain(m)
  PROVE  FlowInv'
<1>1. \A n \in Call : pc[n] \in Holding => n = m
  BY OneHolds DEF Drain, At, Holding
<1>2. \A n \in Call : pc[n] \notin Waiting
  BY <1>1 DEF Drain, At, Holding, Waiting
<1>3. Quiet
  BY <1>2 DEF FlowInv, QuietUnlessWaiting
<1>4. /\ UNCHANGED <<open, socket, unconfirmed, enqueued, wire, confirms>>
      /\ \/ pc' = pc
         \/ returns' = <<>> /\ pc' = [pc EXCEPT ![m] = "publishing"]
  BY <1>3 DEF Drain, GoTo, brokerVars, clientVars, Quiet
<1>5. \A n \in Call : n # m => pc'[n] = pc[n]
  BY <1>4 DEF TypeOK
<1>6. /\ pc[m] = "draining"
      /\ \/ pc'[m] = "draining"
         \/ pc'[m] = "publishing" /\ returns' = <<>>
  BY <1>4 DEF TypeOK, Drain, At
<1>7. QueuedWasWritten'
  BY <1>4, <1>5, <1>6 DEF FlowInv, QueuedWasWritten, Early
<1>8. QuietUnlessWaiting'
  BY <1>3, <1>4 DEF QuietUnlessWaiting, Quiet
<1>9. DrainedBeforePublish'
  BY <1>1, <1>5, <1>6 DEF DrainedBeforePublish, Holding
<1>10. WaitingForItsOwn'
  BY <1>2, <1>5, <1>6 DEF WaitingForItsOwn, Waiting
<1>11. NilTrue' /\ ErrorTrue'
  BY <1>4, <1>5, <1>6 DEF FlowInv, NilTrue, ErrorTrue, At
<1> QED
  BY <1>7, <1>8, <1>9, <1>10, <1>11 DEF FlowInv

\* The message is the only one under way.
LEMMA PublishFlow ==
  ASSUME TypeOK, MutexInv, FlowInv, NEW m \in Call, Publish(m)
  PROVE  FlowInv'
<1>1. \A n \in Call : pc[n] \in Holding => n = m
  BY OneHolds DEF Publish, At, Holding
<1>2. \A n \in Call : pc[n] \notin Waiting
  BY <1>1 DEF Publish, At, Holding, Waiting
<1>3. Quiet /\ returns = <<>> /\ m \notin enqueued
  BY <1>2 DEF FlowInv, QuietUnlessWaiting, DrainedBeforePublish, QueuedWasWritten, Publish, At,
              Early
<1>4. UNCHANGED <<open, unconfirmed, enqueued, wire, returns, confirms>>
  BY DEF Publish, frameVars
<1>5. \/ open /\ pc' = [pc EXCEPT ![m] = "polling"] /\ socket' = <<m>>
      \/ ~open /\ pc' = [pc EXCEPT ![m] = "failed"] /\ socket' = <<>>
  BY <1>3 DEF Publish, GoTo, Finish, Quiet
<1>6. \A n \in Call : n # m => pc'[n] = pc[n]
  BY <1>5 DEF TypeOK
<1>7. \/ open /\ pc'[m] = "polling"
      \/ ~open /\ pc'[m] = "failed"
  BY <1>5 DEF TypeOK
<1>8. QueuedWasWritten'
  BY <1>3, <1>4, <1>6 DEF FlowInv, QueuedWasWritten
<1>9. QuietUnlessWaiting'
  <2>1. CASE open
    BY <1>5, <1>7, <2>1 DEF QuietUnlessWaiting, Waiting
  <2>2. CASE ~open
    BY <1>3, <1>4, <1>5, <2>2 DEF QuietUnlessWaiting, Quiet
  <2> QED
    BY <2>1, <2>2
<1>10. DrainedBeforePublish'
  BY <1>3, <1>4 DEF DrainedBeforePublish
<1>11. WaitingForItsOwn'
  <2> SUFFICES ASSUME NEW n \in Call, pc'[n] \in Waiting PROVE open' /\ InFlight(n)'
    BY DEF WaitingForItsOwn
  <2>1. n = m /\ open
    BY <1>2, <1>6, <1>7 DEF Waiting
  <2>2. Written(m)'
    BY <1>3, <1>4, <1>5, <2>1 DEF Written, Quiet
  <2> QED
    BY <1>3, <1>4, <1>7, <2>1, <2>2 DEF InFlight
<1>12. NilTrue' /\ ErrorTrue'
  BY <1>3, <1>4, <1>6, <1>7 DEF FlowInv, NilTrue, ErrorTrue, At
<1> QED
  BY <1>8, <1>9, <1>10, <1>11, <1>12 DEF FlowInv

\* While the connection lasts, only an unroutable call finds a return.
LEMMA PollFlow ==
  ASSUME TypeOK, MutexInv, FlowInv, NEW m \in Call,
         PollReturned(m) \/ (At(m, "selecting") /\ TakeReturn(m))
  PROVE  FlowInv'
<1>1. /\ pc[m] \in {"polling", "selecting"}
      /\ \/ /\ pc' = [pc EXCEPT ![m] = "confirming"]
            /\ \/ returns # <<>> /\ returns' = Tail(returns)
               \/ ~open
         \/ pc' = [pc EXCEPT ![m] = "selecting"] /\ returns' = returns
      /\ UNCHANGED <<open, socket, unconfirmed, enqueued, wire, confirms>>
  BY DEF PollReturned, TakeReturn, GoTo, At, brokerVars, frameVars
<1>2. \A n \in Call : n # m => pc'[n] = pc[n]
  BY <1>1 DEF TypeOK
<1>3. pc[m] \in Waiting /\ pc'[m] \in {"confirming", "selecting"}
  BY <1>1 DEF TypeOK, Waiting
<1>4. \A n \in Call : pc[n] \in Holding => n = m
  BY <1>3, OneHolds DEF Holding
<1>5. QueuedWasWritten'
  BY <1>1, <1>2, <1>3 DEF FlowInv, QueuedWasWritten, Early
<1>6. QuietUnlessWaiting'
  BY <1>3 DEF QuietUnlessWaiting, Waiting
<1>7. DrainedBeforePublish'
  BY <1>2, <1>3, <1>4 DEF DrainedBeforePublish, Holding
<1>8. WaitingForItsOwn'
  <2> SUFFICES ASSUME NEW n \in Call, pc'[n] \in Waiting
               PROVE  IF open' THEN InFlight(n)' ELSE Quiet' \/ Arrived(n)'
    BY DEF WaitingForItsOwn
  <2>1. n = m
    BY <1>2, <1>4 DEF Holding
  <2>2. CASE ~open
    BY <1>1, <1>3, <2>1, <2>2 DEF FlowInv, WaitingForItsOwn, Quiet, Arrived, Answers
  <2>3. CASE open
    <3>1. InFlight(m)
      BY <1>3, <2>3 DEF FlowInv, WaitingForItsOwn
    <3>2. (Written(m) \/ InBroker(m) \/ OnTheWire(m) \/ Arrived(m))'
      BY <1>1, <3>1 DEF InFlight, Written, InBroker, OnTheWire, Arrived, Answers, TheReturn
    <3>3. m \notin Unroutable => returns' = <<>> /\ pc'[m] # "confirming"
      BY <1>1, <2>3, <3>1 DEF InFlight, TypeOK
    <3> QED
      BY <1>1, <2>1, <2>3, <3>2, <3>3 DEF InFlight
  <2> QED
    BY <1>1, <2>2, <2>3
<1>9. NilTrue' /\ ErrorTrue'
  BY <1>1, <1>2, <1>3 DEF FlowInv, NilTrue, ErrorTrue, At
<1> QED
  BY <1>5, <1>6, <1>7, <1>8, <1>9 DEF FlowInv

\* The confirmation that a call takes is its own: it says what became of its message.
LEMMA ConfirmationFlow ==
  ASSUME TypeOK, MutexInv, FlowInv, NEW m \in Call, NEW good \in {"ok", "failed"},
         pc[m] = IF good = "ok" THEN "selecting" ELSE "confirming",
         TakeConfirmation(m, good)
  PROVE  FlowInv'
<1>1. PICK result \in {"ok", "failed"} :
        /\ result = IF confirms # <<>> /\ Head(confirms).kind = "ack" THEN good ELSE "failed"
        /\ pc' = [pc EXCEPT ![m] = result]
  BY DEF TakeConfirmation, Finish
<1>2. UNCHANGED <<open, socket, unconfirmed, enqueued, wire, returns>>
  BY DEF TakeConfirmation, brokerVars
<1>3. \A n \in Call : n # m => pc'[n] = pc[n]
  BY <1>1 DEF TypeOK
<1>4. pc[m] \in {"selecting", "confirming"} /\ pc'[m] = result
  BY <1>1 DEF TypeOK
<1>5. \A n \in Call : pc[n] \in Holding => n = m
  BY <1>4, OneHolds DEF Holding, Waiting
<1>6. IF open THEN InFlight(m) ELSE Quiet \/ Arrived(m)
  BY <1>4 DEF FlowInv, WaitingForItsOwn, Waiting
<1>7. /\ Quiet'
      /\ confirms # <<>> =>
           (m \notin Unroutable => (Head(confirms).kind = "ack" <=> m \in enqueued))
  <2>1. CASE confirms = <<>>
    <3>1. ~open
      BY <2>1 DEF TakeConfirmation
    <3>2. Quiet
      BY <1>6, <2>1, <3>1 DEF Arrived
    <3> QED
      BY <1>2, <2>1, <3>2 DEF Quiet, TakeConfirmation
  <2>2. CASE confirms # <<>>
    <3>1. Arrived(m)
      BY <1>6, <2>2 DEF InFlight, Written, InBroker, OnTheWire, Quiet
    <3> QED
      BY <1>2, <2>2, <3>1 DEF Arrived, Answers, Quiet, TakeConfirmation
  <2> QED
    BY <2>1, <2>2
<1>8. result = "ok" => m \in Unroutable \/ m \in enqueued
  BY <1>1, <1>7
<1>9. open /\ result = "failed" => m \notin enqueued
  <2> SUFFICES ASSUME open, result = "failed", m \notin Unroutable PROVE m \notin enqueued
    BY DEF FlowInv, QueuedWasWritten
  <2>1. pc[m] # "confirming"
    BY <1>6 DEF InFlight
  <2>2. confirms # <<>> /\ good = "ok"
    BY <2>1 DEF TakeConfirmation
  <2> QED
    BY <1>1, <1>7, <2>2
<1>10. QueuedWasWritten'
  BY <1>1, <1>2, <1>3, <1>4 DEF FlowInv, QueuedWasWritten, Early
<1>11. QuietUnlessWaiting'
  BY <1>7 DEF QuietUnlessWaiting
<1>12. DrainedBeforePublish' /\ WaitingForItsOwn'
  <2>1. \A n \in Call : pc'[n] \notin Holding
    BY <1>1, <1>3, <1>4, <1>5 DEF Holding, Waiting
  <2> QED
    BY <2>1 DEF DrainedBeforePublish, WaitingForItsOwn, Holding
<1>13. NilTrue'
  BY <1>2, <1>3, <1>4, <1>8 DEF FlowInv, NilTrue, At
<1>14. ErrorTrue'
  BY <1>2, <1>3, <1>4, <1>9 DEF FlowInv, ErrorTrue, At
<1> QED
  BY <1>10, <1>11, <1>12, <1>13, <1>14 DEF FlowInv

LEMMA ReceiveFlow ==
  ASSUME TypeOK, MutexInv, FlowInv, Receive
  PROVE  FlowInv'
<1>1. PICK m \in Call : pc[m] \in Waiting /\ InFlight(m)
  BY SomeoneWaits DEF Receive
<1>2. open
  BY SomeoneWaits DEF Receive
<1>3. Written(m)
  BY <1>1 DEF InFlight, InBroker, OnTheWire, Arrived, Receive
<1>4. Head(socket) = m /\ Tail(socket) = <<>>
  BY <1>3 DEF Written
<1>5. PICK kind \in {"ack", "nack"} :
        /\ socket' = <<>>
        /\ unconfirmed' = <<[kind |-> kind, of |-> m]>>
        /\ \/ m \in Unroutable /\ enqueued' = enqueued /\ wire' = <<TheReturn(m)>>
           \/ m \notin Unroutable /\ wire' = <<>>
              /\ enqueued' = IF kind = "ack" THEN enqueued \cup {m} ELSE enqueued
        /\ UNCHANGED <<pc, publishMu, returns, confirms, open>>
  BY <1>3, <1>4, ReceivedAnswer DEF Written
<1>6. \A n \in Call : pc[n] \in Holding => n = m
  BY <1>1, OneHolds DEF Holding
<1>7. \A n \in Call : n # m => (n \in enqueued' <=> n \in enqueued)
  BY <1>5
<1>8. QueuedWasWritten'
  BY <1>1, <1>5, <1>7 DEF FlowInv, QueuedWasWritten, Early, Waiting
<1>9. QuietUnlessWaiting'
  BY <1>1, <1>5 DEF QuietUnlessWaiting
<1>10. DrainedBeforePublish'
  BY <1>5 DEF FlowInv, DrainedBeforePublish
<1>11. WaitingForItsOwn'
  <2> DEFINE c == [kind |-> kind, of |-> m]
  <2>1. c \in Confirmation /\ Answers(c, m)'
    BY <1>3, <1>5 DEF Confirmation, Answers, Written
  <2>2. InBroker(m)'
    BY <1>3, <1>5, <2>1 DEF InBroker, Written, TheReturn
  <2>3. InFlight(m)'
    BY <1>1, <1>5, <2>2 DEF InFlight
  <2> QED
    BY <1>2, <1>5, <1>6, <2>3 DEF WaitingForItsOwn, Holding
<1>12. NilTrue'
  BY <1>5, <1>7, <1>1 DEF FlowInv, NilTrue, At, Waiting
<1>13. ErrorTrue'
  BY <1>5, <1>7, <1>1 DEF FlowInv, ErrorTrue, At, Waiting
<1> QED
  BY <1>8, <1>9, <1>10, <1>11, <1>12, <1>13 DEF FlowInv

\* A step of the broker or of the reader that moves the answer to m onwards.
LEMMA OnwardFlow ==
  ASSUME MutexInv, FlowInv, NEW m \in Call, pc[m] \in Waiting, open,
         UNCHANGED <<pc, open, enqueued>>, InFlight(m)'
  PROVE  FlowInv'
<1>1. \A n \in Call : pc[n] \in Holding => n = m
  BY OneHolds DEF Holding
<1>2. QueuedWasWritten' /\ NilTrue' /\ ErrorTrue'
  BY DEF FlowInv, QueuedWasWritten, NilTrue, ErrorTrue, At
<1>3. QuietUnlessWaiting'
  BY DEF QuietUnlessWaiting
<1>4. DrainedBeforePublish'
  BY <1>1 DEF DrainedBeforePublish, Holding, Waiting
<1>5. WaitingForItsOwn'
  BY <1>1 DEF WaitingForItsOwn, Holding
<1> QED
  BY <1>2, <1>3, <1>4, <1>5 DEF FlowInv

LEMMA SendConfirmationFlow ==
  ASSUME TypeOK, MutexInv, FlowInv, SendConfirmation
  PROVE  FlowInv'
<1>1. PICK m \in Call : pc[m] \in Waiting /\ InFlight(m)
  BY SomeoneWaits DEF SendConfirmation
<1>2. open
  BY SomeoneWaits DEF SendConfirmation
<1>3. UNCHANGED <<pc, open, enqueued, socket, returns, confirms>>
  BY DEF SendConfirmation, clientVars
<1>4. InBroker(m)
  BY <1>1 DEF InFlight, Written, OnTheWire, Arrived, SendConfirmation
<1>5. PICK c \in Confirmation :
        /\ Answers(c, m)
        /\ socket = <<>> /\ unconfirmed = <<c>> /\ confirms = <<>>
        /\ wire = <<>> \/ (m \in Unroutable /\ wire = <<TheReturn(m)>>)
  BY <1>4 DEF InBroker
<1>6. unconfirmed' = <<>> /\ wire' = Append(wire, c)
  BY <1>5 DEF SendConfirmation
<1>7. wire' = <<c>> \/ (m \in Unroutable /\ wire' = <<TheReturn(m), c>>)
  <2>1. CASE wire = <<>>
    BY <1>6, <2>1
  <2>2. CASE m \in Unroutable /\ wire = <<TheReturn(m)>>
    <3>1. TheReturn(m) \in Confirmation \cup Return
      BY DEF TheReturn, Return
    <3>2. Append(<<TheReturn(m)>>, c) = <<TheReturn(m), c>>
      <4> c \in Confirmation \cup Return
        OBVIOUS
      <4> QED
        BY <3>1, AppendSecond
    <3> QED
      BY <1>6, <2>2, <3>2
  <2> QED
    BY <1>5, <2>1, <2>2
<1>8. OnTheWire(m)'
  BY <1>3, <1>5, <1>6, <1>7 DEF OnTheWire, Answers, TheReturn
<1>9. InFlight(m)'
  BY <1>1, <1>3, <1>8 DEF InFlight
<1> QED
  BY <1>1, <1>2, <1>3, <1>9, OnwardFlow

LEMMA DispatchFlow ==
  ASSUME TypeOK, MutexInv, FlowInv, Dispatch
  PROVE  FlowInv'
<1>1. PICK m \in Call : pc[m] \in Waiting /\ InFlight(m)
  BY SomeoneWaits DEF Dispatch
<1>2. open
  BY SomeoneWaits DEF Dispatch
<1>3. /\ UNCHANGED <<pc, open, enqueued, socket, unconfirmed>>
      /\ wire' = Tail(wire)
      /\ \/ Head(wire).kind = "return" /\ confirms' = confirms
         \/ /\ Head(wire).kind # "return" /\ returns' = returns
            /\ confirms' = Append(confirms, Head(wire))
  BY DEF Dispatch, clientVars, brokerVars
<1>4. TheReturn(m).kind = "return"
  BY DEF TheReturn
<1>5. \A c \in Confirmation : c.kind # "return"
  BY DEF Confirmation
<1>6. (InBroker(m) \/ OnTheWire(m) \/ Arrived(m))'
      /\ (m \notin Unroutable => returns' = returns)
  <2>1. CASE InBroker(m)
    <3>1. m \in Unroutable /\ wire = <<TheReturn(m)>>
      BY <2>1 DEF InBroker, Dispatch
    <3>2. wire' = <<>> /\ confirms' = confirms
      BY <1>3, <1>4, <3>1
    <3> QED
      BY <1>3, <2>1, <3>1, <3>2 DEF InBroker, Answers
  <2>2. CASE OnTheWire(m)
    <3>1. PICK c \in Confirmation :
            /\ Answers(c, m)
            /\ socket = <<>> /\ unconfirmed = <<>> /\ confirms = <<>>
            /\ wire = <<c>> \/ (m \in Unroutable /\ wire = <<TheReturn(m), c>>)
      BY <2>2 DEF OnTheWire
    <3>2. CASE wire = <<c>>
      <4>1. wire' = <<>> /\ confirms' = <<c>> /\ returns' = returns
        BY <1>3, <1>5, <3>1, <3>2
      <4> QED
        BY <1>3, <3>1, <4>1 DEF Arrived, Answers
    <3>3. CASE m \in Unroutable /\ wire = <<TheReturn(m), c>>
      <4>1. wire' = <<c>> /\ confirms' = <<>>
        BY <1>3, <1>4, <3>1, <3>3
      <4> QED
        BY <1>3, <3>1, <3>3, <4>1 DEF OnTheWire, Answers
    <3> QED
      BY <3>1, <3>2, <3>3
  <2> QED
    BY <1>1, <2>1, <2>2 DEF InFlight, Written, Arrived, Dispatch
<1>7. InFlight(m)'
  BY <1>1, <1>3, <1>6 DEF InFlight
<1> QED
  BY <1>1, <1>2, <1>3, <1>7, OnwardFlow

\* What was under way is lost; what the channels hold stays.
LEMMA CloseFlow ==
  ASSUME TypeOK, MutexInv, FlowInv, Close
  PROVE  FlowInv'
<1>1. /\ open /\ ~open' /\ socket' = <<>> /\ unconfirmed' = <<>> /\ wire' = <<>>
      /\ UNCHANGED <<pc, enqueued, returns, confirms>>
  BY DEF Close, clientVars
<1>2. QueuedWasWritten' /\ DrainedBeforePublish' /\ NilTrue' /\ ErrorTrue'
  BY <1>1 DEF FlowInv, QueuedWasWritten, DrainedBeforePublish, NilTrue, ErrorTrue, At
<1>3. QuietUnlessWaiting'
  BY <1>1 DEF FlowInv, QuietUnlessWaiting, Quiet
<1>4. ASSUME NEW m \in Call, pc[m] \in Waiting PROVE Quiet' \/ Arrived(m)'
  <2>1. InFlight(m)
    BY <1>1, <1>4 DEF FlowInv, WaitingForItsOwn
  <2>2. CASE Arrived(m)
    BY <1>1, <2>2 DEF Arrived, Answers
  <2>3. CASE confirms = <<>>
    BY <1>1, <2>3 DEF Quiet
  <2> QED
    BY <2>1, <2>2, <2>3 DEF InFlight, Written, InBroker, OnTheWire
<1>5. WaitingForItsOwn'
  BY <1>1, <1>4 DEF WaitingForItsOwn
<1> QED
  BY <1>2, <1>3, <1>5 DEF FlowInv

\* A cancelled call stays so.
LEMMA CancelledStays ==
  ASSUME TypeOK, [Next]_vars, NoneCancelled'
  PROVE  NoneCancelled /\ \A m \in Call : ~Cancel(m)
<1> USE DEF TypeOK, At
<1>1. ASSUME NEW m \in Call PROVE ~Cancel(m)
  BY DEF Cancel, Finish, NoneCancelled
<1>2. ASSUME NEW n \in Call, pc[n] = "cancelled" PROVE pc'[n] = "cancelled"
  <2>1. ASSUME NEW m \in Call, BeginCall(m) \/ CallStep(m) PROVE pc'[n] = "cancelled"
    <3>1. pc' = pc \/ \E state \in CallState : pc' = [pc EXCEPT ![m] = state] /\ pc[m] # "cancelled"
      BY <2>1 DEF BeginCall, CallStep, Lock, Drain, Publish, PollReturned, Select, Confirm,
                  TakeReturn, TakeConfirmation, GoTo, Finish, CallState, Returned, clientVars
    <3> QED
      BY <1>2, <3>1
  <2>2. CASE BrokerStep \/ Close \/ UNCHANGED vars
    BY <1>2, <2>2 DEF BrokerStep, Receive, SendConfirmation, Dispatch, Close, vars, clientVars
  <2> QED
    BY <1>1, <2>1, <2>2 DEF Next
<1> QED
  BY <1>1, <1>2 DEF NoneCancelled

LEMMA NextPublishInv == PublishInv /\ [Next]_vars => PublishInv'
<1> SUFFICES ASSUME PublishInv, [Next]_vars PROVE PublishInv'
  OBVIOUS
<1>1. TypeOK /\ MutexInv
  BY DEF PublishInv
<1>2. TypeOK' /\ MutexInv'
  BY <1>1, NextTypeOK, NextMutex
<1>3. ASSUME NoneCancelled' PROVE FlowInv'
  <2>1. FlowInv /\ \A m \in Call : ~Cancel(m)
    BY <1>1, <1>3, CancelledStays DEF PublishInv
  <2>2. ASSUME NEW m \in Call, BeginCall(m) \/ CallStep(m) PROVE FlowInv'
    <3>1. CASE BeginCall(m) \/ Lock(m)
      BY <1>1, <2>1, <3>1, BeforeWritingFlow
    <3>2. CASE Drain(m) \/ Publish(m)
      BY <1>1, <2>1, <3>2, DrainFlow, PublishFlow
    <3>3. CASE PollReturned(m)
      BY <1>1, <2>1, <3>3, PollFlow
    <3>4. CASE Select(m)
      BY <1>1, <2>1, <3>4, PollFlow, ConfirmationFlow DEF Select, At
    <3>5. CASE Confirm(m)
      BY <1>1, <2>1, <3>5, ConfirmationFlow DEF Confirm, At
    <3> QED
      BY <2>2, <3>1, <3>2, <3>3, <3>4, <3>5 DEF CallStep
  <2>3. CASE BrokerStep \/ Close
    BY <1>1, <2>1, <2>3, ReceiveFlow, SendConfirmationFlow, DispatchFlow, CloseFlow DEF BrokerStep
  <2>4. CASE UNCHANGED vars
    BY <2>1, <2>4 DEF vars, clientVars, brokerVars, frameVars, FlowInv, QueuedWasWritten,
       QuietUnlessWaiting, DrainedBeforePublish, WaitingForItsOwn, NilTrue, ErrorTrue, At, Quiet,
       InFlight, Written, InBroker, OnTheWire, Arrived, Answers, TheReturn
  <2> QED
    BY <2>1, <2>2, <2>3, <2>4 DEF Next
<1> QED
  BY <1>2, <1>3 DEF PublishInv

\* Between any two statements of PublishJSON: the mutex is held by the one call
\* that is in its critical section and, while none was cancelled, the only
\* message, frame or confirmation under way is that of the call which waits.
THEOREM PublishInvariant == Spec => []PublishInv
BY InitPublishInv, NextPublishInv, PTL DEF Spec

\* Calls, frames and the two channels keep their types; neither channel holds
\* more than its capacity of 1.  (The two make of rabbitmq_connect.go.)
THEOREM PublishTypeCorrect == Spec => []TypeOK
<1>1. PublishInv => TypeOK
  BY DEF PublishInv
<1> QED
  BY <1>1, PublishInvariant, PTL

\* The lock around PublishJSON: at most one call is between Lock and Unlock.
THEOREM MutualExclusion ==
  Spec => [](\A m, n \in Call : pc[m] \in Holding /\ pc[n] \in Holding => m = n)
<1>1. PublishInv => \A m, n \in Call : pc[m] \in Holding /\ pc[n] \in Holding => m = n
  BY OneHolds DEF PublishInv
<1> QED
  BY <1>1, PublishInvariant, PTL

\* As long as no request is cancelled, PublishJSON returns nil for a routable
\* message only when its queue took it, whatever the calls before it left behind
\* and also when the connection breaks.  (waitForPublishOutcome, which compares no
\* delivery tags.)
THEOREM NilIsTrue == Spec => []NilMeansEnqueued
<1>1. PublishInv => NilMeansEnqueued
  BY DEF PublishInv, FlowInv, NilTrue, NilMeansEnqueued
<1> QED
  BY <1>1, PublishInvariant, PTL

\* As long as no request is cancelled and the connection lasts, an error of
\* PublishJSON means that no queue has the message.
THEOREM ErrorIsTrue == Spec => []ErrorMeansNotEnqueued
<1>1. PublishInv => ErrorMeansNotEnqueued
  BY DEF PublishInv, FlowInv, ErrorTrue, ErrorMeansNotEnqueued
<1> QED
  BY <1>1, PublishInvariant, PTL
=============================================================================
