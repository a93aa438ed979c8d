---------------------------- MODULE PublishConfirm ----------------------------
(***************************************************************************)
(* RabbitMQ.PublishJSON: how one connection publishes a message and learns  *)
(* what became of it (internal/messaging/rabbitmq_publish.go,               *)
(* rabbitmq_confirm.go, rabbitmq_connect.go).  The request handlers of the  *)
(* API share one such connection; the outbox publisher has its own.         *)
(*                                                                          *)
(* The client library (amqp091) and the broker are modelled as the code     *)
(* relies on them: one goroutine reads the frames of the connection in      *)
(* order and hands each to a Go channel of capacity 1; the return of an     *)
(* unroutable message comes before its confirmation, and confirmations come *)
(* in the order of the messages; when the connection closes, a receive from *)
(* either channel succeeds at once, for ever, with a zero value.            *)
(***************************************************************************)
EXTENDS Integers, Sequences, FiniteSets

CONSTANTS
  Call,         \* calls of PublishJSON, each with its message
  NoCall,       \* the holder of a free mutex
  Unroutable,   \* calls whose routing key has no queue bound to it
  Cancellable,  \* calls whose context may be cancelled: those of HTTP requests
  MayClose      \* can the connection be lost

ASSUME PublishAssumption ==
  /\ NoCall \notin Call
  /\ Unroutable \subseteq Call
  /\ Cancellable \subseteq Call
  /\ MayClose \in BOOLEAN

VARIABLES
  pc,           \* [Call -> the point of PublishJSON]
  publishMu,    \* the call that holds the mutex, or NoCall
  open,         \* is the connection open
  socket,       \* Seq of calls, messages written and not yet received
  unconfirmed,  \* Seq of confirmations that the broker still has to send
  wire,         \* Seq of frames on their way to the client
  returns,      \* buffer of the channel publishReturns
  confirms,     \* buffer of the channel publishConfirmations
  enqueued      \* messages that the broker put into a queue

clientVars == <<pc, publishMu>>
brokerVars == <<socket, unconfirmed, enqueued>>
frameVars  == <<wire, returns, confirms>>
vars       == <<clientVars, brokerVars, frameVars, open>>

\* "idle": not called; "locking", "draining", "publishing", "polling",
\* "selecting", "confirming": the statements of PublishJSON, in their order;
\* "ok", "failed", "cancelled": it returned nil, an error, or that of its context.
Returned == {"ok", "failed", "cancelled"}

CallState ==
  {"idle", "locking", "draining", "publishing", "polling", "selecting", "confirming"}
    \cup Returned

Confirmation == [kind : {"ack", "nack"}, of : Call]
Return       == [kind : {"return"}, of : Call]

\* Mutant: notification channels of capacity 2.
WiderChannels == 2

\* The capacity of both notification channels.
ChannelCapacity == 1

TypeOK ==
  /\ pc \in [Call -> CallState]
  /\ publishMu \in Call \cup {NoCall}
  /\ open \in BOOLEAN
  /\ socket \in Seq(Call)
  /\ unconfirmed \in Seq(Confirmation)
  /\ wire \in Seq(Confirmation \cup Return)
  /\ returns \in Seq(Return) /\ Len(returns) <= 1
  /\ confirms \in Seq(Confirmation) /\ Len(confirms) <= 1
  /\ enqueued \subseteq Call

Init ==
  /\ pc = [m \in Call |-> "idle"]
  /\ publishMu = NoCall
  /\ open = TRUE
  /\ socket = <<>> /\ unconfirmed = <<>> /\ wire = <<>>
  /\ returns = <<>> /\ confirms = <<>>
  /\ enqueued = {}

-----------------------------------------------------------------------------
(* The calls.                                                               *)

At(m, state) == pc[m] = state

GoTo(m, state) == pc' = [pc EXCEPT ![m] = state] /\ UNCHANGED publishMu

\* Mutant: an early return on an error that skips the Unlock.
FinishLocked(m, result) ==
  /\ pc' = [pc EXCEPT ![m] = result]
  /\ publishMu' = IF result = "failed" THEN publishMu ELSE NoCall

\* The deferred Unlock runs on every way out.
Finish(m, result) == pc' = [pc EXCEPT ![m] = result] /\ publishMu' = NoCall

BeginCall(m) ==
  /\ At(m, "idle")
  /\ GoTo(m, "locking")
  /\ UNCHANGED <<brokerVars, frameVars, open>>

\* publishMu.Lock() waits without regard to the context of the call.
Lock(m) ==
  /\ At(m, "locking")
  /\ publishMu = NoCall
  /\ publishMu' = m
  /\ pc' = [pc EXCEPT ![m] = "draining"]
  /\ UNCHANGED <<brokerVars, frameVars, open>>

\* Mutant: PublishJSON without drainPublishNotifications.
NoDrain(m) ==
  /\ At(m, "draining")
  /\ GoTo(m, "publishing")
  /\ UNCHANGED <<brokerVars, frameVars, open>>

\* drainPublishNotifications receives until no channel is ready.  The channels
\* of a closed connection are always ready: then the loop goes on for ever.
Drain(m) ==
  /\ At(m, "draining")
  /\ \/ returns # <<>> /\ returns' = Tail(returns) /\ UNCHANGED <<clientVars, confirms>>
     \/ confirms # <<>> /\ confirms' = Tail(confirms) /\ UNCHANGED <<clientVars, returns>>
     \/ /\ open /\ returns = <<>> /\ confirms = <<>>
        /\ GoTo(m, "publishing")
        /\ UNCHANGED <<returns, confirms>>
  /\ UNCHANGED <<brokerVars, wire, open>>

\* channel.PublishWithContext fails on a closed connection and never looks at
\* the context.
Publish(m) ==
  /\ At(m, "publishing")
  /\ IF open
     THEN GoTo(m, "polling") /\ socket' = Append(socket, m)
     ELSE Finish(m, "failed") /\ UNCHANGED socket
  /\ UNCHANGED <<unconfirmed, enqueued, frameVars, open>>

\* A return is received: an error, whatever the confirmation says that the
\* call waits for next.
TakeReturn(m) ==
  /\ returns # <<>> \/ ~open
  /\ returns' = IF returns = <<>> THEN <<>> ELSE Tail(returns)
  /\ GoTo(m, "confirming")
  /\ UNCHANGED <<brokerVars, wire, confirms, open>>

\* pollReturnedPublish looks once and does not wait.
PollReturned(m) ==
  /\ At(m, "polling")
  /\ \/ TakeReturn(m)
     \/ /\ returns = <<>> /\ open
        /\ GoTo(m, "selecting")
        /\ UNCHANGED <<brokerVars, frameVars, open>>

\* Mutant: Confirmation.Ack is not looked at.
AnyConfirmation(m, good) ==
  /\ confirms # <<>> \/ ~open
  /\ confirms' = IF confirms = <<>> THEN <<>> ELSE Tail(confirms)
  /\ Finish(m, good)
  /\ UNCHANGED <<brokerVars, wire, returns, open>>

\* A confirmation is received and acted upon.  Nothing compares its delivery
\* tag with that of the message.  The zero value says Ack = false.
TakeConfirmation(m, good) ==
  /\ confirms # <<>> \/ ~open
  /\ confirms' = IF confirms = <<>> THEN <<>> ELSE Tail(confirms)
  /\ Finish(m, IF confirms # <<>> /\ Head(confirms).kind = "ack" THEN good ELSE "failed")
  /\ UNCHANGED <<brokerVars, wire, returns, open>>

\* The select of waitForPublishOutcome: when both channels are ready Go takes
\* either.
Select(m) ==
  /\ At(m, "selecting")
  /\ TakeReturn(m) \/ TakeConfirmation(m, "ok")

\* waitForPublishConfirmation, once a return was received.
Confirm(m) ==
  /\ At(m, "confirming")
  /\ TakeConfirmation(m, "failed")

\* ctx.Done(): the client of the HTTP request went away.
Cancel(m) ==
  /\ m \in Cancellable
  /\ pc[m] \in {"selecting", "confirming"}
  /\ Finish(m, "cancelled")
  /\ UNCHANGED <<brokerVars, frameVars, open>>

-----------------------------------------------------------------------------
(* The broker and the reader goroutine of the library.                      *)

\* The broker takes the next message: it returns an unroutable one and confirms
\* it; it puts a routable one into its queue, or fails to and says so.
Receive ==
  /\ socket # <<>>
  /\ LET m == Head(socket)
         Answered(kind) == unconfirmed' = Append(unconfirmed, [kind |-> kind, of |-> m])
     IN  \/ /\ m \in Unroutable
            /\ wire' = Append(wire, [kind |-> "return", of |-> m])
            /\ Answered("ack")
            /\ UNCHANGED enqueued
         \/ /\ m \notin Unroutable
            /\ \/ enqueued' = enqueued \cup {m} /\ Answered("ack")
               \/ UNCHANGED enqueued /\ Answered("nack")
            /\ UNCHANGED wire
  /\ socket' = Tail(socket)
  /\ UNCHANGED <<clientVars, returns, confirms, open>>

SendConfirmation ==
  /\ unconfirmed # <<>>
  /\ wire' = Append(wire, Head(unconfirmed))
  /\ unconfirmed' = Tail(unconfirmed)
  /\ UNCHANGED <<clientVars, socket, enqueued, returns, confirms, open>>

\* The reader blocks while the channel of the next frame is full.
Dispatch ==
  /\ wire # <<>>
  /\ wire' = Tail(wire)
  /\ \/ /\ Head(wire).kind = "return" /\ Len(returns) < ChannelCapacity
        /\ returns' = Append(returns, Head(wire))
        /\ UNCHANGED confirms
     \/ /\ Head(wire).kind # "return" /\ Len(confirms) < ChannelCapacity
        /\ confirms' = Append(confirms, Head(wire))
        /\ UNCHANGED returns
  /\ UNCHANGED <<clientVars, brokerVars, open>>

\* The connection is lost, and with it everything that was under way.  Nothing
\* in the code opens another one.
Close ==
  /\ MayClose
  /\ open
  /\ open' = FALSE
  /\ socket' = <<>> /\ unconfirmed' = <<>> /\ wire' = <<>>
  /\ UNCHANGED <<clientVars, enqueued, returns, confirms>>

-----------------------------------------------------------------------------
CallStep(m) ==
  \/ Lock(m) \/ Drain(m) \/ Publish(m) \/ PollReturned(m) \/ Select(m) \/ Confirm(m)

BrokerStep == Receive \/ SendConfirmation \/ Dispatch

Next ==
  \/ \E m \in Call : BeginCall(m) \/ CallStep(m) \/ Cancel(m)
  \/ BrokerStep
  \/ Close

Spec == Init /\ [][Next]_vars

\* Goroutines run, the broker answers, and sync.Mutex lets no waiter starve.
FairSpec ==
  /\ Spec
  /\ \A m \in Call : WF_vars(CallStep(m))
  /\ WF_vars(BrokerStep)

-----------------------------------------------------------------------------
(* Properties.                                                              *)

NoneCancelled == \A m \in Call : ~At(m, "cancelled")

\* Unless a call was cancelled, nil means that the message is in its queue,
\* although others were returned or refused and the connection may break: the
\* 202 of POST /sales and the status PUBLISHED of the outbox rest on it.  (An
\* unroutable message is left out: waitForPublishOutcome may overlook its return.)
NilMeansEnqueued ==
  NoneCancelled => \A m \in Call \ Unroutable : At(m, "ok") => m \in enqueued

\* While the connection lasts and no context was cancelled, an error means that
\* no queue holds the message, so that to publish it again duplicates nothing.
ErrorMeansNotEnqueued ==
  open /\ NoneCancelled => \A m \in Call : At(m, "failed") => m \notin enqueued

\* As long as the connection lasts every call gets the mutex and returns,
\* whatever earlier calls left in the channels.
ReturnsWhileOpen == \A m \in Call : At(m, "locking") ~> pc[m] \in Returned \/ ~open

\* Every call returns.  (docs/flows.md:61: a failure to publish answers 503.)
EveryCallReturns == \A m \in Call : At(m, "locking") ~> pc[m] \in Returned
=============================================================================
