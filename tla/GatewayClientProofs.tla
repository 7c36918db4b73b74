-------------------------- MODULE GatewayClientProofs --------------------------
(***************************************************************************)
(* Proofs about the gateway client, for any number of calls, runs and      *)
(* events.  Fairness is not needed for any of them.                        *)
(***************************************************************************)
EXTENDS GatewayClient, SequenceTheorems, TLAPS

------------------------------------------------------------------------------
(* Frames and queues.                                                       *)

LEMMA FrameParts ==
  /\ Challenge \in Frame
  /\ \A n \in 1..MaxEvents : Event(n) \in Frame
  /\ \A m \in Requests, ok \in BOOLEAN, r \in Runs \union {NoRun} :
       Answer(m, ok, r) \in Frame
  BY DEF Frame, Challenge, Event, Answer

LEMMA FrameFields ==
  ASSUME NEW f \in Frame
  PROVE  /\ f.type = "event" => f.number \in 1..MaxEvents
         /\ f.type = "res" => f.method \in Requests /\ f.ok \in BOOLEAN
                              /\ f.run \in Runs \union {NoRun}
  BY DEF Frame, Challenge

\* What may happen to the queue of frames of a call.
LEMMA PushQueue ==
  ASSUME NEW S, NEW s \in Seq(S), NEW f \in S
  PROVE  /\ Append(s, f) \in Seq(S)
         /\ Len(Append(s, f)) = Len(s) + 1
         /\ \A i \in 1..Len(s) : Append(s, f)[i] = s[i]
         /\ Append(s, f)[Len(s) + 1] = f
  BY AppendProperties

LEMMA TakeQueue ==
  ASSUME NEW S, NEW s \in Seq(S), s # <<>>
  PROVE  /\ Head(s) \in S /\ Head(s) = s[1]
         /\ Len(s) \in Nat \ {0}
         /\ Tail(s) \in Seq(S)
         /\ Len(Tail(s)) = Len(s) - 1
         /\ \A i \in 1..Len(Tail(s)) : Tail(s)[i] = s[i + 1]
  BY HeadTailProperties, EmptySeq, SMT

LEMMA CutQueue ==
  ASSUME NEW S, NEW s \in Seq(S), NEW n \in 0..Len(s)
  PROVE  /\ SubSeq(s, 1, n) \in Seq(S)
         /\ Len(SubSeq(s, 1, n)) = n
         /\ \A i \in 1..n : SubSeq(s, 1, n)[i] = s[i]
  BY SubSeqProperties

------------------------------------------------------------------------------
(* Types.                                                                   *)

LEMMA TypeInit == Init => TypeOK
  BY RunsAssumption, EmptySeq DEF Init, TypeOK

\* Functions of the calls, changed at one of them.
LEMMA QueueTypes ==
  ASSUME TypeOK, NEW c \in Calls
  PROVE  /\ frames[c] \in Seq(Frame)
         /\ \A f \in Frame : [frames EXCEPT ![c] = Append(frames[c], f)] \in [Calls -> Seq(Frame)]
         /\ [frames EXCEPT ![c] = <<>>] \in [Calls -> Seq(Frame)]
         /\ Arrived(c) => /\ Head(frames[c]) \in Frame
                          /\ [frames EXCEPT ![c] = Tail(frames[c])] \in [Calls -> Seq(Frame)]
<1>1. frames[c] \in Seq(Frame)
  BY DEF TypeOK
<1>2. \A f \in Frame : Append(frames[c], f) \in Seq(Frame)
  BY <1>1, PushQueue
<1>3. Arrived(c) => Head(frames[c]) \in Frame /\ Tail(frames[c]) \in Seq(Frame)
  BY <1>1, TakeQueue DEF Arrived
<1>4. <<>> \in Seq(Frame)
  BY EmptySeq
<1> QED
  BY <1>1, <1>2, <1>3, <1>4 DEF TypeOK

LEMMA ReplyTypes ==
  ASSUME TypeOK, NEW c \in Calls, NEW f \in Frame, Reply(c, f)
  PROVE  /\ frames' \in [Calls -> Seq(Frame)]
         /\ pending' \in [Calls -> Requests \union {"none"}]
<1>1. frames' \in [Calls -> Seq(Frame)]
  <2>1. CASE socket[c] = "open"
    <3>1. frames' = [frames EXCEPT ![c] = Append(frames[c], f)]
      BY <2>1 DEF Reply, Push
    <3> QED
      BY <3>1, QueueTypes
  <2> QED
    BY <2>1 DEF Reply, TypeOK
<1> QED
  BY <1>1 DEF Reply, TypeOK

LEMMA GatewayTypes ==
  ASSUME TypeOK, NEW c \in Calls, Handle(c)
  PROVE  TypeOK'
<1>1. ASSUME NEW ok \in BOOLEAN, GatewayAnswers(c, ok) PROVE TypeOK'
  <2>1. Answer(pending[c], ok, NoRun) \in Frame
    BY <1>1, FrameParts DEF GatewayAnswers, TypeOK
  <2>2. frames' \in [Calls -> Seq(Frame)] /\ pending' \in [Calls -> Requests \union {"none"}]
    <3> PICK f \in Frame : f = Answer(pending[c], ok, NoRun)
      BY <2>1
    <3> QED
      BY <1>1, ReplyTypes DEF GatewayAnswers
  <2> QED
    BY <1>1, <2>2 DEF GatewayAnswers, got, TypeOK
<1>2. ASSUME c \in RunCalls, NEW r \in Runs, GatewayStartsRun(c, r) PROVE TypeOK'
  <2>1. Answer("agent", TRUE, r) \in Frame
    BY FrameParts DEF Requests
  <2>2. frames' \in [Calls -> Seq(Frame)] /\ pending' \in [Calls -> Requests \union {"none"}]
    <3> PICK f \in Frame : f = Answer("agent", TRUE, r)
      BY <2>1
    <3> QED
      BY <1>2, ReplyTypes DEF GatewayStartsRun
  <2> QED
    BY <1>2, <2>2 DEF GatewayStartsRun, got, TypeOK
<1>3. CASE GatewayReportsRun(c)
  <2>1. Answer("agent.wait", TRUE, waitsFor[c]) \in Frame
    BY FrameParts DEF Requests, TypeOK
  <2>2. frames' \in [Calls -> Seq(Frame)] /\ pending' \in [Calls -> Requests \union {"none"}]
    <3> PICK f \in Frame : f = Answer("agent.wait", TRUE, waitsFor[c])
      BY <2>1
    <3> QED
      BY <1>3, ReplyTypes DEF GatewayReportsRun
  <2> QED
    BY <1>3, <2>2 DEF GatewayReportsRun, got, gateway, TypeOK
<1> QED
  BY <1>1, <1>2, <1>3 DEF Handle

LEMMA EndTypes ==
  ASSUME TypeOK, NEW c \in Calls, NEW how \in Ended, End(c, how),
         UNCHANGED <<pending, waitsFor, yielded, gateway>>,
         result' \in [Calls -> Runs \union {NoRun}]
  PROVE  TypeOK'
  BY QueueTypes DEF End, TypeOK, gateway

LEMMA ReceiveTypes ==
  ASSUME TypeOK, NEW c \in Calls, Receive(c)
  PROVE  TypeOK'
<1> USE DEF Ended
<1>1. CASE ReceiveChallenge(c)
  <2>1. CASE End(c, "raised") /\ UNCHANGED pending
    BY <1>1, <2>1, EndTypes DEF ReceiveChallenge, got, TypeOK
  <2>2. CASE Take(c) /\ Send(c, "connect") /\ UNCHANGED socket
    BY <1>1, <2>2, QueueTypes DEF ReceiveChallenge, Take, Send, got, gateway, TypeOK,
       Waiting, Requests
  <2> QED
    BY <1>1, <2>1, <2>2 DEF ReceiveChallenge
<1>2. CASE ReceiveHello(c)
  <2>1. CASE Rejected(c) /\ UNCHANGED pending
    BY <1>2, <2>1, EndTypes DEF ReceiveHello, Rejected, got, TypeOK
  <2>2. CASE Take(c) /\ Send(c, FirstRequest(c)) /\ UNCHANGED socket
    <3>1. FirstRequest(c) \in Requests
      BY DEF FirstRequest, Requests
    <3> QED
      BY <1>2, <2>2, <3>1, QueueTypes DEF ReceiveHello, Take, Send, got, gateway, TypeOK,
         Waiting
  <2> QED
    BY <1>2, <2>1, <2>2 DEF ReceiveHello
<1>3. ASSUME NEW m \in Requests, Skip(c, m) PROVE TypeOK'
  BY <1>3, QueueTypes DEF Skip, Take, got, gateway, TypeOK
<1>4. ASSUME NEW m \in Requests, Refused(c, m) PROVE TypeOK'
  BY <1>4, EndTypes DEF Refused, got, TypeOK
<1>5. CASE RunUnnamed(c)
  BY <1>5, EndTypes DEF RunUnnamed, got, TypeOK
<1>6. CASE RunStarted(c)
  <2>1. Head(frames[c]).run \in Runs \union {NoRun}
    BY <1>6, QueueTypes, FrameFields DEF RunStarted, IsAnswer
  <2> QED
    BY <1>6, <2>1, QueueTypes DEF RunStarted, Take, Send, gateway, TypeOK, Waiting, Requests
<1>7. CASE RunReported(c)
  <2>1. Head(frames[c]).run \in Runs \union {NoRun}
    BY <1>7, QueueTypes, FrameFields DEF RunReported, IsAnswer
  <2>2. result' \in [Calls -> Runs \union {NoRun}]
    BY <1>7, <2>1 DEF RunReported, TypeOK
  <2> QED
    BY <1>7, <2>2, EndTypes DEF RunReported
<1>8. CASE Subscribed(c)
  BY <1>8, QueueTypes DEF Subscribed, Take, got, gateway, TypeOK, Waiting
<1>9. CASE Stream(c)
  <2>1. Head(frames[c]).type = "event" => Head(frames[c]).number \in 1..MaxEvents
    BY <1>9, QueueTypes, FrameFields DEF Stream
  <2>2. yielded[c] \in Seq(1..MaxEvents)
    BY DEF TypeOK
  <2>3. Head(frames[c]).type = "event" =>
          Append(yielded[c], Head(frames[c]).number) \in Seq(1..MaxEvents)
    BY <2>1, <2>2, PushQueue
  <2>4. yielded' \in [Calls -> Seq(1..MaxEvents)]
    BY <1>9, <2>3 DEF Stream, Yield, TypeOK
  <2> QED
    BY <1>9, <2>4, QueueTypes DEF Stream, Take, gateway, TypeOK
<1>10. CASE Disconnected(c)
  BY <1>10, EndTypes DEF Disconnected, got, TypeOK
<1> QED
  BY <1>1, <1>2, <1>3, <1>4, <1>5, <1>6, <1>7, <1>8, <1>9, <1>10 DEF Receive

LEMMA ConnectTypes ==
  ASSUME TypeOK, NEW c \in Calls, Connect(c)
  PROVE  TypeOK'
<1>1. published > 0 => Event(published) \in Frame
  BY FrameParts, RunsAssumption DEF TypeOK
<1>2. frames' \in [Calls -> Seq(Frame)]
  <2>1. CASE Push(c, Challenge)
    <3>1. frames' = [frames EXCEPT ![c] = Append(frames[c], Challenge)]
      BY <2>1 DEF Push
    <3> QED
      BY <3>1, FrameParts, QueueTypes
  <2>2. CASE published > 0 /\ Push(c, Event(published))
    <3> PICK f \in Frame : f = Event(published)
      BY <1>1, <2>2
    <3>1. frames' = [frames EXCEPT ![c] = Append(frames[c], f)]
      BY <2>2 DEF Push
    <3> QED
      BY <3>1, QueueTypes
  <2> QED
    BY <2>1, <2>2 DEF Connect, TypeOK
<1> QED
  BY <1>2 DEF Connect, got, gateway, TypeOK, Waiting, InHandshake, Ended

LEMMA BreakTypes ==
  ASSUME TypeOK, NEW c \in Calls, Break(c)
  PROVE  TypeOK'
<1> PICK n \in 0..Len(frames[c]) : frames' = [frames EXCEPT ![c] = SubSeq(frames[c], 1, n)]
  BY DEF Break
<1>1. SubSeq(frames[c], 1, n) \in Seq(Frame)
  BY QueueTypes, CutQueue
<1> QED
  BY <1>1 DEF Break, got, gateway, TypeOK

LEMMA PublishTypes ==
  ASSUME TypeOK, GatewayPublishes
  PROVE  TypeOK'
<1>1. published + 1 \in 1..MaxEvents
  BY RunsAssumption DEF GatewayPublishes, TypeOK
<1>2. \A c \in Calls : Append(frames[c], Event(published + 1)) \in Seq(Frame)
  BY <1>1, FrameParts, QueueTypes, PushQueue
<1>3. frames' \in [Calls -> Seq(Frame)]
  BY <1>2 DEF GatewayPublishes, TypeOK
<1> QED
  BY <1>1, <1>3 DEF GatewayPublishes, got, TypeOK

LEMMA TypeNext == TypeOK /\ [Next]_vars => TypeOK'
<1> SUFFICES ASSUME TypeOK, [Next]_vars PROVE TypeOK'
  OBVIOUS
<1>1. ASSUME NEW c \in Calls, Cancel(c) PROVE TypeOK'
  <2>1. CASE End(c, "raised")
    BY <1>1, <2>1, EndTypes DEF Cancel, got, TypeOK, Ended
  <2> QED
    BY <1>1, <2>1 DEF Cancel, got, gateway, TypeOK, Ended
<1>2. ASSUME NEW r \in Runs, RunEnds(r) PROVE TypeOK'
  <2>1. [runs[r] EXCEPT !.state = "ended"] \in [state : {"running", "ended"}, startedBy : RunCalls]
    <3>1. runs[r] \in [state : {"running", "ended"}, startedBy : RunCalls]
      BY <1>2 DEF RunEnds, TypeOK, NotStarted
    <3> QED
      BY <3>1
  <2>2. runs' = [runs EXCEPT ![r] = [runs[r] EXCEPT !.state = "ended"]]
    BY <1>2 DEF RunEnds
  <2> QED
    BY <1>2, <2>1, <2>2 DEF RunEnds, got, TypeOK
<1>3. CASE UNCHANGED vars
  BY <1>3 DEF vars, got, gateway, TypeOK
<1> QED
  BY <1>1, <1>2, <1>3, ConnectTypes, ReceiveTypes, GatewayTypes, BreakTypes, PublishTypes
  DEF Next

\* Every reachable state has the types of the frames and results.
THEOREM TypeCorrect == Spec => []TypeOK
<1> QED
  BY TypeInit, TypeNext, PTL DEF Spec

------------------------------------------------------------------------------
(* What a step leaves alone.                                                *)

Same(d) ==
  /\ step'[d] = step[d] /\ socket'[d] = socket[d] /\ pending'[d] = pending[d]
  /\ frames'[d] = frames[d] /\ waitsFor'[d] = waitsFor[d] /\ result'[d] = result[d]
  /\ yielded'[d] = yielded[d] /\ subscribed'[d] = subscribed[d]

LEMMA HandleLeaves ==
  ASSUME TypeOK, NEW c \in Calls, Handle(c)
  PROVE  /\ UNCHANGED <<step, socket, waitsFor, result, yielded, published>>
         /\ \A d \in Calls \ {c} : Same(d)
<1>1. ASSUME NEW ok \in BOOLEAN, GatewayAnswers(c, ok)
      PROVE  /\ UNCHANGED <<step, socket, waitsFor, result, yielded, published>>
             /\ \A d \in Calls \ {c} : Same(d)
  BY <1>1 DEF GatewayAnswers, Reply, Push, got, TypeOK, Same
<1>2. ASSUME NEW r \in Runs, GatewayStartsRun(c, r)
      PROVE  /\ UNCHANGED <<step, socket, waitsFor, result, yielded, published>>
             /\ \A d \in Calls \ {c} : Same(d)
  BY <1>2 DEF GatewayStartsRun, Reply, Push, got, TypeOK, Same
<1>3. CASE GatewayReportsRun(c)
  BY <1>3 DEF GatewayReportsRun, Reply, Push, got, gateway, TypeOK, Same
<1> QED
  BY <1>1, <1>2, <1>3 DEF Handle

LEMMA ReceiveLeaves ==
  ASSUME TypeOK, NEW c \in Calls, Receive(c)
  PROVE  /\ UNCHANGED gateway
         /\ \A d \in Calls \ {c} : Same(d)
<1> USE DEF got, TypeOK, Same, gateway, End, Take, Send
<1>1. CASE ReceiveChallenge(c)
  BY <1>1 DEF ReceiveChallenge
<1>2. CASE ReceiveHello(c)
  BY <1>2 DEF ReceiveHello, Rejected
<1>3. ASSUME NEW m \in Requests, Skip(c, m) \/ Refused(c, m)
      PROVE  UNCHANGED gateway /\ \A d \in Calls \ {c} : Same(d)
  BY <1>3 DEF Skip, Refused
<1>4. CASE RunUnnamed(c)
  BY <1>4 DEF RunUnnamed
<1>5. CASE RunStarted(c)
  BY <1>5 DEF RunStarted
<1>6. CASE RunReported(c)
  BY <1>6 DEF RunReported
<1>7. CASE Subscribed(c)
  BY <1>7 DEF Subscribed
<1>8. CASE Stream(c)
  BY <1>8 DEF Stream, Yield
<1>9. CASE Disconnected(c)
  BY <1>9 DEF Disconnected
<1> QED
  BY <1>1, <1>2, <1>3, <1>4, <1>5, <1>6, <1>7, <1>8, <1>9 DEF Receive

LEMMA OtherLeaves ==
  ASSUME TypeOK, NEW c \in Calls, Connect(c) \/ Cancel(c) \/ Break(c)
  PROVE  /\ UNCHANGED <<gateway, got>>
         /\ \A d \in Calls \ {c} : Same(d)
<1> USE DEF got, TypeOK, Same, gateway, End
<1>1. CASE Connect(c)
  BY <1>1 DEF Connect, Push
<1>2. CASE Cancel(c)
  BY <1>2 DEF Cancel
<1>3. CASE Break(c)
  BY <1>3 DEF Break
<1> QED
  BY <1>1, <1>2, <1>3

------------------------------------------------------------------------------
(* Sockets.                                                                 *)

SocketInv ==
  \A c \in Calls :
    /\ step[c] = "idle" => socket[c] = "none"
    /\ step[c] \in {"returned", "raised"} => socket[c] \in {"none", "closed"}

\* A step of the client either goes on waiting with its socket or ends the call.
LEMMA ReceiveStep ==
  ASSUME TypeOK, NEW c \in Calls, Receive(c)
  PROVE  /\ step[c] \in Waiting
         /\ \/ step'[c] \in Waiting /\ socket'[c] = socket[c]
            \/ step'[c] \in {"returned", "raised"} /\ socket'[c] = "closed"
               /\ frames'[c] = <<>>
<1> USE DEF got, TypeOK, gateway, End, Take, Send, Waiting, InHandshake
<1>1. CASE ReceiveChallenge(c)
  BY <1>1 DEF ReceiveChallenge, Requests
<1>2. CASE ReceiveHello(c)
  BY <1>2 DEF ReceiveHello, Rejected, FirstRequest, Requests
<1>3. ASSUME NEW m \in Requests, Skip(c, m) \/ Refused(c, m)
      PROVE  /\ step[c] \in Waiting
             /\ \/ step'[c] \in Waiting /\ socket'[c] = socket[c]
                \/ step'[c] \in {"returned", "raised"} /\ socket'[c] = "closed"
                   /\ frames'[c] = <<>>
  BY <1>3 DEF Skip, Refused
<1>4. CASE RunUnnamed(c)
  BY <1>4 DEF RunUnnamed, Requests
<1>5. CASE RunStarted(c)
  BY <1>5 DEF RunStarted, Requests
<1>6. CASE RunReported(c)
  BY <1>6 DEF RunReported, Requests
<1>7. CASE Subscribed(c)
  BY <1>7 DEF Subscribed, Requests
<1>8. CASE Stream(c)
  BY <1>8 DEF Stream
<1>9. CASE Disconnected(c)
  BY <1>9 DEF Disconnected
<1> QED
  BY <1>1, <1>2, <1>3, <1>4, <1>5, <1>6, <1>7, <1>8, <1>9 DEF Receive

LEMMA SocketNext == TypeOK /\ SocketInv /\ [Next]_vars => SocketInv'
<1> SUFFICES ASSUME TypeOK, SocketInv, [Next]_vars PROVE SocketInv'
  OBVIOUS
<1>1. ASSUME NEW c \in Calls, Connect(c) PROVE SocketInv'
  <2>1. \A d \in Calls \ {c} : Same(d)
    BY <1>1, OtherLeaves
  <2>2. step[c] = "idle" /\ socket[c] = "none"
    BY <1>1 DEF Connect, SocketInv
  <2>3. \/ step'[c] = "raised" /\ socket'[c] = "none"
        \/ step'[c] = "challenge"
    BY <1>1, <2>2 DEF Connect, TypeOK
  <2> QED
    BY <2>1, <2>3 DEF SocketInv, Same
<1>2. ASSUME NEW c \in Calls, Receive(c) PROVE SocketInv'
  <2>1. \A d \in Calls \ {c} : Same(d)
    BY <1>2, ReceiveLeaves
  <2>2. \/ step'[c] \in Waiting
        \/ step'[c] \in {"returned", "raised"} /\ socket'[c] = "closed"
    BY <1>2, ReceiveStep
  <2> QED
    BY <2>1, <2>2 DEF SocketInv, Same, Waiting, Requests, InHandshake
<1>3. ASSUME NEW c \in Calls, Cancel(c) PROVE SocketInv'
  <2>1. \A d \in Calls \ {c} : Same(d)
    BY <1>3, OtherLeaves
  <2>2. \/ step'[c] = "dropped"
        \/ step'[c] = "raised" /\ socket'[c] = "closed"
    BY <1>3 DEF Cancel, End, TypeOK
  <2> QED
    BY <2>1, <2>2 DEF SocketInv, Same
<1>4. ASSUME NEW c \in Calls, Handle(c) PROVE SocketInv'
  BY <1>4, HandleLeaves DEF SocketInv
<1>5. ASSUME NEW c \in Calls, Break(c) PROVE SocketInv'
  <2>1. \A d \in Calls \ {c} : Same(d)
    BY <1>5, OtherLeaves
  <2>2. socket[c] = "open" /\ step'[c] = step[c]
    BY <1>5 DEF Break
  <2> QED
    BY <2>1, <2>2 DEF SocketInv, Same
<1>6. CASE UNCHANGED <<step, socket>>
  BY <1>6 DEF SocketInv
<1> QED
  BY <1>1, <1>2, <1>3, <1>4, <1>5, <1>6 DEF Next, vars, RunEnds, GatewayPublishes

\* On every way a call can end but its cancellation in the handshake, its socket
\* is closed, whatever the network and the gateway did.
THEOREM SocketsAreClosed == Spec => []SocketsClosed
<1>1. Init => SocketInv
  BY DEF Init, SocketInv
<1>2. SocketInv => SocketsClosed
  BY DEF SocketInv, SocketsClosed
<1> QED
  BY TypeInit, TypeNext, SocketNext, <1>1, <1>2, PTL DEF Spec

------------------------------------------------------------------------------
(* Results.                                                                 *)

Started(r, c) == r \in Runs /\ runs[r] # NotStarted /\ runs[r].startedBy = c
Over(r, c) == r \in Runs /\ runs[r] = [state |-> "ended", startedBy |-> c]

\* An answer on its way names a run that this call has started; the answer to
\* "agent.wait" one that has ended.
TrueFrame(f, c) ==
  f.type = "res" /\ f.ok =>
    /\ f.method = "agent" /\ f.run # NoRun => Started(f.run, c)
    /\ f.method = "agent.wait" => Over(f.run, c)

InQueue(f, c) == \E i \in 1..Len(frames[c]) : frames[c][i] = f
FramesTrue == \A c \in Calls, f \in Frame : InQueue(f, c) => TrueFrame(f, c)

\* What the gateway is asked to wait for, and what was returned.
WaitsForOwn == \A c \in Calls : pending[c] = "agent.wait" => Started(waitsFor[c], c)
ResultsOwn == \A c \in Calls : step[c] = "returned" => Over(result[c], c)

OwnInv == FramesTrue /\ WaitsForOwn /\ ResultsOwn

\* Runs keep the call that started them, and end for good.
LEMMA RunsKept ==
  ASSUME TypeOK, [Next]_vars
  PROVE  \A r, c : (Started(r, c) => Started(r, c)') /\ (Over(r, c) => Over(r, c)')
<1>1. ASSUME NEW c \in Calls, NEW r \in Runs, GatewayStartsRun(c, r)
      PROVE  \A q, d : (Started(q, d) => Started(q, d)') /\ (Over(q, d) => Over(q, d)')
  <2>1. \A q \in Runs : runs[q] # NotStarted => runs'[q] = runs[q]
    BY <1>1 DEF GatewayStartsRun, TypeOK
  <2>2. \A d : [state |-> "ended", startedBy |-> d] # NotStarted
    <3>1. \A d : [state |-> "ended", startedBy |-> d].state = "ended"
      OBVIOUS
    <3> QED
      BY <3>1 DEF NotStarted
  <2> QED
    BY <2>1, <2>2 DEF Started, Over
<1>2. ASSUME NEW r \in Runs, RunEnds(r)
      PROVE  \A q, d : (Started(q, d) => Started(q, d)') /\ (Over(q, d) => Over(q, d)')
  <2>1. runs[r].state = "running" /\ runs[r] \in [state : {"running", "ended"}, startedBy : RunCalls]
    BY <1>2 DEF RunEnds, TypeOK, NotStarted
  <2>2. runs'[r] = [runs[r] EXCEPT !.state = "ended"]
        /\ \A q \in Runs \ {r} : runs'[q] = runs[q]
    BY <1>2 DEF RunEnds, TypeOK
  <2>3. runs'[r].state = "ended" /\ runs'[r].startedBy = runs[r].startedBy
    BY <2>1, <2>2
  <2>4. runs'[r] # NotStarted
    BY <2>3 DEF NotStarted
  <2>8. \A q, d : Started(q, d) => Started(q, d)'
    BY <2>2, <2>3, <2>4 DEF Started
  <2>5. \A d : [state |-> "ended", startedBy |-> d].state = "ended"
    OBVIOUS
  <2>6. \A d : ~Over(r, d)
    BY <2>1, <2>5 DEF Over
  <2>7. \A q, d : Over(q, d) => Over(q, d)'
    BY <2>2, <2>6 DEF Over
  <2> QED
    BY <2>7, <2>8
<1>3. CASE UNCHANGED runs
  BY <1>3 DEF Started, Over
<1>4. (\E c \in Calls, r \in Runs : GatewayStartsRun(c, r)) \/ (\E r \in Runs : RunEnds(r))
      \/ UNCHANGED runs
  <2>1. ASSUME NEW c \in Calls, Connect(c) \/ Cancel(c) \/ Break(c) PROVE UNCHANGED runs
    BY <2>1, OtherLeaves DEF gateway
  <2>2. ASSUME NEW c \in Calls, Receive(c) PROVE UNCHANGED runs
    BY <2>2, ReceiveLeaves DEF gateway
  <2>3. ASSUME NEW c \in Calls, Handle(c)
        PROVE  (\E r \in Runs : GatewayStartsRun(c, r)) \/ UNCHANGED runs
    BY <2>3 DEF Handle, GatewayAnswers, GatewayReportsRun, gateway
  <2> QED
    BY <2>1, <2>2, <2>3 DEF Next, vars, gateway, GatewayPublishes
<1> QED
  BY <1>1, <1>2, <1>3, <1>4

LEMMA TrueKept ==
  ASSUME TypeOK, [Next]_vars
  PROVE  \A f, c : TrueFrame(f, c) => TrueFrame(f, c)'
  BY RunsKept DEF TrueFrame

\* The client only takes frames away.
LEMMA ClientTakes ==
  ASSUME TypeOK, NEW c \in Calls, Receive(c) \/ Cancel(c) \/ Break(c)
  PROVE  \A f : InQueue(f, c)' => InQueue(f, c)
<1>1. frames[c] \in Seq(Frame)
  BY QueueTypes
<1>2. \/ frames'[c] = frames[c]
      \/ frames'[c] = <<>>
      \/ Arrived(c) /\ frames'[c] = Tail(frames[c])
      \/ \E n \in 0..Len(frames[c]) : frames'[c] = SubSeq(frames[c], 1, n)
  BY DEF Receive, Cancel, Break, ReceiveChallenge, ReceiveHello, Rejected, Skip, Refused,
     RunUnnamed, RunStarted, RunReported, Subscribed, Stream, Disconnected, Take, End, TypeOK
<1>3. CASE frames'[c] = frames[c]
  BY <1>3 DEF InQueue
<1>4. CASE frames'[c] = <<>>
  BY <1>4, EmptySeq DEF InQueue
<1>5. CASE Arrived(c) /\ frames'[c] = Tail(frames[c])
  <2>1. \A i \in 1..Len(Tail(frames[c])) :
          i + 1 \in 1..Len(frames[c]) /\ Tail(frames[c])[i] = frames[c][i + 1]
    BY <1>1, <1>5, TakeQueue DEF Arrived
  <2> QED
    BY <1>5, <2>1 DEF InQueue
<1>6. ASSUME NEW n \in 0..Len(frames[c]), frames'[c] = SubSeq(frames[c], 1, n)
      PROVE  \A f : InQueue(f, c)' => InQueue(f, c)
  <2>1. Len(frames[c]) \in Nat
    BY <1>1, LenProperties
  <2>2. Len(SubSeq(frames[c], 1, n)) = n /\ \A i \in 1..n :
          i \in 1..Len(frames[c]) /\ SubSeq(frames[c], 1, n)[i] = frames[c][i]
    BY <1>1, <2>1, CutQueue
  <2> QED
    BY <1>6, <2>2 DEF InQueue
<1> QED
  BY <1>2, <1>3, <1>4, <1>5, <1>6

\* The gateway adds one frame to a queue.
LEMMA PushAdds ==
  ASSUME TypeOK, NEW c \in Calls, NEW f \in Frame,
         frames'[c] = Append(frames[c], f)
  PROVE  \A g : InQueue(g, c)' => InQueue(g, c) \/ g = f
<1>1. frames[c] \in Seq(Frame) /\ Len(frames[c]) \in Nat
  BY QueueTypes, LenProperties
<1>2. /\ Len(frames'[c]) = Len(frames[c]) + 1
      /\ \A i \in 1..Len(frames[c]) : frames'[c][i] = frames[c][i]
      /\ frames'[c][Len(frames[c]) + 1] = f
  BY <1>1, PushQueue
<1> QED
  BY <1>1, <1>2 DEF InQueue

LEMMA ReplyAdds ==
  ASSUME TypeOK, NEW c \in Calls, NEW f \in Frame, Reply(c, f)
  PROVE  /\ \A g : InQueue(g, c)' => InQueue(g, c) \/ g = f
         /\ pending'[c] = "none"
<1>1. CASE socket[c] = "open"
  <2>1. frames'[c] = Append(frames[c], f)
    BY <1>1 DEF Reply, Push, TypeOK
  <2> QED
    BY <2>1, PushAdds DEF Reply, TypeOK
<1>2. CASE socket[c] # "open"
  BY <1>2 DEF Reply, TypeOK, InQueue
<1> QED
  BY <1>1, <1>2

LEMMA SameOwn ==
  ASSUME NEW d \in Calls, Same(d)
  PROVE  \A f : InQueue(f, d)' => InQueue(f, d)
  BY DEF Same, InQueue

------------------------------------------------------------------------------
(* The three parts of OwnInv, step by step.                                 *)

LEMMA HandleOwn ==
  ASSUME TypeOK, OwnInv, [Next]_vars, NEW c \in Calls, Handle(c)
  PROVE  OwnInv'
<1>1. \A d \in Calls \ {c} : Same(d)
  BY HandleLeaves
<1>2. UNCHANGED <<step, waitsFor, result>>
  BY HandleLeaves
<1>3. PICK f \in Frame : Reply(c, f) /\ TrueFrame(f, c)'
  <2>1. ASSUME NEW ok \in BOOLEAN, GatewayAnswers(c, ok)
        PROVE  \E f \in Frame : Reply(c, f) /\ TrueFrame(f, c)'
    <3> PICK m \in Requests : m = pending[c]
      BY <2>1 DEF GatewayAnswers, TypeOK
    <3>1. Answer(m, ok, NoRun) \in Frame
      BY FrameParts
    <3>2. Reply(c, Answer(m, ok, NoRun)) /\ (ok => m # "agent.wait")
      BY <2>1 DEF GatewayAnswers
    <3>3. TrueFrame(Answer(m, ok, NoRun), c)'
      BY <3>2 DEF TrueFrame, Answer
    <3> QED
      BY <3>1, <3>2, <3>3
  <2>2. ASSUME c \in RunCalls, NEW r \in Runs, GatewayStartsRun(c, r)
        PROVE  \E f \in Frame : Reply(c, f) /\ TrueFrame(f, c)'
    <3>1. Answer("agent", TRUE, r) \in Frame
      BY FrameParts DEF Requests
    <3>2. Reply(c, Answer("agent", TRUE, r))
      BY <2>2 DEF GatewayStartsRun
    <3>3. runs'[r] = [state |-> "running", startedBy |-> c]
      BY <2>2 DEF GatewayStartsRun, TypeOK
    <3>4. Started(r, c)'
      BY <3>3 DEF Started, NotStarted
    <3>5. TrueFrame(Answer("agent", TRUE, r), c)'
      BY <3>4 DEF TrueFrame, Answer
    <3> QED
      BY <3>1, <3>2, <3>5
  <2>3. ASSUME GatewayReportsRun(c)
        PROVE  \E f \in Frame : Reply(c, f) /\ TrueFrame(f, c)'
    <3> PICK r \in Runs : r = waitsFor[c]
      BY <2>3 DEF GatewayReportsRun, OwnInv, WaitsForOwn, Started
    <3>1. Answer("agent.wait", TRUE, r) \in Frame
      BY FrameParts DEF Requests
    <3>2. Reply(c, Answer("agent.wait", TRUE, r)) /\ UNCHANGED runs
      BY <2>3 DEF GatewayReportsRun, gateway
    <3>3. runs[r] \in [state : {"running", "ended"}, startedBy : RunCalls]
          /\ runs[r].state = "ended" /\ runs[r].startedBy = c
      BY <2>3 DEF GatewayReportsRun, OwnInv, WaitsForOwn, Started, TypeOK
    <3>4. Over(r, c)'
      BY <3>2, <3>3 DEF Over
    <3>5. TrueFrame(Answer("agent.wait", TRUE, r), c)'
      BY <3>4 DEF TrueFrame, Answer
    <3> QED
      BY <3>1, <3>2, <3>5
  <2> QED
    BY <2>1, <2>2, <2>3 DEF Handle
<1>4. \A g : InQueue(g, c)' => InQueue(g, c) \/ g = f
  BY <1>3, ReplyAdds
<1>5. FramesTrue'
  BY <1>1, <1>3, <1>4, SameOwn, TrueKept DEF OwnInv, FramesTrue
<1>6. WaitsForOwn'
  BY <1>1, <1>2, <1>3, ReplyAdds, RunsKept DEF OwnInv, WaitsForOwn, Same
<1>7. ResultsOwn'
  BY <1>2, RunsKept DEF OwnInv, ResultsOwn
<1> QED
  BY <1>5, <1>6, <1>7 DEF OwnInv

LEMMA TakesOwn ==
  ASSUME TypeOK, OwnInv, [Next]_vars, NEW c \in Calls,
         Receive(c) \/ Cancel(c) \/ Break(c)
  PROVE  FramesTrue'
<1>1. \A d \in Calls \ {c} : Same(d)
  BY ReceiveLeaves, OtherLeaves
<1> QED
  BY <1>1, ClientTakes, SameOwn, TrueKept DEF OwnInv, FramesTrue

\* RunStarted asks for the run named in the answer, RunReported returns it.
LEMMA ReceiveOwn ==
  ASSUME TypeOK, OwnInv, [Next]_vars, NEW c \in Calls, Receive(c)
  PROVE  OwnInv'
<1>1. \A d \in Calls \ {c} : Same(d)
  BY ReceiveLeaves
<1>2. Arrived(c) => Head(frames[c]) \in Frame /\ TrueFrame(Head(frames[c]), c)
  <2> HAVE Arrived(c)
  <2>1. frames[c] \in Seq(Frame) /\ Len(frames[c]) \in Nat \ {0}
        /\ Head(frames[c]) \in Frame /\ Head(frames[c]) = frames[c][1]
    BY QueueTypes, TakeQueue DEF Arrived
  <2> PICK f \in Frame : f = Head(frames[c])
    BY <2>1
  <2>2. InQueue(f, c)
    BY <2>1 DEF InQueue
  <2> QED
    BY <2>2 DEF OwnInv, FramesTrue
<1>3. pending'[c] = "agent.wait" => Started(waitsFor'[c], c)
  <2>1. CASE RunStarted(c)
    <3> PICK f \in Frame : f = Head(frames[c])
      BY <1>2, <2>1 DEF RunStarted
    <3>1. f.type = "res" /\ f.method = "agent" /\ f.ok /\ f.run # NoRun
      BY <2>1 DEF RunStarted, IsAnswer
    <3>2. Started(f.run, c)
      BY <1>2, <2>1, <3>1 DEF RunStarted, TrueFrame
    <3> QED
      BY <2>1, <3>2 DEF RunStarted, TypeOK
  <2>2. CASE ~RunStarted(c)
    <3>1. waitsFor'[c] = waitsFor[c] /\ (pending'[c] = "agent.wait" => pending[c] = "agent.wait")
      BY <2>2 DEF Receive, ReceiveChallenge, ReceiveHello, Rejected, Skip, Refused, RunUnnamed,
         RunReported, Subscribed, Stream, Disconnected, Take, Send, End, got, TypeOK,
         FirstRequest
    <3> QED
      BY <3>1 DEF OwnInv, WaitsForOwn
  <2> QED
    BY <2>1, <2>2
<1>4. step'[c] = "returned" => Over(result'[c], c)
  <2>1. CASE RunReported(c)
    <3> PICK f \in Frame : f = Head(frames[c])
      BY <1>2, <2>1 DEF RunReported
    <3>1. f.type = "res" /\ f.method = "agent.wait" /\ f.ok
      BY <2>1 DEF RunReported, IsAnswer
    <3>2. Over(f.run, c)
      BY <1>2, <2>1, <3>1 DEF RunReported, TrueFrame
    <3> QED
      BY <2>1, <3>2 DEF RunReported, TypeOK
  <2>2. CASE ~RunReported(c)
    <3>1. step'[c] # "returned"
      BY <2>2, ReceiveStep DEF Receive, ReceiveChallenge, ReceiveHello, Rejected, Skip, Refused,
         RunUnnamed, RunStarted, Subscribed, Stream, Disconnected, Take, Send, End, TypeOK,
         FirstRequest, Waiting, InHandshake, Requests
    <3> QED
      BY <3>1
  <2> QED
    BY <2>1, <2>2
<1>5. UNCHANGED runs
  BY ReceiveLeaves DEF gateway
<1>6. WaitsForOwn'
  BY <1>1, <1>3, <1>5 DEF OwnInv, WaitsForOwn, Started, Same
<1>7. ResultsOwn'
  BY <1>1, <1>4, <1>5 DEF OwnInv, ResultsOwn, Over, Same
<1> QED
  BY <1>6, <1>7, TakesOwn DEF OwnInv

LEMMA OtherOwn ==
  ASSUME TypeOK, OwnInv, [Next]_vars, NEW c \in Calls, Cancel(c) \/ Break(c)
  PROVE  OwnInv'
<1>1. UNCHANGED <<runs, waitsFor, result>> /\ \A d \in Calls \ {c} : Same(d)
  BY OtherLeaves DEF gateway, got
<1>2. pending'[c] = "agent.wait" => pending[c] = "agent.wait"
  BY DEF Cancel, Break, TypeOK
<1>3. step'[c] = "returned" => step[c] = "returned"
  BY DEF Cancel, Break, End, TypeOK
<1>4. WaitsForOwn'
  BY <1>1, <1>2 DEF OwnInv, WaitsForOwn, Started, Same
<1>5. ResultsOwn'
  BY <1>1, <1>3 DEF OwnInv, ResultsOwn, Over, Same
<1> QED
  BY <1>4, <1>5, TakesOwn DEF OwnInv

LEMMA ConnectOwn ==
  ASSUME TypeOK, OwnInv, [Next]_vars, NEW c \in Calls, Connect(c)
  PROVE  OwnInv'
<1>1. UNCHANGED <<runs, waitsFor, result, pending>> /\ \A d \in Calls \ {c} : Same(d)
  BY OtherLeaves DEF gateway, got, Connect
<1>2. step'[c] # "returned"
  BY DEF Connect, TypeOK
<1>3. WaitsForOwn' /\ ResultsOwn'
  BY <1>1, <1>2 DEF OwnInv, WaitsForOwn, ResultsOwn, Started, Over, Same
<1>4. \A g : InQueue(g, c)' => InQueue(g, c) \/ g.type # "res"
  <2>1. CASE UNCHANGED frames
    BY <2>1 DEF InQueue
  <2>2. ASSUME NEW f \in Frame, f.type # "res", Push(c, f)
        PROVE  \A g : InQueue(g, c)' => InQueue(g, c) \/ g.type # "res"
    <3>1. frames'[c] = Append(frames[c], f)
      BY <2>2 DEF Push, TypeOK
    <3> QED
      BY <2>2, <3>1, PushAdds
  <2>3. Challenge \in Frame /\ Challenge.type # "res"
    BY FrameParts DEF Challenge
  <2>4. published > 0 => Event(published) \in Frame /\ Event(published).type # "res"
    BY FrameParts, RunsAssumption DEF TypeOK, Event
  <2>5. CASE Push(c, Challenge)
    BY <2>2, <2>3, <2>5
  <2>6. CASE published > 0 /\ Push(c, Event(published))
    <3> PICK f \in Frame : f = Event(published) /\ f.type # "res"
      BY <2>4, <2>6
    <3>1. Push(c, f)
      BY <2>6
    <3> QED
      BY <2>2, <3>1
  <2> QED
    BY <2>1, <2>5, <2>6 DEF Connect
<1>5. FramesTrue'
  <2> SUFFICES ASSUME NEW d \in Calls, NEW g \in Frame, InQueue(g, d)'
               PROVE  TrueFrame(g, d)'
    BY DEF FramesTrue
  <2>1. g.type # "res" => TrueFrame(g, d)'
    BY DEF TrueFrame
  <2> QED
    BY <1>1, <1>4, <2>1, SameOwn, TrueKept DEF OwnInv, FramesTrue
<1> QED
  BY <1>3, <1>5 DEF OwnInv

LEMMA PublishOwn ==
  ASSUME TypeOK, OwnInv, [Next]_vars, GatewayPublishes
  PROVE  OwnInv'
<1>1. UNCHANGED <<step, runs, waitsFor, result, pending>>
  BY DEF GatewayPublishes, got
<1>2. WaitsForOwn' /\ ResultsOwn'
  BY <1>1 DEF OwnInv, WaitsForOwn, ResultsOwn, Started, Over
<1> PICK f \in Frame : f = Event(published + 1)
  <2>1. published + 1 \in 1..MaxEvents
    BY RunsAssumption DEF GatewayPublishes, TypeOK
  <2> QED
    BY <2>1, FrameParts
<1>3. f.type # "res"
  BY DEF Event
<1>4. ASSUME NEW d \in Calls
      PROVE  \A g : InQueue(g, d)' => InQueue(g, d) \/ g = f
  <2>1. frames'[d] = Append(frames[d], f) \/ frames'[d] = frames[d]
    BY DEF GatewayPublishes
  <2>2. CASE frames'[d] = Append(frames[d], f)
    BY <2>2, PushAdds
  <2>3. CASE frames'[d] = frames[d]
    BY <2>3 DEF InQueue
  <2> QED
    BY <2>1, <2>2, <2>3
<1>5. FramesTrue'
  <2> SUFFICES ASSUME NEW d \in Calls, NEW g \in Frame, InQueue(g, d)'
               PROVE  TrueFrame(g, d)'
    BY DEF FramesTrue
  <2>1. g = f => TrueFrame(g, d)'
    BY <1>3 DEF TrueFrame
  <2> QED
    BY <1>4, <2>1, TrueKept DEF OwnInv, FramesTrue
<1> QED
  BY <1>2, <1>5 DEF OwnInv

LEMMA OwnNext == TypeOK /\ OwnInv /\ [Next]_vars => OwnInv'
<1> SUFFICES ASSUME TypeOK, OwnInv, [Next]_vars PROVE OwnInv'
  OBVIOUS
<1>1. CASE UNCHANGED <<step, frames, pending, waitsFor, result>>
  <2>1. FramesTrue'
    BY <1>1, TrueKept DEF OwnInv, FramesTrue, InQueue
  <2>2. WaitsForOwn' /\ ResultsOwn'
    BY <1>1, RunsKept DEF OwnInv, WaitsForOwn, ResultsOwn
  <2> QED
    BY <2>1, <2>2 DEF OwnInv
<1>2. ASSUME NEW r \in Runs, RunEnds(r) PROVE UNCHANGED <<step, frames, pending, waitsFor, result>>
  BY <1>2 DEF RunEnds, got
<1>3. UNCHANGED vars => UNCHANGED <<step, frames, pending, waitsFor, result>>
  BY DEF vars, got
<1> QED
  BY <1>1, <1>2, <1>3, ConnectOwn, ReceiveOwn, OtherOwn, HandleOwn, PublishOwn DEF Next

LEMMA OwnInit == Init => OwnInv
<1> SUFFICES ASSUME Init PROVE OwnInv
  OBVIOUS
<1>1. \A c \in Calls : frames[c] = <<>> /\ pending[c] = "none" /\ step[c] = "idle"
  BY DEF Init
<1>2. \A c \in Calls, f \in Frame : ~InQueue(f, c)
  BY <1>1, EmptySeq DEF InQueue
<1> QED
  BY <1>1, <1>2 DEF OwnInv, FramesTrue, WaitsForOwn, ResultsOwn

\* trigger_run returns the result of a run that this very call has started and
\* that has ended: of any number of calls and runs, whatever frames come in
\* between, whatever breaks, and whichever calls are cancelled.
THEOREM AnswersAreOwn == Spec => []AnswerIsOwn
<1>1. OwnInv => AnswerIsOwn
  BY RunsAssumption DEF OwnInv, ResultsOwn, AnswerIsOwn, Over
<1> QED
  BY TypeInit, TypeNext, OwnInit, OwnNext, <1>1, PTL DEF Spec

------------------------------------------------------------------------------
(* Streams.  A queue holds the frames in the order the gateway sent them, so *)
(* once a stream has taken the answer to its subscription, what is left are  *)
(* the events published since, each one number above the one before.         *)

Subscribe == "sessions.messages.subscribe"

\* Behind position i of the queue are the events with the numbers above n, in order.
EventsFollow(c, i, n) ==
  \A j \in 1..Len(frames[c]) : j > i => frames[c][j] = Event(n + (j - i))

NoAnswerYet(c) == \A i \in 1..Len(frames[c]) : ~IsAnswer(frames[c][i], Subscribe)

NoGap(c) == \A i \in 1..Len(yielded[c]) : yielded[c][i] = subscribed[c] + i

\* What was yielded came after the subscription, which is not repeated.
YieldsLate(c) ==
  yielded[c] # <<>> => pending[c] = "none" /\ step[c] \in Ended \union {"streaming"}

NotAsked(c) ==
  step[c] \notin Ended \union {Subscribe, "streaming"} =>
    pending[c] # Subscribe /\ NoAnswerYet(c)

\* A connection that is open has missed no event.
Asked(c) ==
  step[c] = Subscribe =>
    /\ pending[c] # "none" => pending[c] = Subscribe /\ NoAnswerYet(c)
    /\ \A i \in 1..Len(frames[c]) :
         IsAnswer(frames[c][i], Subscribe) /\ frames[c][i].ok =>
           /\ EventsFollow(c, i, subscribed[c])
           /\ socket[c] = "open" => published = subscribed[c] + (Len(frames[c]) - i)

Streams(c) ==
  step[c] = "streaming" =>
    /\ pending[c] = "none"
    /\ EventsFollow(c, 0, subscribed[c] + Len(yielded[c]))
    /\ socket[c] = "open" =>
         published = subscribed[c] + Len(yielded[c]) + Len(frames[c])

InStep(c) == NoGap(c) /\ YieldsLate(c) /\ NotAsked(c) /\ Asked(c) /\ Streams(c)

StreamInv == \A c \in Calls : InStep(c)

LEMMA EventFields ==
  ASSUME NEW n
  PROVE  /\ Event(n).type = "event" /\ Event(n).number = n
         /\ ~IsAnswer(Event(n), Subscribe)
  BY DEF Event, IsAnswer

\* The queue of a call as numbers and positions.
LEMMA QueueFacts ==
  ASSUME TypeOK, NEW c \in Calls
  PROVE  /\ frames[c] \in Seq(Frame) /\ Len(frames[c]) \in Nat
         /\ yielded[c] \in Seq(1..MaxEvents) /\ Len(yielded[c]) \in Nat
         /\ subscribed[c] \in Nat /\ published \in Nat
<1>1. frames[c] \in Seq(Frame) /\ yielded[c] \in Seq(1..MaxEvents)
      /\ subscribed[c] \in 0..MaxEvents /\ published \in 0..MaxEvents
  BY DEF TypeOK
<1> QED
  BY <1>1, RunsAssumption, LenProperties

LEMMA SameInStep ==
  ASSUME NEW d \in Calls, Same(d), UNCHANGED published, InStep(d)
  PROVE  InStep(d)'
<1> USE DEF Same
<1>1. NoGap(d)'
  BY DEF InStep, NoGap
<1>2. NoAnswerYet(d) => NoAnswerYet(d)'
  BY DEF NoAnswerYet
<1>3. YieldsLate(d)' /\ NotAsked(d)'
  BY <1>2 DEF InStep, YieldsLate, NotAsked
<1>4. Asked(d)'
  BY <1>2 DEF InStep, Asked, EventsFollow
<1>5. Streams(d)'
  BY DEF InStep, Streams, EventsFollow
<1> QED
  BY <1>1, <1>3, <1>4, <1>5 DEF InStep

\* A call that has ended keeps what it has yielded.
LEMMA EndedInStep ==
  ASSUME TypeOK, NEW c \in Calls, InStep(c), step'[c] \in Ended,
         pending'[c] = pending[c], yielded'[c] = yielded[c], subscribed'[c] = subscribed[c]
  PROVE  InStep(c)'
<1>1. NoGap(c)' /\ YieldsLate(c)'
  BY DEF InStep, NoGap, YieldsLate
<1>2. NotAsked(c)' /\ Asked(c)' /\ Streams(c)'
  BY DEF NotAsked, Asked, Streams, Ended, Subscribe
<1> QED
  BY <1>1, <1>2 DEF InStep

\* The client takes the first frame and goes on, before it has subscribed.
LEMMA TakeFacts ==
  ASSUME TypeOK, NEW c \in Calls, Arrived(c), Take(c)
  PROVE  /\ frames'[c] = Tail(frames[c])
         /\ Head(frames[c]) = frames[c][1] /\ Len(frames[c]) \in Nat \ {0}
         /\ Len(frames'[c]) = Len(frames[c]) - 1
         /\ \A i \in 1..Len(frames'[c]) :
              i + 1 \in 1..Len(frames[c]) /\ frames'[c][i] = frames[c][i + 1]
<1>1. frames[c] \in Seq(Frame) /\ frames[c] # <<>>
  BY QueueFacts DEF Arrived
<1>2. frames'[c] = Tail(frames[c])
  BY DEF Take, TypeOK
<1> QED
  BY <1>1, <1>2, TakeQueue

LEMMA PushFacts ==
  ASSUME TypeOK, NEW c \in Calls, NEW f \in Frame, frames'[c] = Append(frames[c], f)
  PROVE  /\ Len(frames'[c]) = Len(frames[c]) + 1
         /\ \A i \in 1..Len(frames[c]) : frames'[c][i] = frames[c][i]
         /\ frames'[c][Len(frames[c]) + 1] = f
  BY QueueFacts, PushQueue

LEMMA StillNoAnswer ==
  ASSUME TypeOK, NEW c \in Calls, NoAnswerYet(c),
         \/ Arrived(c) /\ Take(c)
         \/ \E f \in Frame : frames'[c] = Append(frames[c], f) /\ ~IsAnswer(f, Subscribe)
         \/ frames'[c] = frames[c]
  PROVE  NoAnswerYet(c)'
<1>1. Len(frames[c]) \in Nat
  BY QueueFacts
<1>2. CASE Arrived(c) /\ Take(c)
  BY <1>2, TakeFacts DEF NoAnswerYet
<1>3. ASSUME NEW f \in Frame, frames'[c] = Append(frames[c], f), ~IsAnswer(f, Subscribe)
      PROVE  NoAnswerYet(c)'
  <2>1. /\ Len(frames'[c]) = Len(frames[c]) + 1
        /\ \A i \in 1..Len(frames[c]) : frames'[c][i] = frames[c][i]
        /\ frames'[c][Len(frames[c]) + 1] = f
    BY <1>3, PushFacts
  <2> QED
    BY <1>1, <1>3, <2>1 DEF NoAnswerYet
<1>4. CASE frames'[c] = frames[c]
  BY <1>4 DEF NoAnswerYet
<1> QED
  BY <1>2, <1>3, <1>4

\* A call that has not yet asked for a subscription has yielded nothing.
LEMMA EarlyInStep ==
  ASSUME NEW c \in Calls, yielded'[c] = <<>>, pending'[c] # Subscribe, NoAnswerYet(c)',
         step'[c] \notin Ended \union {Subscribe, "streaming"}
  PROVE  InStep(c)'
<1>1. NoGap(c)' /\ YieldsLate(c)'
  BY EmptySeq DEF NoGap, YieldsLate
<1>2. NotAsked(c)' /\ Asked(c)' /\ Streams(c)'
  BY DEF NotAsked, Asked, Streams
<1> QED
  BY <1>1, <1>2 DEF InStep

LEMMA ConnectInStep ==
  ASSUME TypeOK, NEW c \in Calls, InStep(c), Connect(c)
  PROVE  InStep(c)'
<1>1. step[c] = "idle" /\ UNCHANGED <<pending, yielded, subscribed>>
  BY DEF Connect, got, gateway
<1>2. yielded[c] = <<>> /\ pending[c] # Subscribe /\ NoAnswerYet(c)
  BY <1>1 DEF InStep, YieldsLate, NotAsked, Ended, Subscribe
<1>3. CASE step' = [step EXCEPT ![c] = "raised"]
  BY <1>1, <1>3, EndedInStep DEF Ended, TypeOK
<1>4. CASE step' = [step EXCEPT ![c] = "challenge"] /\ UNCHANGED frames
  <2>1. NoAnswerYet(c)'
    BY <1>2, <1>4, StillNoAnswer
  <2> QED
    BY <1>1, <1>2, <1>4, <2>1, EarlyInStep DEF Ended, Subscribe, TypeOK
<1>5. ASSUME step' = [step EXCEPT ![c] = "challenge"],
             NEW f \in Frame, ~IsAnswer(f, Subscribe), Push(c, f)
      PROVE  InStep(c)'
  <2>1. frames'[c] = Append(frames[c], f)
    BY <1>5 DEF Push, TypeOK
  <2>2. NoAnswerYet(c)'
    BY <1>2, <1>5, <2>1, StillNoAnswer
  <2> QED
    BY <1>1, <1>2, <1>5, <2>2, EarlyInStep DEF Ended, Subscribe, TypeOK
<1>6. Challenge \in Frame /\ ~IsAnswer(Challenge, Subscribe)
  BY FrameParts DEF Challenge, IsAnswer
<1>7. published > 0 => Event(published) \in Frame /\ ~IsAnswer(Event(published), Subscribe)
  BY FrameParts, EventFields, RunsAssumption DEF TypeOK
<1>8. CASE step' = [step EXCEPT ![c] = "challenge"] /\ Push(c, Challenge)
  BY <1>5, <1>6, <1>8
<1>9. CASE step' = [step EXCEPT ![c] = "challenge"] /\ published > 0 /\ Push(c, Event(published))
  <2> PICK f \in Frame : f = Event(published) /\ ~IsAnswer(f, Subscribe)
    BY <1>7, <1>9
  <2> QED
    BY <1>5, <1>9
<1> QED
  BY <1>3, <1>8, <1>9 DEF Connect

LEMMA CancelInStep ==
  ASSUME TypeOK, NEW c \in Calls, InStep(c), Cancel(c)
  PROVE  InStep(c)'
<1>1. step'[c] \in Ended /\ UNCHANGED <<pending, yielded, subscribed>>
  BY DEF Cancel, End, Ended, got, gateway, TypeOK
<1> QED
  BY <1>1, EndedInStep

\* The steps of a call before its subscription.
LEMMA HandshakeInStep ==
  ASSUME TypeOK, NEW c \in Calls, InStep(c), ReceiveChallenge(c) \/ ReceiveHello(c)
  PROVE  InStep(c)'
<1>1. step[c] \in {"challenge", "connect"} /\ UNCHANGED <<yielded, subscribed>> /\ Arrived(c)
  BY DEF ReceiveChallenge, ReceiveHello, got, gateway
<1>2. yielded[c] = <<>> /\ pending[c] # Subscribe /\ NoAnswerYet(c)
  BY <1>1 DEF InStep, YieldsLate, NotAsked, Ended, Subscribe
<1>3. CASE End(c, "raised") /\ UNCHANGED pending
  BY <1>1, <1>3, EndedInStep DEF End, Ended, TypeOK
<1>4. ASSUME NEW m \in {"connect", "agent"}, Take(c), Send(c, m)
      PROVE  InStep(c)'
  <2>1. NoAnswerYet(c)'
    BY <1>1, <1>2, <1>4, StillNoAnswer
  <2>2. step'[c] = m /\ pending'[c] = m
    BY <1>4 DEF Send, TypeOK
  <2> QED
    BY <1>1, <1>2, <2>1, <2>2, EarlyInStep DEF Ended, Subscribe
<1>5. CASE Take(c) /\ Send(c, Subscribe)
  <2>1. NoAnswerYet(c)'
    BY <1>1, <1>2, <1>5, StillNoAnswer
  <2>2. step'[c] = Subscribe /\ pending'[c] = Subscribe /\ yielded'[c] = <<>>
    BY <1>1, <1>2, <1>5 DEF Send, TypeOK
  <2>3. NoGap(c)' /\ YieldsLate(c)'
    BY <2>2, EmptySeq DEF NoGap, YieldsLate
  <2>4. NotAsked(c)' /\ Asked(c)' /\ Streams(c)'
    BY <2>1, <2>2 DEF NotAsked, Asked, Streams, NoAnswerYet, Subscribe
  <2> QED
    BY <2>3, <2>4 DEF InStep
<1> QED
  BY <1>3, <1>4, <1>5
     DEF ReceiveChallenge, ReceiveHello, Rejected, FirstRequest, Subscribe

LEMMA SkipInStep ==
  ASSUME TypeOK, NEW c \in Calls, NEW m \in Requests \ {"connect"}, InStep(c), Skip(c, m)
  PROVE  InStep(c)'
<1>1. /\ step'[c] = step[c] /\ step[c] = m /\ pending'[c] = pending[c]
      /\ yielded'[c] = yielded[c] /\ subscribed'[c] = subscribed[c]
      /\ socket'[c] = socket[c] /\ published' = published
      /\ Arrived(c) /\ Take(c) /\ ~IsAnswer(Head(frames[c]), m)
  BY DEF Skip, got, gateway
<1>2. yielded[c] = <<>>
  BY <1>1 DEF InStep, YieldsLate, Ended, Requests
<1>3. NoAnswerYet(c) => NoAnswerYet(c)'
  BY <1>1, StillNoAnswer
<1>4. CASE m # Subscribe
  BY <1>1, <1>2, <1>3, <1>4, EarlyInStep DEF InStep, NotAsked, Ended, Subscribe, Requests
<1>5. CASE m = Subscribe
  <2>1. /\ Len(frames[c]) \in Nat \ {0}
        /\ Len(frames'[c]) = Len(frames[c]) - 1
        /\ \A i \in 1..Len(frames'[c]) :
              i + 1 \in 1..Len(frames[c]) /\ frames'[c][i] = frames[c][i + 1]
    BY <1>1, TakeFacts
  <2>2. NoGap(c)' /\ YieldsLate(c)'
    BY <1>1, <1>2, EmptySeq DEF NoGap, YieldsLate
  <2>3. NotAsked(c)' /\ Streams(c)'
    BY <1>1, <1>5 DEF NotAsked, Streams, Subscribe
  <2>4. ASSUME NEW i \in 1..Len(frames'[c]),
               IsAnswer(frames'[c][i], Subscribe), frames'[c][i].ok
        PROVE  /\ EventsFollow(c, i, subscribed[c])'
               /\ socket'[c] = "open" => published' = subscribed'[c] + (Len(frames'[c]) - i)
    <3>1. i + 1 \in 1..Len(frames[c]) /\ frames[c][i + 1] = frames'[c][i] /\ i \in Int
      BY <2>1
    <3>2. /\ \A j \in 1..Len(frames[c]) :
               j > i + 1 => frames[c][j] = Event(subscribed[c] + (j - (i + 1)))
          /\ socket[c] = "open" => published = subscribed[c] + (Len(frames[c]) - (i + 1))
      BY <1>1, <1>5, <2>4, <3>1 DEF InStep, Asked, EventsFollow
    <3>3. ASSUME NEW j \in 1..Len(frames'[c]), j > i
          PROVE  frames'[c][j] = Event(subscribed'[c] + (j - i))
      <4>1. j + 1 \in 1..Len(frames[c]) /\ frames'[c][j] = frames[c][j + 1] /\ j + 1 > i + 1
        BY <2>1, <3>3
      <4>2. (j + 1) - (i + 1) = j - i
        OBVIOUS
      <4> QED
        BY <1>1, <3>2, <4>1, <4>2
    <3>4. Len(frames[c]) - (i + 1) = Len(frames'[c]) - i
      BY <2>1
    <3> QED
      BY <1>1, <3>2, <3>3, <3>4 DEF EventsFollow
  <2>5. Asked(c)'
    BY <1>1, <1>3, <1>5, <2>4 DEF InStep, Asked
  <2> QED
    BY <2>2, <2>3, <2>5 DEF InStep
<1> QED
  BY <1>4, <1>5

LEMMA SubscribedInStep ==
  ASSUME TypeOK, NEW c \in Calls, InStep(c), Subscribed(c)
  PROVE  InStep(c)'
<1>1. /\ step[c] = Subscribe /\ step'[c] = "streaming" /\ pending'[c] = pending[c]
      /\ yielded'[c] = yielded[c] /\ subscribed'[c] = subscribed[c]
      /\ socket'[c] = socket[c] /\ published' = published
      /\ Arrived(c) /\ Take(c)
      /\ IsAnswer(Head(frames[c]), Subscribe) /\ Head(frames[c]).ok
  BY DEF Subscribed, Subscribe, got, gateway, TypeOK
<1>2. /\ Head(frames[c]) = frames[c][1] /\ Len(frames[c]) \in Nat \ {0}
      /\ Len(frames'[c]) = Len(frames[c]) - 1
      /\ \A i \in 1..Len(frames'[c]) :
           i + 1 \in 1..Len(frames[c]) /\ frames'[c][i] = frames[c][i + 1]
  BY <1>1, TakeFacts
<1>3. yielded[c] = <<>> /\ Len(yielded[c]) = 0
  BY <1>1, EmptySeq DEF InStep, YieldsLate, Ended, Subscribe
<1>4. 1 \in 1..Len(frames[c]) /\ IsAnswer(frames[c][1], Subscribe) /\ frames[c][1].ok
  BY <1>1, <1>2
<1>5. /\ pending[c] = "none"
      /\ \A j \in 1..Len(frames[c]) : j > 1 => frames[c][j] = Event(subscribed[c] + (j - 1))
      /\ socket[c] = "open" => published = subscribed[c] + (Len(frames[c]) - 1)
  BY <1>1, <1>4 DEF InStep, Asked, EventsFollow, NoAnswerYet
<1>6. subscribed[c] \in Nat
  BY QueueFacts
<1>7. ASSUME NEW j \in 1..Len(frames'[c]), j > 0
      PROVE  frames'[c][j] = Event(subscribed'[c] + Len(yielded'[c]) + (j - 0))
  <2>1. j + 1 \in 1..Len(frames[c]) /\ frames'[c][j] = frames[c][j + 1] /\ j + 1 > 1
    BY <1>2, <1>7
  <2>2. subscribed'[c] + Len(yielded'[c]) + (j - 0) = subscribed[c] + ((j + 1) - 1)
    BY <1>1, <1>3, <1>6
  <2> QED
    BY <1>5, <2>1, <2>2
<1>8. socket'[c] = "open" => published' = subscribed'[c] + Len(yielded'[c]) + Len(frames'[c])
  BY <1>1, <1>2, <1>3, <1>5, <1>6
<1>9. Streams(c)'
  BY <1>1, <1>5, <1>7, <1>8 DEF Streams, EventsFollow
<1>10. NoGap(c)' /\ YieldsLate(c)'
  BY <1>1, <1>3 DEF NoGap, YieldsLate
<1>11. NotAsked(c)' /\ Asked(c)'
  BY <1>1 DEF NotAsked, Asked, Subscribe
<1> QED
  BY <1>9, <1>10, <1>11 DEF InStep

\* The calls of trigger_run, and the ways in which a call may end.
LEMMA RunInStep ==
  ASSUME TypeOK, NEW c \in Calls, InStep(c),
         \/ \E m \in Requests \ {"connect"} : Refused(c, m)
         \/ RunUnnamed(c) \/ RunStarted(c) \/ RunReported(c) \/ Disconnected(c)
  PROVE  InStep(c)'
<1>1. CASE RunStarted(c)
  <2>1. /\ step[c] = "agent" /\ Arrived(c) /\ Take(c)
        /\ step'[c] = "agent.wait" /\ pending'[c] = "agent.wait" /\ yielded' = yielded
    BY <1>1 DEF RunStarted, Send, TypeOK
  <2>2. yielded[c] = <<>> /\ NoAnswerYet(c)
    BY <2>1 DEF InStep, YieldsLate, NotAsked, Ended, Subscribe
  <2>3. NoAnswerYet(c)'
    BY <2>1, <2>2, StillNoAnswer
  <2> QED
    BY <2>1, <2>2, <2>3, EarlyInStep DEF Ended, Subscribe
<1>2. ASSUME NEW m \in Requests, Refused(c, m) PROVE InStep(c)'
  <2>1. step'[c] \in Ended /\ UNCHANGED <<pending, yielded, subscribed>>
    BY <1>2 DEF Refused, End, Ended, got, gateway, TypeOK
  <2> QED
    BY <2>1, EndedInStep
<1>3. CASE RunUnnamed(c) \/ RunReported(c) \/ Disconnected(c)
  <2>1. step'[c] \in Ended /\ UNCHANGED <<pending, yielded, subscribed>>
    BY <1>3 DEF RunUnnamed, RunReported, Disconnected, End, Ended, got, gateway, TypeOK
  <2> QED
    BY <2>1, EndedInStep
<1> QED
  BY <1>1, <1>2, <1>3

\* The stream yields the next event.
LEMMA StreamInStep ==
  ASSUME TypeOK, NEW c \in Calls, InStep(c), Stream(c)
  PROVE  InStep(c)'
<1> DEFINE n == subscribed[c] + Len(yielded[c])
<1>1. /\ step[c] = "streaming" /\ step'[c] = step[c] /\ pending'[c] = pending[c]
      /\ subscribed'[c] = subscribed[c] /\ socket'[c] = socket[c] /\ published' = published
      /\ Arrived(c) /\ Take(c) /\ Yield(c, Head(frames[c]))
  BY DEF Stream, gateway
<1>2. /\ Head(frames[c]) = frames[c][1] /\ Len(frames[c]) \in Nat \ {0}
      /\ Len(frames'[c]) = Len(frames[c]) - 1
      /\ \A i \in 1..Len(frames'[c]) :
           i + 1 \in 1..Len(frames[c]) /\ frames'[c][i] = frames[c][i + 1]
  BY <1>1, TakeFacts
<1>3. /\ pending[c] = "none"
      /\ \A j \in 1..Len(frames[c]) : j > 0 => frames[c][j] = Event(n + (j - 0))
      /\ socket[c] = "open" => published = n + Len(frames[c])
  BY <1>1 DEF InStep, Streams, EventsFollow
<1>4. /\ yielded[c] \in Seq(1..MaxEvents) /\ Len(yielded[c]) \in Nat
      /\ subscribed[c] \in Nat /\ n \in Nat /\ published \in Nat
  BY QueueFacts
<1>5. Head(frames[c]).type = "event" /\ Head(frames[c]).number = n + 1
  <2>1. frames[c][1] = Event(n + (1 - 0))
    BY <1>2, <1>3
  <2>2. n + (1 - 0) = n + 1
    BY <1>4
  <2> QED
    BY <1>2, <2>1, <2>2, EventFields
<1>6. yielded'[c] = Append(yielded[c], n + 1)
  BY <1>1, <1>5 DEF Yield, TypeOK
<1>7. yielded[c] \in Seq(Nat) /\ n + 1 \in Nat
  <2>1. yielded[c] \in [1..Len(yielded[c]) -> Nat]
    BY <1>4, RunsAssumption, LenProperties, ElementOfSeq
  <2> QED
    BY <1>4, <2>1
<1>8. /\ Len(yielded'[c]) = Len(yielded[c]) + 1
      /\ \A i \in 1..Len(yielded[c]) : yielded'[c][i] = yielded[c][i]
      /\ yielded'[c][Len(yielded[c]) + 1] = n + 1
  BY <1>6, <1>7, PushQueue
<1>9. NoGap(c)'
  <2> SUFFICES ASSUME NEW i \in 1..Len(yielded'[c])
               PROVE  yielded'[c][i] = subscribed'[c] + i
    BY DEF NoGap
  <2>1. CASE i \in 1..Len(yielded[c])
    BY <1>1, <1>8, <2>1 DEF InStep, NoGap
  <2>2. CASE i = Len(yielded[c]) + 1
    <3>1. n + 1 = subscribed[c] + (Len(yielded[c]) + 1)
      BY <1>4
    <3> QED
      BY <1>1, <1>8, <2>2, <3>1
  <2> QED
    BY <1>4, <1>8, <2>1, <2>2
<1>10. Streams(c)'
  <2>1. ASSUME NEW j \in 1..Len(frames'[c]), j > 0
        PROVE  frames'[c][j] = Event(subscribed'[c] + Len(yielded'[c]) + (j - 0))
    <3>1. j + 1 \in 1..Len(frames[c]) /\ frames'[c][j] = frames[c][j + 1] /\ j + 1 > 0
      BY <1>2, <2>1
    <3>2. subscribed'[c] + Len(yielded'[c]) + (j - 0) = n + ((j + 1) - 0)
      BY <1>1, <1>4, <1>8
    <3> QED
      BY <1>3, <3>1, <3>2
  <2>2. socket'[c] = "open" => published' = subscribed'[c] + Len(yielded'[c]) + Len(frames'[c])
    <3>1. n + Len(frames[c]) = subscribed[c] + (Len(yielded[c]) + 1) + (Len(frames[c]) - 1)
      <4>1. \A a, b, l \in Nat : (a + b) + l = a + (b + 1) + (l - 1)
        OBVIOUS
      <4>2. Len(frames[c]) \in Nat /\ subscribed[c] \in Nat /\ Len(yielded[c]) \in Nat
        BY <1>2, <1>4
      <4> QED
        BY <4>1, <4>2
    <3>2. Len(yielded'[c]) = Len(yielded[c]) + 1 /\ Len(frames'[c]) = Len(frames[c]) - 1
      BY <1>2, <1>8
    <3>3. socket[c] = "open" => published = n + Len(frames[c])
      BY <1>3
    <3> HIDE DEF n
    <3> QED
      BY <1>1, <3>1, <3>2, <3>3
  <2> QED
    BY <1>1, <1>3, <2>1, <2>2 DEF Streams, EventsFollow
<1>11. YieldsLate(c)' /\ NotAsked(c)' /\ Asked(c)'
  BY <1>1, <1>3 DEF YieldsLate, NotAsked, Asked, Subscribe
<1> QED
  BY <1>9, <1>10, <1>11 DEF InStep

\* The gateway answers: the events that follow the answer to a subscription are
\* counted from what was published by then.
LEMMA ReplyInStep ==
  ASSUME TypeOK, NEW c \in Calls, InStep(c), NEW f \in Frame, pending[c] # "none", Reply(c, f),
         step'[c] = step[c], socket'[c] = socket[c], yielded'[c] = yielded[c],
         published' = published,
         IsAnswer(f, Subscribe) => pending[c] = Subscribe,
         IsAnswer(f, Subscribe) /\ f.ok => subscribed'[c] = published
  PROVE  InStep(c)'
<1>1. yielded[c] = <<>> /\ step[c] # "streaming" /\ pending'[c] = "none"
  BY DEF InStep, YieldsLate, Streams, Reply, TypeOK
<1>2. NoGap(c)' /\ YieldsLate(c)' /\ Streams(c)'
  BY <1>1, EmptySeq DEF NoGap, YieldsLate, Streams
<1>3. \/ frames'[c] = frames[c]
      \/ frames'[c] = Append(frames[c], f)
  BY DEF Reply, Push, TypeOK
<1>4. NotAsked(c)'
  <2>1. CASE step[c] \notin Ended \union {Subscribe, "streaming"}
    <3>1. NoAnswerYet(c) /\ ~IsAnswer(f, Subscribe)
      BY <2>1 DEF InStep, NotAsked
    <3>2. NoAnswerYet(c)'
      BY <1>3, <3>1, StillNoAnswer
    <3> QED
      BY <1>1, <3>2 DEF NotAsked, Subscribe
  <2> QED
    BY <2>1 DEF NotAsked
<1>5. Asked(c)'
  <2>1. CASE step[c] = Subscribe
    <3>1. NoAnswerYet(c)
      BY <2>1 DEF InStep, Asked
    <3>2. ASSUME NEW i \in 1..Len(frames'[c]),
                 IsAnswer(frames'[c][i], Subscribe), frames'[c][i].ok
          PROVE  /\ EventsFollow(c, i, subscribed[c])'
                 /\ published' = subscribed'[c] + (Len(frames'[c]) - i)
      <4>1. Len(frames[c]) \in Nat /\ published \in Nat
        BY QueueFacts
      <4>2. frames'[c] = Append(frames[c], f)
        BY <1>3, <3>1, <3>2 DEF NoAnswerYet
      <4>3. /\ Len(frames'[c]) = Len(frames[c]) + 1
            /\ \A k \in 1..Len(frames[c]) : frames'[c][k] = frames[c][k]
            /\ frames'[c][Len(frames[c]) + 1] = f
        BY <4>2, PushFacts
      <4>4. i = Len(frames[c]) + 1
        BY <3>1, <3>2, <4>1, <4>3 DEF NoAnswerYet
      <4>5. subscribed'[c] = published
        BY <3>2, <4>3, <4>4
      <4>6. EventsFollow(c, i, subscribed[c])'
        BY <4>1, <4>3, <4>4 DEF EventsFollow
      <4> QED
        BY <4>1, <4>3, <4>4, <4>5, <4>6
    <3> QED
      BY <1>1, <3>2 DEF Asked
  <2> QED
    BY <2>1 DEF Asked
<1> QED
  BY <1>2, <1>4, <1>5 DEF InStep

LEMMA HandleInStep ==
  ASSUME TypeOK, NEW c \in Calls, InStep(c), Handle(c)
  PROVE  InStep(c)'
<1>1. ASSUME NEW ok \in BOOLEAN, GatewayAnswers(c, ok) PROVE InStep(c)'
  <2>1. Answer(pending[c], ok, NoRun) \in Frame
    BY <1>1, FrameParts DEF GatewayAnswers, TypeOK
  <2> PICK f \in Frame : f = Answer(pending[c], ok, NoRun)
    BY <2>1
  <2>2. IsAnswer(f, Subscribe) => pending[c] = Subscribe
    BY DEF IsAnswer, Answer
  <2>3. IsAnswer(f, Subscribe) /\ f.ok => subscribed'[c] = published
    BY <1>1 DEF IsAnswer, Answer, GatewayAnswers, Subscribe, TypeOK
  <2>4. /\ pending[c] # "none" /\ Reply(c, f) /\ UNCHANGED <<step, socket, yielded, published>>
    BY <1>1 DEF GatewayAnswers, got
  <2> QED
    BY <2>2, <2>3, <2>4, ReplyInStep
<1>2. ASSUME NEW r \in Runs, GatewayStartsRun(c, r) PROVE InStep(c)'
  <2>1. Answer("agent", TRUE, r) \in Frame
    BY FrameParts DEF Requests
  <2> PICK f \in Frame : f = Answer("agent", TRUE, r)
    BY <2>1
  <2>2. ~IsAnswer(f, Subscribe)
    BY DEF IsAnswer, Answer, Subscribe
  <2>3. /\ pending[c] # "none" /\ Reply(c, f) /\ UNCHANGED <<step, socket, yielded, published>>
    BY <1>2 DEF GatewayStartsRun, got
  <2> QED
    BY <2>2, <2>3, ReplyInStep
<1>3. CASE GatewayReportsRun(c)
  <2>1. Answer("agent.wait", TRUE, waitsFor[c]) \in Frame
    BY FrameParts DEF Requests, TypeOK
  <2> PICK f \in Frame : f = Answer("agent.wait", TRUE, waitsFor[c])
    BY <2>1
  <2>2. ~IsAnswer(f, Subscribe)
    BY DEF IsAnswer, Answer, Subscribe
  <2>3. /\ pending[c] # "none" /\ Reply(c, f) /\ UNCHANGED <<step, socket, yielded, published>>
    BY <1>3 DEF GatewayReportsRun, got, gateway
  <2> QED
    BY <2>2, <2>3, ReplyInStep
<1> QED
  BY <1>1, <1>2, <1>3 DEF Handle

\* The network breaks: what is left of the queue is its beginning.
LEMMA BreakInStep ==
  ASSUME TypeOK, NEW c \in Calls, InStep(c), Break(c)
  PROVE  InStep(c)'
<1> PICK n \in 0..Len(frames[c]) : frames' = [frames EXCEPT ![c] = SubSeq(frames[c], 1, n)]
  BY DEF Break
<1>1. /\ step'[c] = step[c] /\ yielded'[c] = yielded[c] /\ subscribed'[c] = subscribed[c]
      /\ socket'[c] # "open" /\ pending'[c] \in {pending[c], "none"}
  BY DEF Break, got, gateway, TypeOK
<1>2. /\ Len(frames'[c]) = n /\ Len(frames[c]) \in Nat
      /\ \A i \in 1..n : i \in 1..Len(frames[c]) /\ frames'[c][i] = frames[c][i]
  <2>1. frames[c] \in Seq(Frame) /\ Len(frames[c]) \in Nat
    BY QueueFacts
  <2>2. frames'[c] = SubSeq(frames[c], 1, n)
    BY DEF TypeOK
  <2> QED
    BY <2>1, <2>2, CutQueue
<1>3. NoAnswerYet(c) => NoAnswerYet(c)'
  BY <1>2 DEF NoAnswerYet
<1>4. \A i, m : EventsFollow(c, i, m) => \A j \in 1..n : j > i => frames'[c][j] = Event(m + (j - i))
  BY <1>2 DEF EventsFollow
<1>5. NoGap(c)' /\ YieldsLate(c)' /\ NotAsked(c)'
  BY <1>1, <1>3 DEF InStep, NoGap, YieldsLate, NotAsked, Subscribe
<1>6. Asked(c)'
  <2>1. ASSUME step[c] = Subscribe, NEW i \in 1..Len(frames'[c]),
               IsAnswer(frames'[c][i], Subscribe), frames'[c][i].ok
        PROVE  EventsFollow(c, i, subscribed[c])'
    <3>1. i \in 1..Len(frames[c]) /\ frames'[c][i] = frames[c][i]
      BY <1>2, <2>1
    <3>2. EventsFollow(c, i, subscribed[c])
      BY <2>1, <3>1 DEF InStep, Asked
    <3> QED
      BY <1>1, <1>2, <1>4, <3>2 DEF EventsFollow
  <2>2. step[c] = Subscribe /\ pending'[c] # "none" => pending'[c] = Subscribe /\ NoAnswerYet(c)'
    BY <1>1, <1>3 DEF InStep, Asked
  <2> QED
    BY <1>1, <2>1, <2>2 DEF Asked
<1>7. Streams(c)'
  BY <1>1, <1>2, <1>4 DEF InStep, Streams, EventsFollow
<1> QED
  BY <1>5, <1>6, <1>7 DEF InStep

\* An event goes to the end of the queue of every call that is connected.
LEMMA PublishInStep ==
  ASSUME TypeOK, NEW c \in Calls, InStep(c), GatewayPublishes
  PROVE  InStep(c)'
<1>1. /\ step'[c] = step[c] /\ yielded'[c] = yielded[c] /\ subscribed'[c] = subscribed[c]
      /\ socket'[c] = socket[c] /\ pending'[c] = pending[c] /\ published' = published + 1
  BY DEF GatewayPublishes, got
<1>2. NoGap(c)' /\ YieldsLate(c)'
  BY <1>1 DEF InStep, NoGap, YieldsLate
<1>3. CASE ~Connected(c)
  <2>1. frames'[c] = frames[c]
    BY <1>3 DEF GatewayPublishes
  <2>2. step[c] \in {Subscribe, "streaming"} => socket[c] # "open"
    BY <1>3 DEF Connected, Waiting, InHandshake, Requests, Subscribe
  <2>3. NotAsked(c)'
    BY <1>1, <2>1 DEF InStep, NotAsked, NoAnswerYet
  <2>4. Asked(c)' /\ Streams(c)'
    BY <1>1, <2>1, <2>2 DEF InStep, Asked, Streams, NoAnswerYet, EventsFollow
  <2> QED
    BY <1>2, <2>3, <2>4 DEF InStep
<1>4. CASE Connected(c)
  <2>1. frames'[c] = Append(frames[c], Event(published + 1)) /\ socket[c] = "open"
    BY <1>4 DEF GatewayPublishes, Connected
  <2>2. Event(published + 1) \in Frame
    BY FrameParts, RunsAssumption DEF GatewayPublishes, TypeOK
  <2> PICK f \in Frame : f = Event(published + 1)
    BY <2>2
  <2>3. ~IsAnswer(f, Subscribe)
    BY EventFields
  <2>4. NoAnswerYet(c) => NoAnswerYet(c)'
    BY <2>1, <2>3, StillNoAnswer
  <2>5. NotAsked(c)'
    BY <1>1, <2>4 DEF InStep, NotAsked
  <2>6. /\ Len(frames'[c]) = Len(frames[c]) + 1
        /\ \A i \in 1..Len(frames[c]) : frames'[c][i] = frames[c][i]
        /\ frames'[c][Len(frames[c]) + 1] = f
    BY <2>1, PushFacts
  <2>7. /\ Len(frames[c]) \in Nat /\ published \in Nat /\ subscribed[c] \in Nat
        /\ Len(yielded[c]) \in Nat
    BY QueueFacts
  <2>8. ASSUME NEW i \in 0..Len(frames[c]), NEW m \in Nat, EventsFollow(c, i, m),
               published = m + (Len(frames[c]) - i)
        PROVE  \A j \in 1..Len(frames'[c]) : j > i => frames'[c][j] = Event(m + (j - i))
    <3> SUFFICES ASSUME NEW j \in 1..Len(frames'[c]), j > i
                 PROVE  frames'[c][j] = Event(m + (j - i))
      OBVIOUS
    <3>1. CASE j \in 1..Len(frames[c])
      BY <2>6, <2>8, <3>1 DEF EventsFollow
    <3>2. CASE j = Len(frames[c]) + 1
      <4>1. m + (j - i) = published + 1
        BY <2>7, <2>8, <3>2
      <4> QED
        BY <2>6, <3>2, <4>1
    <3> QED
      BY <2>6, <2>7, <3>1, <3>2
  <2>9. Asked(c)'
    <3>1. ASSUME step[c] = Subscribe, NEW i \in 1..Len(frames'[c]),
                 IsAnswer(frames'[c][i], Subscribe), frames'[c][i].ok
          PROVE  EventsFollow(c, i, subscribed[c])'
                 /\ published' = subscribed'[c] + (Len(frames'[c]) - i)
      <4>1. i \in 1..Len(frames[c]) /\ frames'[c][i] = frames[c][i]
        BY <2>3, <2>6, <2>7, <3>1
      <4>2. EventsFollow(c, i, subscribed[c])
            /\ published = subscribed[c] + (Len(frames[c]) - i)
        BY <2>1, <3>1, <4>1 DEF InStep, Asked
      <4>3. \A j \in 1..Len(frames'[c]) : j > i => frames'[c][j] = Event(subscribed[c] + (j - i))
        <5>1. i \in 0..Len(frames[c]) /\ subscribed[c] \in Nat
          BY <2>7, <4>1
        <5> QED
          BY <2>8, <4>2, <5>1
      <4>4. published + 1 = subscribed[c] + ((Len(frames[c]) + 1) - i)
        BY <2>7, <4>1, <4>2
      <4> QED
        BY <1>1, <2>6, <4>3, <4>4 DEF EventsFollow
    <3> QED
      BY <1>1, <2>4, <3>1 DEF InStep, Asked
  <2>10. Streams(c)'
    <3>1. ASSUME step[c] = "streaming" PROVE Streams(c)'
      <4>1. /\ pending[c] = "none"
            /\ EventsFollow(c, 0, subscribed[c] + Len(yielded[c]))
            /\ published = subscribed[c] + Len(yielded[c]) + Len(frames[c])
        BY <2>1, <3>1 DEF InStep, Streams
      <4>2. subscribed[c] + Len(yielded[c]) \in Nat /\ 0 \in 0..Len(frames[c])
            /\ published = subscribed[c] + Len(yielded[c]) + (Len(frames[c]) - 0)
        BY <2>7, <4>1
      <4>3. EventsFollow(c, 0, subscribed[c] + Len(yielded[c]))'
        BY <1>1, <2>8, <4>1, <4>2 DEF EventsFollow
      <4>4. published' = subscribed'[c] + Len(yielded'[c]) + Len(frames'[c])
        <5>1. published + 1 = subscribed[c] + Len(yielded[c]) + (Len(frames[c]) + 1)
          BY <2>7, <4>1
        <5> QED
          BY <1>1, <2>6, <5>1
      <4> QED
        BY <1>1, <4>1, <4>3, <4>4 DEF Streams
    <3> QED
      BY <1>1, <3>1 DEF Streams
  <2> QED
    BY <1>2, <2>5, <2>9, <2>10 DEF InStep
<1> QED
  BY <1>3, <1>4

LEMMA StreamNext == TypeOK /\ StreamInv /\ [Next]_vars => StreamInv'
<1> SUFFICES ASSUME TypeOK, StreamInv, [Next]_vars, NEW d \in Calls
             PROVE  InStep(d)'
  BY DEF StreamInv
<1>1. InStep(d)
  BY DEF StreamInv
<1>2. CASE Same(d) /\ UNCHANGED published
  BY <1>1, <1>2, SameInStep
<1>3. ASSUME NEW c \in Calls, Connect(c) \/ Cancel(c) \/ Break(c) PROVE InStep(d)'
  <2>1. CASE c = d
    BY <1>1, <1>3, <2>1, ConnectInStep, CancelInStep, BreakInStep
  <2>2. CASE c # d
    BY <1>2, <1>3, <2>2, OtherLeaves DEF gateway
  <2> QED
    BY <2>1, <2>2
<1>4. ASSUME NEW c \in Calls, Receive(c) PROVE InStep(d)'
  <2>1. CASE c = d
    BY <1>1, <1>4, <2>1, HandshakeInStep, SkipInStep, RunInStep, SubscribedInStep, StreamInStep
    DEF Receive
  <2>2. CASE c # d
    BY <1>2, <1>4, <2>2, ReceiveLeaves DEF gateway
  <2> QED
    BY <2>1, <2>2
<1>5. ASSUME NEW c \in Calls, Handle(c) PROVE InStep(d)'
  <2>1. CASE c = d
    BY <1>1, <1>5, <2>1, HandleInStep
  <2>2. CASE c # d
    BY <1>2, <1>5, <2>2, HandleLeaves
  <2> QED
    BY <2>1, <2>2
<1>6. ASSUME NEW r \in Runs, RunEnds(r) PROVE InStep(d)'
  BY <1>2, <1>6 DEF RunEnds, got, Same
<1>7. CASE GatewayPublishes
  BY <1>1, <1>7, PublishInStep
<1>8. CASE UNCHANGED vars
  BY <1>2, <1>8 DEF vars, got, gateway, Same
<1> QED
  BY <1>3, <1>4, <1>5, <1>6, <1>7, <1>8 DEF Next

\* stream_session_events yields every event published after its subscription, in
\* order and without a gap, up to the last one it yielded: with any number of
\* calls and events, whatever frames arrive between the answers, and wherever the
\* network breaks.
THEOREM StreamsHaveNoGap == Spec => []StreamHasNoGap
<1>1. Init => StreamInv
  <2> SUFFICES ASSUME Init, NEW c \in Calls PROVE InStep(c)
    BY DEF StreamInv
  <2>1. frames[c] = <<>> /\ pending[c] = "none" /\ step[c] = "idle" /\ yielded[c] = <<>>
    BY DEF Init
  <2>2. NoGap(c) /\ YieldsLate(c) /\ NoAnswerYet(c)
    BY <2>1, EmptySeq DEF NoGap, YieldsLate, NoAnswerYet
  <2>3. NotAsked(c) /\ Asked(c) /\ Streams(c)
    BY <2>1, <2>2 DEF NotAsked, Asked, Streams, Subscribe
  <2> QED
    BY <2>2, <2>3 DEF InStep
<1>2. StreamInv => StreamHasNoGap
  BY DEF StreamInv, InStep, NoGap, StreamHasNoGap
<1> QED
  BY TypeInit, TypeNext, StreamNext, <1>1, <1>2, PTL DEF Spec

------------------------------------------------------------------------------
(* Nobody waits in vain: the safety half of RunCallEnds.                     *)

HasAnswer(c, m) == \E i \in 1..Len(frames[c]) : IsAnswer(frames[c][i], m)

Due(c) ==
  /\ step[c] = "challenge" /\ socket[c] = "open" => Arrived(c)
  /\ step[c] \in Requests /\ socket[c] = "open" =>
       pending[c] = step[c] \/ HasAnswer(c, step[c])

DueInv == \A c \in Calls : Due(c)

\* A frame more in the queue takes no answer away.
LEMMA PushDue ==
  ASSUME TypeOK, NEW c \in Calls, NEW f \in Frame, frames'[c] = Append(frames[c], f)
  PROVE  /\ Arrived(c)'
         /\ \A m : HasAnswer(c, m) \/ IsAnswer(f, m) => HasAnswer(c, m)'
<1>1. Len(frames[c]) \in Nat /\ frames'[c] \in Seq(Frame)
  BY QueueFacts, PushQueue
<1>2. /\ Len(frames'[c]) = Len(frames[c]) + 1
      /\ \A i \in 1..Len(frames[c]) : frames'[c][i] = frames[c][i]
      /\ frames'[c][Len(frames[c]) + 1] = f
  BY PushFacts
<1>3. Arrived(c)'
  <2>1. Len(frames'[c]) # 0
    BY <1>1, <1>2
  <2> QED
    BY <2>1, EmptySeq DEF Arrived
<1>4. \A m : HasAnswer(c, m) => HasAnswer(c, m)'
  BY <1>1, <1>2 DEF HasAnswer
<1>5. \A m : IsAnswer(f, m) => HasAnswer(c, m)'
  <2>1. Len(frames[c]) + 1 \in 1..Len(frames'[c])
    BY <1>1, <1>2
  <2> QED
    BY <1>2, <2>1 DEF HasAnswer
<1> QED
  BY <1>3, <1>4, <1>5

LEMMA SameDue ==
  ASSUME NEW d \in Calls, Same(d), Due(d)
  PROVE  Due(d)'
  BY DEF Same, Due, HasAnswer, Arrived

LEMMA ConnectDue ==
  ASSUME TypeOK, NEW c \in Calls, Connect(c)
  PROVE  Due(c)'
<1>1. CASE step'[c] = "raised"
  BY <1>1 DEF Due, Requests
<1>2. ASSUME step'[c] = "challenge", NEW f \in Frame, Push(c, f)
      PROVE  Due(c)'
  <2>1. frames'[c] = Append(frames[c], f)
    BY <1>2 DEF Push, TypeOK
  <2>2. Arrived(c)'
    BY <2>1, PushDue
  <2> QED
    BY <1>2, <2>2 DEF Due, Requests
<1>3. CASE step'[c] = "challenge" /\ Push(c, Challenge)
  BY <1>2, <1>3, FrameParts
<1>4. CASE step'[c] = "challenge" /\ published > 0 /\ Push(c, Event(published))
  <2>1. Event(published) \in Frame
    BY <1>4, FrameParts, RunsAssumption DEF TypeOK
  <2> PICK f \in Frame : f = Event(published)
    BY <2>1
  <2> QED
    BY <1>2, <1>4
<1> QED
  BY <1>1, <1>3, <1>4 DEF Connect, TypeOK

\* Every request goes out as the call begins to wait for its answer, and the
\* loop of _request throws away only what is not that answer.
LEMMA ReceiveDue ==
  ASSUME TypeOK, NEW c \in Calls, Due(c), Receive(c)
  PROVE  Due(c)'
<1>1. CASE socket'[c] = "closed"
  BY <1>1 DEF Due
<1>2. ASSUME NEW m \in Requests, Send(c, m) PROVE Due(c)'
  <2>1. step'[c] = m /\ pending'[c] = m
    BY <1>2 DEF Send, TypeOK
  <2> QED
    BY <2>1 DEF Due, Requests
<1>3. CASE step'[c] = "streaming"
  BY <1>3 DEF Due, Requests
<1>4. ASSUME NEW m \in Requests, Skip(c, m) PROVE Due(c)'
  <2>1. /\ step[c] = m /\ step' = step /\ socket' = socket /\ pending' = pending
        /\ Arrived(c) /\ Take(c) /\ ~IsAnswer(Head(frames[c]), m)
    BY <1>4 DEF Skip
  <2>2. /\ Head(frames[c]) = frames[c][1] /\ Len(frames[c]) \in Nat \ {0}
        /\ Len(frames'[c]) = Len(frames[c]) - 1
        /\ \A i \in 1..Len(frames'[c]) :
             i + 1 \in 1..Len(frames[c]) /\ frames'[c][i] = frames[c][i + 1]
    BY <2>1, TakeFacts
  <2>3. ASSUME HasAnswer(c, m) PROVE HasAnswer(c, m)'
    <3> PICK i \in 1..Len(frames[c]) : IsAnswer(frames[c][i], m)
      BY <2>3 DEF HasAnswer
    <3>1. i # 1
      BY <2>1, <2>2
    <3>2. i - 1 \in 1..Len(frames'[c]) /\ (i - 1) + 1 = i
      BY <2>2, <3>1
    <3>3. frames'[c][i - 1] = frames[c][i]
      BY <2>2, <3>2
    <3> QED
      BY <3>2, <3>3 DEF HasAnswer
  <2> QED
    BY <2>1, <2>3 DEF Due, Requests
<1>5. CASE ReceiveChallenge(c)
  BY <1>1, <1>2, <1>5 DEF ReceiveChallenge, End, Requests, TypeOK
<1>6. CASE ReceiveHello(c)
  <2>1. FirstRequest(c) \in Requests
    BY DEF FirstRequest, Requests
  <2> QED
    BY <1>1, <1>2, <1>6, <2>1 DEF ReceiveHello, Rejected, End, TypeOK
<1>7. CASE RunStarted(c)
  BY <1>2, <1>7 DEF RunStarted, Requests
<1>8. ASSUME NEW m \in Requests, Refused(c, m) PROVE Due(c)'
  BY <1>1, <1>8 DEF Refused, End, TypeOK
<1>9. CASE RunUnnamed(c) \/ RunReported(c) \/ Disconnected(c)
  BY <1>1, <1>9 DEF RunUnnamed, RunReported, Disconnected, End, TypeOK
<1>10. CASE Subscribed(c) \/ Stream(c)
  BY <1>3, <1>10 DEF Subscribed, Stream, TypeOK
<1> QED
  BY <1>4, <1>5, <1>6, <1>7, <1>8, <1>9, <1>10 DEF Receive

\* The network breaks, or the caller gives the call up: then nothing is due.
LEMMA OtherDue ==
  ASSUME TypeOK, NEW c \in Calls, Cancel(c) \/ Break(c)
  PROVE  Due(c)'
<1>1. CASE Cancel(c)
  BY <1>1 DEF Cancel, End, Due, Requests, TypeOK
<1>2. CASE Break(c)
  BY <1>2 DEF Break, Due, TypeOK
<1> QED
  BY <1>1, <1>2

LEMMA HandleDue ==
  ASSUME TypeOK, NEW c \in Calls, Due(c), Handle(c)
  PROVE  Due(c)'
<1>1. PICK f \in Frame : Reply(c, f) /\ IsAnswer(f, pending[c])
  <2>1. ASSUME NEW ok \in BOOLEAN, GatewayAnswers(c, ok)
        PROVE  \E f \in Frame : Reply(c, f) /\ IsAnswer(f, pending[c])
    <3>1. Answer(pending[c], ok, NoRun) \in Frame
      BY <2>1, FrameParts DEF GatewayAnswers, TypeOK
    <3>2. IsAnswer(Answer(pending[c], ok, NoRun), pending[c])
      BY DEF IsAnswer, Answer
    <3> QED
      BY <2>1, <3>1, <3>2 DEF GatewayAnswers
  <2>2. ASSUME NEW r \in Runs, GatewayStartsRun(c, r)
        PROVE  \E f \in Frame : Reply(c, f) /\ IsAnswer(f, pending[c])
    <3>1. Answer("agent", TRUE, r) \in Frame
      BY FrameParts DEF Requests
    <3>2. IsAnswer(Answer("agent", TRUE, r), "agent")
      BY DEF IsAnswer, Answer
    <3> QED
      BY <2>2, <3>1, <3>2 DEF GatewayStartsRun
  <2>3. ASSUME GatewayReportsRun(c)
        PROVE  \E f \in Frame : Reply(c, f) /\ IsAnswer(f, pending[c])
    <3>1. Answer("agent.wait", TRUE, waitsFor[c]) \in Frame
      BY FrameParts DEF Requests, TypeOK
    <3>2. IsAnswer(Answer("agent.wait", TRUE, waitsFor[c]), "agent.wait")
      BY DEF IsAnswer, Answer
    <3> QED
      BY <2>3, <3>1, <3>2 DEF GatewayReportsRun
  <2> QED
    BY <2>1, <2>2, <2>3 DEF Handle
<1>2. step' = step /\ socket' = socket
  BY HandleLeaves
<1>3. CASE socket[c] = "open"
  <2>1. frames'[c] = Append(frames[c], f)
    BY <1>1, <1>3 DEF Reply, Push, TypeOK
  <2> QED
    BY <1>1, <1>2, <2>1, PushDue DEF Due
<1>4. CASE socket[c] # "open"
  BY <1>2, <1>4 DEF Due
<1> QED
  BY <1>3, <1>4

LEMMA PublishDue ==
  ASSUME TypeOK, NEW c \in Calls, Due(c), GatewayPublishes
  PROVE  Due(c)'
<1>1. step' = step /\ socket' = socket /\ pending' = pending
  BY DEF GatewayPublishes
<1>2. Event(published + 1) \in Frame
  BY FrameParts, RunsAssumption DEF GatewayPublishes, TypeOK
<1> PICK f \in Frame : f = Event(published + 1)
  BY <1>2
<1>3. CASE frames'[c] = frames[c]
  BY <1>1, <1>3 DEF Due, HasAnswer, Arrived
<1>4. CASE frames'[c] = Append(frames[c], f)
  BY <1>1, <1>4, PushDue DEF Due
<1> QED
  BY <1>3, <1>4 DEF GatewayPublishes

LEMMA DueNext == TypeOK /\ DueInv /\ [Next]_vars => DueInv'
<1> SUFFICES ASSUME TypeOK, DueInv, [Next]_vars, NEW d \in Calls
             PROVE  Due(d)'
  BY DEF DueInv
<1>1. Due(d)
  BY DEF DueInv
<1>2. ASSUME NEW c \in Calls, Connect(c) \/ Cancel(c) \/ Break(c) PROVE Due(d)'
  <2>1. CASE c = d
    BY <1>2, <2>1, ConnectDue, OtherDue
  <2>2. CASE c # d
    BY <1>1, <1>2, <2>2, OtherLeaves, SameDue
  <2> QED
    BY <2>1, <2>2
<1>3. ASSUME NEW c \in Calls, Receive(c) PROVE Due(d)'
  <2>1. CASE c = d
    BY <1>1, <1>3, <2>1, ReceiveDue
  <2>2. CASE c # d
    BY <1>1, <1>3, <2>2, ReceiveLeaves, SameDue
  <2> QED
    BY <2>1, <2>2
<1>4. ASSUME NEW c \in Calls, Handle(c) PROVE Due(d)'
  <2>1. CASE c = d
    BY <1>1, <1>4, <2>1, HandleDue
  <2>2. CASE c # d
    BY <1>1, <1>4, <2>2, HandleLeaves, SameDue
  <2> QED
    BY <2>1, <2>2
<1>5. ASSUME NEW r \in Runs, RunEnds(r) PROVE Due(d)'
  BY <1>1, <1>5, SameDue DEF RunEnds, got, Same
<1>6. CASE GatewayPublishes
  BY <1>1, <1>6, PublishDue
<1>7. CASE UNCHANGED vars
  BY <1>1, <1>7, SameDue DEF vars, got, gateway, Same
<1> QED
  BY <1>2, <1>3, <1>4, <1>5, <1>6, <1>7 DEF Next

\* No call waits for an answer that nobody owes it: while its connection is
\* open, the frame the client waits for is in its queue, or the gateway has the
\* request still before it; and the run whose result it asks for is one the
\* gateway has started for it.  The loop of _request throws no answer away.
THEOREM NobodyWaitsInVain == Spec => [](DueInv /\ WaitsForOwn)
<1>1. Init => DueInv
  BY DEF Init, DueInv, Due, Requests
<1>2. OwnInv => WaitsForOwn
  BY DEF OwnInv
<1> QED
  BY TypeInit, TypeNext, OwnInit, OwnNext, DueNext, <1>1, <1>2, PTL DEF Spec

==============================================================================
