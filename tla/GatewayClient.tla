---------------------------- MODULE GatewayClient ----------------------------
(***************************************************************************)
(* services/gateway_client.py: the control plane's client of one running   *)
(* gateway.  Every call opens a WebSocket of its own, answers the           *)
(* challenge, and then either starts a run and waits for its result         *)
(* (trigger_run) or subscribes to a session and yields its events           *)
(* (stream_session_events).  Events arrive between the answers; the network *)
(* may break at any time; the caller may cancel a call that takes too long, *)
(* because the client itself waits without a timeout once it is connected.  *)
(*                                                                         *)
(* The gateway is external: it is modelled from the frames the client      *)
(* expects.  A request is known by its method: a call sends each method     *)
(* once, under an id of its own.                                            *)
(***************************************************************************)
EXTENDS Naturals, Sequences

CONSTANTS
  RunCalls, StreamCalls,   \* calls of trigger_run and stream_session_events
  Runs,                    \* run ids the gateway hands out
  MaxEvents,               \* bound: events the gateway publishes
  Frail,                   \* the calls that may lose the network or be cancelled
  NoRun

ASSUME CallsAssumption == RunCalls \intersect StreamCalls = {}
ASSUME FrailAssumption == Frail \subseteq RunCalls \union StreamCalls
ASSUME RunsAssumption == NoRun \notin Runs /\ MaxEvents \in Nat

Calls == RunCalls \union StreamCalls

VARIABLES
  step,        \* where a call is: the frame it waits for, or how it ended
  socket,      \* its connection, as the client holds it
  pending,     \* the request of the call that the gateway has still to answer
  frames,      \* the frames on their way to the call
  waitsFor,    \* the run whose result it asks for
  result,      \* the run whose result it returned
  yielded,     \* the events it yielded
  runs,        \* the gateway's runs: the call that started it, and its state
  published,   \* how many events the gateway has published
  subscribed   \* of a stream: the events published before its subscription

got == <<waitsFor, result, yielded>>
gateway == <<runs, published, subscribed>>
vars == <<step, socket, pending, frames, got, gateway>>

Requests == {"connect", "agent", "agent.wait", "sessions.messages.subscribe"}
InHandshake == {"challenge", "connect"}
Waiting == Requests \union InHandshake \union {"streaming"}
Ended == {"returned", "raised", "dropped"}

Challenge == [type |-> "challenge"]
Event(n) == [type |-> "event", number |-> n]
Answer(m, ok, r) == [type |-> "res", method |-> m, ok |-> ok, run |-> r]

Frame ==
  {Challenge} \union [type : {"event"}, number : 1..MaxEvents]
  \union [type : {"res"}, method : Requests, ok : BOOLEAN, run : Runs \union {NoRun}]

NotStarted == [state |-> "none"]

TypeOK ==
  /\ step \in [Calls -> {"idle"} \union Waiting \union Ended]
  /\ socket \in [Calls -> {"none", "open", "broken", "closed"}]
  /\ pending \in [Calls -> Requests \union {"none"}]
  /\ frames \in [Calls -> Seq(Frame)]
  /\ waitsFor \in [Calls -> Runs \union {NoRun}]
  /\ result \in [Calls -> Runs \union {NoRun}]
  /\ yielded \in [Calls -> Seq(1..MaxEvents)]
  /\ runs \in [Runs -> {NotStarted} \union
                       [state : {"running", "ended"}, startedBy : RunCalls]]
  /\ published \in 0..MaxEvents
  /\ subscribed \in [Calls -> 0..MaxEvents]

Init ==
  /\ step = [c \in Calls |-> "idle"]
  /\ socket = [c \in Calls |-> "none"]
  /\ pending = [c \in Calls |-> "none"]
  /\ frames = [c \in Calls |-> <<>>]
  /\ waitsFor = [c \in Calls |-> NoRun]
  /\ result = [c \in Calls |-> NoRun]
  /\ yielded = [c \in Calls |-> <<>>]
  /\ runs = [r \in Runs |-> NotStarted]
  /\ published = 0
  /\ subscribed = [c \in Calls |-> 0]

------------------------------------------------------------------------------
(* The gateway. *)

Push(c, f) == frames' = [frames EXCEPT ![c] = Append(@, f)]

\* An answer to a connection that broke is lost.
Reply(c, f) ==
  /\ pending' = [pending EXCEPT ![c] = "none"]
  /\ IF socket[c] = "open" THEN Push(c, f) ELSE UNCHANGED frames

\* connect, subscribe, any request it refuses, and an "agent" whose answer names
\* no run.
GatewayAnswers(c, ok) ==
  /\ pending[c] # "none"
  /\ ok => pending[c] # "agent.wait"
  /\ Reply(c, Answer(pending[c], ok, NoRun))
  /\ subscribed' =
       IF ok /\ pending[c] = "sessions.messages.subscribe"
       THEN [subscribed EXCEPT ![c] = published] ELSE subscribed
  /\ UNCHANGED <<step, socket, got, runs, published>>

GatewayStartsRun(c, r) ==
  /\ pending[c] = "agent"
  /\ runs[r] = NotStarted
  /\ runs' = [runs EXCEPT ![r] = [state |-> "running", startedBy |-> c]]
  /\ Reply(c, Answer("agent", TRUE, r))
  /\ UNCHANGED <<step, socket, got, published, subscribed>>

RunEnds(r) ==
  /\ runs[r].state = "running"
  /\ runs' = [runs EXCEPT ![r].state = "ended"]
  /\ UNCHANGED <<step, socket, got, pending, frames, published, subscribed>>

GatewayReportsRun(c) ==
  /\ pending[c] = "agent.wait"
  /\ runs[waitsFor[c]].state = "ended"
  /\ Reply(c, Answer("agent.wait", TRUE, waitsFor[c]))
  /\ UNCHANGED <<step, socket, got, gateway>>

\* Ticks and session events go to every connection that has passed the
\* handshake, whatever it is waiting for.  An event sent right after the hello
\* is read after it in any case.
Connected(c) ==
  socket[c] = "open" /\ step[c] \in Waiting \ InHandshake

GatewayPublishes ==
  /\ published < MaxEvents
  /\ published' = published + 1
  /\ frames' = [c \in Calls |->
       IF Connected(c) THEN Append(frames[c], Event(published + 1)) ELSE frames[c]]
  /\ UNCHANGED <<step, socket, got, pending, runs, subscribed>>

\* The network: what is under way in both directions may be lost from some
\* frame on.
Break(c) ==
  /\ c \in Frail
  /\ socket[c] = "open"
  /\ socket' = [socket EXCEPT ![c] = "broken"]
  /\ \E n \in 0..Len(frames[c]) :
       frames' = [frames EXCEPT ![c] = SubSeq(@, 1, n)]
  /\ \/ UNCHANGED pending
     \/ pending[c] # "none" /\ pending' = [pending EXCEPT ![c] = "none"]
  /\ UNCHANGED <<step, got, gateway>>

------------------------------------------------------------------------------
(* The client. *)

Arrived(c) == frames[c] # <<>>
Take(c) == frames' = [frames EXCEPT ![c] = Tail(@)]

\* The call ends; trigger_run and stream_session_events close the socket in
\* their finally, _connect in its except clauses.  Nobody reads what is left.
End(c, how) ==
  /\ step' = [step EXCEPT ![c] = how]
  /\ socket' = [socket EXCEPT ![c] = "closed"]
  /\ frames' = [frames EXCEPT ![c] = <<>>]

Send(c, m) ==
  /\ step' = [step EXCEPT ![c] = m]
  /\ pending' = [pending EXCEPT ![c] = m]

\* websockets.connect: refused, or open and challenged.
Connect(c) ==
  /\ step[c] = "idle"
  /\ \/ /\ step' = [step EXCEPT ![c] = "raised"]
        /\ UNCHANGED <<socket, frames>>
     \/ /\ step' = [step EXCEPT ![c] = "challenge"]
        /\ socket' = [socket EXCEPT ![c] = "open"]
        /\ \/ Push(c, Challenge)
           \/ published > 0 /\ Push(c, Event(published))
  /\ UNCHANGED <<pending, got, gateway>>

\* _connect, first half: anything but a challenge is a protocol error.
ReceiveChallenge(c) ==
  /\ step[c] = "challenge"
  /\ Arrived(c)
  /\ IF Head(frames[c]).type = "challenge"
     THEN Take(c) /\ Send(c, "connect") /\ UNCHANGED socket
     ELSE End(c, "raised") /\ UNCHANGED pending
  /\ UNCHANGED <<got, gateway>>

FirstRequest(c) ==
  IF c \in RunCalls THEN "agent" ELSE "sessions.messages.subscribe"

\* A mistake to catch: a rejected connect leaves the socket open.
LeaveOpen(c) ==
  /\ step' = [step EXCEPT ![c] = "raised"]
  /\ UNCHANGED <<socket, frames>>

Rejected(c) == End(c, "raised")

\* _connect, second half, and the request that follows it.
ReceiveHello(c) ==
  /\ step[c] = "connect"
  /\ Arrived(c)
  /\ LET f == Head(frames[c])
     IN IF f.type = "res" /\ f.method = "connect" /\ f.ok
        THEN Take(c) /\ Send(c, FirstRequest(c)) /\ UNCHANGED socket
        ELSE Rejected(c) /\ UNCHANGED pending
  /\ UNCHANGED <<got, gateway>>

\* _request: the loop that looks for the answer to one request.  A mistake to
\* catch: every request looks for the first id.
FirstAnswer(f, m) ==
  f.type = "res" /\ f.method \in {"agent", "sessions.messages.subscribe"}

IsAnswer(f, m) == f.type = "res" /\ f.method = m

Skip(c, m) ==
  /\ step[c] = m
  /\ Arrived(c)
  /\ ~IsAnswer(Head(frames[c]), m)
  /\ Take(c)
  /\ UNCHANGED <<step, socket, got, pending, gateway>>

Refused(c, m) ==
  /\ step[c] = m
  /\ Arrived(c)
  /\ IsAnswer(Head(frames[c]), m)
  /\ ~Head(frames[c]).ok
  /\ End(c, "raised")
  /\ UNCHANGED <<pending, got, gateway>>

\* Mistakes to catch: the first answer is taken for the result; the wait is for
\* the whole answer in place of its runId.
NoWait(c) ==
  /\ step[c] = "agent"
  /\ Arrived(c)
  /\ IsAnswer(Head(frames[c]), "agent")
  /\ Head(frames[c]).ok
  /\ result' = [result EXCEPT ![c] = Head(frames[c]).run]
  /\ End(c, "returned")
  /\ UNCHANGED <<pending, waitsFor, yielded, gateway>>
WaitForAnswer(c) ==
  /\ step[c] = "agent"
  /\ Arrived(c)
  /\ IsAnswer(Head(frames[c]), "agent")
  /\ Head(frames[c]).ok
  /\ waitsFor' = [waitsFor EXCEPT ![c] = Head(frames[c])]
  /\ Take(c)
  /\ Send(c, "agent.wait")
  /\ UNCHANGED <<socket, result, yielded, gateway>>

\* trigger_run: an answer without a runId is a protocol error.
RunUnnamed(c) ==
  /\ step[c] = "agent"
  /\ Arrived(c)
  /\ IsAnswer(Head(frames[c]), "agent")
  /\ Head(frames[c]).ok
  /\ Head(frames[c]).run = NoRun
  /\ End(c, "raised")
  /\ UNCHANGED <<pending, got, gateway>>

RunStarted(c) ==
  /\ step[c] = "agent"
  /\ Arrived(c)
  /\ LET f == Head(frames[c])
     IN /\ IsAnswer(f, "agent")
        /\ f.ok /\ f.run # NoRun
        /\ waitsFor' = [waitsFor EXCEPT ![c] = f.run]
  /\ Take(c)
  /\ Send(c, "agent.wait")
  /\ UNCHANGED <<socket, result, yielded, gateway>>

RunReported(c) ==
  /\ step[c] = "agent.wait"
  /\ Arrived(c)
  /\ LET f == Head(frames[c])
     IN /\ IsAnswer(f, "agent.wait")
        /\ f.ok
        /\ result' = [result EXCEPT ![c] = f.run]
  /\ End(c, "returned")
  /\ UNCHANGED <<pending, waitsFor, yielded, gateway>>

\* stream_session_events
Subscribed(c) ==
  /\ step[c] = "sessions.messages.subscribe"
  /\ Arrived(c)
  /\ IsAnswer(Head(frames[c]), "sessions.messages.subscribe")
  /\ Head(frames[c]).ok
  /\ Take(c)
  /\ step' = [step EXCEPT ![c] = "streaming"]
  /\ UNCHANGED <<socket, pending, got, gateway>>

Yield(c, f) ==
  yielded' = IF f.type = "event" THEN [yielded EXCEPT ![c] = Append(@, f.number)]
             ELSE yielded

\* A mistake to catch: the loop reads a frame and then receives another one.
EveryOther(c) ==
  /\ step[c] = "streaming"
  /\ Len(frames[c]) > 1
  /\ frames' = [frames EXCEPT ![c] = Tail(Tail(@))]
  /\ Yield(c, frames[c][2])
  /\ UNCHANGED <<step, socket, pending, waitsFor, result, gateway>>

Stream(c) ==
  /\ step[c] = "streaming"
  /\ Arrived(c)
  /\ Take(c)
  /\ Yield(c, Head(frames[c]))
  /\ UNCHANGED <<step, socket, pending, waitsFor, result, gateway>>

\* The frames that came before the break are read first; then recv raises.
Disconnected(c) ==
  /\ step[c] \in Waiting
  /\ socket[c] = "broken"
  /\ ~Arrived(c)
  /\ End(c, "raised")
  /\ UNCHANGED <<pending, got, gateway>>

\* The caller cancels the call, or stops reading the stream.  _connect catches
\* Exception, which a cancellation is not.
Cancel(c) ==
  /\ c \in Frail
  /\ step[c] \in Waiting
  /\ IF step[c] \in InHandshake
     THEN /\ step' = [step EXCEPT ![c] = "dropped"]
          /\ UNCHANGED <<socket, frames>>
     ELSE End(c, "raised")
  /\ UNCHANGED <<pending, got, gateway>>

------------------------------------------------------------------------------
Receive(c) ==
  \/ ReceiveChallenge(c) \/ ReceiveHello(c)
  \/ \E m \in Requests \ {"connect"} : Skip(c, m) \/ Refused(c, m)
  \/ RunUnnamed(c) \/ RunStarted(c) \/ RunReported(c)
  \/ Subscribed(c) \/ Stream(c)
  \/ Disconnected(c)

Handle(c) ==
  \/ \E ok \in BOOLEAN : GatewayAnswers(c, ok)
  \/ c \in RunCalls /\ \E r \in Runs : GatewayStartsRun(c, r)
  \/ GatewayReportsRun(c)

Next ==
  \/ \E c \in Calls :
       Connect(c) \/ Receive(c) \/ Cancel(c) \/ Handle(c) \/ Break(c)
  \/ \E r \in Runs : RunEnds(r)
  \/ GatewayPublishes

\* The client's coroutines are scheduled; the gateway answers what it received
\* and its runs end.  The last two are what the client relies on: it sets no
\* timeout after the connection is open.
Fairness ==
  /\ \A c \in Calls : WF_vars(Receive(c)) /\ WF_vars(Handle(c))
  /\ \A r \in Runs : WF_vars(RunEnds(r))

Spec == Init /\ [][Next]_vars /\ Fairness

------------------------------------------------------------------------------
(* Properties *)

\* A result that trigger_run returns is the result of a run that this very call
\* started and that has ended, whatever other frames came in between.
AnswerIsOwn ==
  \A c \in Calls : step[c] = "returned" =>
    /\ result[c] # NoRun
    /\ runs[result[c]] = [state |-> "ended", startedBy |-> c]

\* A call that is over has closed its socket, on each of the ways it can end;
\* the one exception is a call its caller cancelled in the handshake.
SocketsClosed ==
  \A c \in Calls : step[c] \in {"returned", "raised"} =>
    socket[c] \in {"none", "closed"}

\* A stream yields every event published after its subscription, in order and
\* without a gap, up to the last one it yielded.
StreamHasNoGap ==
  \A c \in Calls : \A i \in 1..Len(yielded[c]) : yielded[c][i] = subscribed[c] + i

\* With a gateway that answers, no call of trigger_run waits for ever: it
\* returns or raises.
RunCallEnds ==
  \A c \in RunCalls : step[c] \in Waiting ~> step[c] \in Ended
=============================================================================
