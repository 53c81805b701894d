---------------------------- MODULE AgentSession ----------------------------
(***************************************************************************)
(* The agent's side of a session: the accept loop, one session at a time,  *)
(* the pump thread that writes what scripts emit, the inbound loop that    *)
(* blocks on the JS worker, and the engine's outbound sink, which changes  *)
(* hands with every session.                                               *)
(***************************************************************************)
EXTENDS Naturals, Sequences

CONSTANTS
  Hosts,      \* goauld-host processes
  Retries,    \* bound: connects per attach, 20 in the code
  Backlog,    \* bound: connections that wait for accept, 4 in the code
  MaxMsgs,    \* bound: messages the script emits
  NoConn      \* no connection

ASSUME SessionAssumption ==
  /\ Retries \in Nat \ {0} /\ Backlog \in Nat \ {0} /\ MaxMsgs \in Nat
  /\ NoConn \notin Hosts \X (1 .. Retries)

\* A connection is named after the host and the attempt that made it.
Conns == Hosts \X (1 .. Retries)
HostOf(c) == c[1]

\* Frames: Hello, Send, RpcReply, Log to the host; ScriptLoad, Post, RpcCall
\* to the agent.  The number is the place of a Send in the order of emission
\* and the call_id of a call or reply.
Frame(t, n) == [type |-> t, n |-> n]
Hello == Frame("Hello", 0)

VARIABLES
  up,       \* the agent's listener thread runs in the app that is there now
  at,       \* where run_agent is in its accept loop or in on_connected
  session,  \* the connection being served
  sink,     \* ScriptEngine::tx and HostBridge::tx
  waiting,  \* the frame whose job the inbound loop waits for
  script,   \* "none", "posted" to the JS worker, "loaded": it may emit
  emitted,  \* how many messages scripts have emitted
  backlog,  \* connections not accepted yet
  host,     \* the host's end of each connection is open
  agent,    \* the agent's end of each connection is open
  inward, outward, \* frames on the way to the agent, to the host
  chan,     \* the mpsc channel of the session
  pump,     \* its thread: "none", "runs", "ended"
  helloAt   \* history: how many messages were emitted when Hello was written

agentVars == <<up, at, session, sink, waiting, script, backlog>>
wires == <<host, agent, inward, outward, chan, pump>>
svars == <<agentVars, emitted, wires, helloAt>>

None == Frame("none", 0)

SessionInit ==
  /\ at = "accept" /\ session = NoConn /\ sink = NoConn
  /\ waiting = None /\ script = "none" /\ emitted = 0
  /\ backlog = << >>
  /\ host = [c \in Conns |-> FALSE] /\ agent = [c \in Conns |-> FALSE]
  /\ inward = [c \in Conns |-> << >>] /\ outward = [c \in Conns |-> << >>]
  /\ chan = [c \in Conns |-> << >>] /\ pump = [c \in Conns |-> "none"]
  /\ helloAt = [c \in Conns |-> 0]

-----------------------------------------------------------------------------
(* run_agent *)

\* The constructor, once per process: the thread binds the name and listens.
StartAgent == up' = TRUE

Accept == /\ up /\ at = "accept" /\ backlog # << >>
          /\ session' = Head(backlog) /\ backlog' = Tail(backlog)
          /\ at' = "sink"
          /\ UNCHANGED <<up, sink, waiting, script, emitted, wires, helloAt>>

\* Mutant: the first session's sink stays.
SetOutboundOnce == /\ at = "sink" /\ at' = "hello"
                   /\ sink' = IF sink = NoConn THEN session ELSE sink
                   /\ UNCHANGED <<up, session, waiting, script, backlog, emitted, wires, helloAt>>
\* set_outbound: what is emitted from now on goes to the new session; the old
\* channel has lost its last sender.
SetOutbound == /\ at = "sink" /\ at' = "hello"
               /\ sink' = session
               /\ UNCHANGED <<up, session, waiting, script, backlog, emitted, wires, helloAt>>

\* on_connected returns: the listener's stream is dropped.  The pump has a
\* clone and lives as long as the engine keeps the channel's sender.
EndSession == /\ at' = "accept" /\ session' = NoConn /\ waiting' = None
              /\ agent' = [agent EXCEPT ![session] = FALSE]

\* What is written to a peer that has gone may be taken by the kernel or fail.
WriteTo(c, f) == outward' = IF host[c] THEN [outward EXCEPT ![c] = Append(@, f)] ELSE outward

WriteHello ==
  /\ at = "hello"
  /\ \/ /\ at' = "read"
        /\ WriteTo(session, Hello)
        /\ pump' = [pump EXCEPT ![session] = "runs"]
        /\ helloAt' = [helloAt EXCEPT ![session] = emitted]
        /\ UNCHANGED <<session, waiting, agent>>
     \/ /\ ~host[session] /\ EndSession
        /\ UNCHANGED <<outward, pump, helloAt>>
  /\ UNCHANGED <<up, sink, script, backlog, emitted, host, inward, chan>>

\* The pump writes in order and ends when a write fails, or when the channel is
\* empty and without a sender.
Pump(c) ==
  /\ pump[c] = "runs"
  /\ \/ /\ chan[c] # << >>
        /\ chan' = [chan EXCEPT ![c] = Tail(@)]
        /\ WriteTo(c, Head(chan[c]))
        /\ UNCHANGED pump
     \/ /\ chan[c] # << >> /\ ~host[c]
        /\ pump' = [pump EXCEPT ![c] = "ended"]
        /\ chan' = [chan EXCEPT ![c] = << >>]
        /\ UNCHANGED outward
     \/ /\ chan[c] = << >> /\ c \notin {sink, session}
        /\ pump' = [pump EXCEPT ![c] = "ended"]
        /\ UNCHANGED <<chan, outward>>
  /\ UNCHANGED <<agentVars, emitted, host, agent, inward, helloAt>>

\* tx.send fails when the pump has ended and dropped the receiver.
SendOn(c, f) == chan' = IF pump[c] = "ended" THEN chan ELSE [chan EXCEPT ![c] = Append(@, f)]

\* One turn of the inbound loop: a job for the JS worker (module JsWorker),
\* which load and call wait for and post does not.
ReadInbound ==
  /\ at = "read" /\ inward[session] # << >>
  /\ LET f == Head(inward[session]) IN
     /\ script' = IF f.type = "ScriptLoad" THEN "posted" ELSE script
     /\ IF f.type = "Post" THEN UNCHANGED <<at, waiting>>
                           ELSE at' = "wait" /\ waiting' = f
  /\ inward' = [inward EXCEPT ![session] = Tail(@)]
  /\ UNCHANGED <<up, session, sink, backlog, emitted, host, agent, outward, chan, pump, helloAt>>

\* Mutant: a failed read is taken for an idle connection.
ReadFailsIdle == /\ at = "read" /\ inward[session] = << >> /\ ~host[session]
                 /\ UNCHANGED svars
ReadFails ==
  /\ at = "read" /\ inward[session] = << >> /\ ~host[session]
  /\ EndSession
  /\ UNCHANGED <<up, sink, script, backlog, emitted, host, inward, outward, chan, pump, helloAt>>

\* ScriptEngine::load: the worker evaluates the script; the inbound loop may have
\* given it up.
Evaluated == /\ script = "posted" /\ script' = "loaded"
             /\ UNCHANGED <<up, at, session, sink, waiting, backlog, emitted, wires, helloAt>>

InboundAnswer(f) == IF f.type = "ScriptLoad" THEN Frame("Log", 0) ELSE Frame("RpcReply", f.n)

\* The answer of the job, or the 30 s timeout.  A load that went well says
\* nothing; a call always has a reply, and ends the session if it cannot be sent.
JobAnswered ==
  /\ at = "wait"
  /\ \/ waiting.type = "ScriptLoad" /\ script = "loaded"
        /\ UNCHANGED chan
     \/ SendOn(session, InboundAnswer(waiting))
  /\ IF waiting.type = "RpcCall" /\ pump[session] = "ended"
     THEN EndSession
     ELSE at' = "read" /\ waiting' = None /\ UNCHANGED <<session, agent>>
  /\ UNCHANGED <<up, sink, script, backlog, emitted, host, inward, outward, pump, helloAt>>

\* Mutant: a bounded channel from which the oldest message falls out.
EmitBounded ==
  /\ script = "loaded" /\ emitted < MaxMsgs /\ sink # NoConn
  /\ emitted' = emitted + 1
  /\ chan' = [chan EXCEPT ![sink] = <<Frame("Send", emitted + 1)>>]
  /\ UNCHANGED <<agentVars, host, agent, inward, outward, pump, helloAt>>
\* send() in a job, a timer or a hook: any time once a script is there.
Emit ==
  /\ script = "loaded" /\ emitted < MaxMsgs /\ sink # NoConn
  /\ emitted' = emitted + 1
  /\ SendOn(sink, Frame("Send", emitted + 1))
  /\ UNCHANGED <<agentVars, host, agent, inward, outward, pump, helloAt>>

\* am force-stop: the agent dies with the app, its ends of the connections are
\* closed, what was written stays on the way.
AgentDies ==
  /\ up' = FALSE /\ at' = "accept" /\ session' = NoConn /\ sink' = NoConn
  /\ waiting' = None /\ script' = "none" /\ backlog' = << >>
  /\ agent' = [c \in Conns |-> FALSE]
  /\ chan' = [c \in Conns |-> << >>]
  /\ pump' = [c \in Conns |-> IF pump[c] = "none" THEN "none" ELSE "ended"]
  /\ UNCHANGED <<emitted, host, inward, outward, helloAt>>

AgentStep ==
  \/ Accept \/ SetOutbound \/ WriteHello \/ ReadInbound \/ ReadFails \/ JobAnswered
  \/ \E c \in Conns : Pump(c)
=============================================================================
