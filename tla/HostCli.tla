------------------------------ MODULE HostCli -------------------------------
(***************************************************************************)
(* goauld-host: processes that restart the app, inject, forward a port,    *)
(* connect until a Hello comes, load a script, listen, answer pings, call  *)
(* the script and give up, on one device, against the agent of             *)
(* AgentSession.                                                           *)
(***************************************************************************)
EXTENDS AgentSession, FiniteSets

CONSTANTS
  CommandLines, \* the combinations of commands the hosts are started with
  MaxStalls  \* bound: read timeouts in the middle of a frame

\* restart, inject: what comes before; forwards: a pid is known; loads: a script
\* is sent; timed: there is a deadline; calls: RpcCalls after the messages.
ASSUME CommandAssumption ==
  /\ CommandLines \subseteq [Hosts -> [restart : BOOLEAN, inject : BOOLEAN, forwards : BOOLEAN,
                         loads : BOOLEAN, timed : BOOLEAN, calls : Nat]]
  /\ MaxStalls \in Nat

VARIABLES
  pid,     \* how often the app was started
  port,    \* the pid whose agent adb forwards the port to, 0 if none
  cmd, pc, \* the command and the place of each host
  conn,    \* its connection
  lost,    \* it reads from the middle of a frame
  call,    \* the call_id it waits for
  got,     \* history: the frames read on each connection
  stalled  \* history: the connections with a timeout in mid-frame

hostVars == <<cmd, pc, conn, lost, call>>
vars == <<svars, pid, port, hostVars, got, stalled>>

\* An earlier host may have injected the agent and left the forward.
Init ==
  /\ SessionInit
  /\ up \in BOOLEAN /\ pid = 1 /\ port = IF up THEN pid ELSE 0
  /\ cmd \in CommandLines /\ pc = [h \in Hosts |-> "start"]
  /\ conn = [h \in Hosts |-> NoConn]
  /\ lost = [h \in Hosts |-> FALSE]
  /\ call = [h \in Hosts |-> 0]
  /\ got = [c \in Conns |-> << >>] /\ stalled = {}

Goto(h, p) == pc' = [pc EXCEPT ![h] = p]
\* A host that ends, for whatever reason, closes its connection.
HangUp(h) == /\ host' = [host EXCEPT ![conn[h]] = FALSE]
             /\ outward' = [outward EXCEPT ![conn[h]] = << >>]
End(h) == Goto(h, "done") /\ HangUp(h)

-----------------------------------------------------------------------------
(* Before the connection: any adb command may fail, which ends the host. *)

\* restart_package
RestartPackage(h) ==
  /\ pc[h] = "start" /\ cmd[h].restart
  /\ AgentDies /\ pid' = pid + 1
  /\ \/ Goto(h, "inject")
     \/ Goto(h, "done")
  /\ UNCHANGED <<port, cmd, conn, lost, call, got, stalled>>

\* The commands that begin without a restart.
InjectAt(h) == IF cmd[h].restart THEN "inject" ELSE "start"

\* cmd_inject: deploy and run the injector; a second dlopen runs no constructor.
Inject(h) ==
  /\ pc[h] = InjectAt(h)
  /\ \/ cmd[h].inject /\ StartAgent /\ Goto(h, "forward")
     \/ ~cmd[h].inject /\ Goto(h, "forward") /\ UNCHANGED up
     \/ cmd[h].inject /\ Goto(h, "done") /\ UNCHANGED up
  /\ UNCHANGED <<at, session, sink, waiting, script, backlog, emitted, wires, helloAt, pid, port, cmd, conn, lost, call, got, stalled>>

\* resolve_pid_on_device and ensure_adb_forward; the stress commands remove and add in any case.  Another
\* host's forward of the same port is removed.
Forward(h) ==
  /\ pc[h] = "forward"
  /\ \/ port' = (IF cmd[h].forwards THEN pid ELSE port) /\ Goto(h, "connect")
     \/ cmd[h].forwards /\ pid # port /\ port' = 0 /\ Goto(h, "done")
  /\ conn' = [conn EXCEPT ![h] = <<h, 1>>]
  /\ UNCHANGED <<svars, pid, cmd, lost, call, got, stalled>>

-----------------------------------------------------------------------------
(* Connecting *)

\* The next attempt, or giving up.
NextAttempt(h) ==
  IF conn[h][2] < Retries
  THEN Goto(h, "connect") /\ conn' = [conn EXCEPT ![h][2] = @ + 1]
  ELSE Goto(h, "done") /\ UNCHANGED conn

AgentListens == up /\ port = pid

\* adb takes the connection and passes it on to the agent.
Connect(h) ==
  /\ pc[h] = "connect" /\ AgentListens /\ Len(backlog) < Backlog
  /\ host' = [host EXCEPT ![conn[h]] = TRUE]
  /\ agent' = [agent EXCEPT ![conn[h]] = TRUE]
  /\ backlog' = Append(backlog, conn[h])
  /\ Goto(h, "hello")
  /\ UNCHANGED <<up, at, session, sink, waiting, script, emitted, inward, outward, chan, pump, helloAt, pid, port, cmd, conn, lost, call, got, stalled>>

\* No forward, or adb closes at once because nobody listens; or the backlog is
\* full and no Hello comes.
ConnectFails(h) ==
  /\ pc[h] = "connect" /\ (~AgentListens \/ Len(backlog) >= Backlog)
  /\ NextAttempt(h)
  /\ UNCHANGED <<svars, pid, port, cmd, lost, call, got, stalled>>

\* 250 or 750 ms without a Hello, or the end of the stream: the connection is
\* dropped, the agent still has it.
HelloFails(h) ==
  /\ pc[h] = "hello"
  /\ HangUp(h) /\ NextAttempt(h)
  /\ UNCHANGED <<agentVars, emitted, agent, inward, chan, pump, helloAt, pid, port, cmd, lost, call, got, stalled>>

-----------------------------------------------------------------------------
(* read_msg *)

Listens(h) == pc[h] \in {"listen", "reply"}
Arrived(h) == outward[conn[h]] # << >> /\ ~lost[h]
Taken(h) == outward' = [outward EXCEPT ![conn[h]] = Tail(@)]

\* read_exact of the length, read_exact of the rest, and decode.
Received(h, f) == /\ f = Head(outward[conn[h]])
                  /\ got' = [got EXCEPT ![conn[h]] = Append(@, f)]

\* The socket's read timeout falls into a frame: what was read of it is gone.
\* While it waits for the Hello the host drops the connection instead.
Stall(h) ==
  /\ Listens(h) /\ Arrived(h) /\ Cardinality(stalled) < MaxStalls
  /\ lost' = [lost EXCEPT ![h] = TRUE]
  /\ stalled' = stalled \cup {conn[h]}
  /\ UNCHANGED <<svars, pid, port, cmd, pc, conn, call, got>>

\* The rest of a frame is taken for a length: the host fails on an unknown type
\* or swallows frame after frame until a timeout finds the stream empty.
ReadGarbage(h) ==
  /\ Listens(h) /\ lost[h]
  /\ \/ outward[conn[h]] # << >> /\ Taken(h) /\ UNCHANGED <<pc, host, lost>>
     \/ outward[conn[h]] # << >> /\ End(h) /\ UNCHANGED lost
     \/ /\ outward[conn[h]] = << >>
        /\ lost' = [lost EXCEPT ![h] = FALSE]
        /\ UNCHANGED <<outward, pc, host>>
  /\ UNCHANGED <<agentVars, emitted, agent, inward, chan, pump, helloAt, pid, port, cmd, conn, call, got, stalled>>

\* The agent's end is closed and everything is read.
ReadEof(h) ==
  /\ Listens(h) /\ outward[conn[h]] = << >> /\ ~agent[conn[h]]
  /\ End(h)
  /\ UNCHANGED <<agentVars, emitted, agent, inward, chan, pump, helloAt, pid, port, cmd, conn, lost, call, got, stalled>>

-----------------------------------------------------------------------------
(* A session *)

SendFrame(h, f) == inward' = [inward EXCEPT ![conn[h]] = Append(@, f)]

HelloArrives(h) ==
  /\ pc[h] = "hello" /\ Arrived(h) /\ Received(h, Hello) /\ Taken(h)
  /\ Goto(h, "listen")
  /\ IF cmd[h].loads THEN SendFrame(h, Frame("ScriptLoad", 0)) ELSE UNCHANGED inward
  /\ UNCHANGED <<agentVars, emitted, host, agent, chan, pump, helloAt, pid, port, cmd, conn, lost, call, stalled>>

\* The next RpcCall, or the report.
NextCall(h) ==
  IF call[h] < cmd[h].calls
  THEN /\ call' = [call EXCEPT ![h] = @ + 1]
       /\ SendFrame(h, Frame("RpcCall", call[h] + 1))
       /\ Goto(h, "reply") /\ Taken(h) /\ UNCHANGED host
  ELSE End(h) /\ UNCHANGED <<call, inward>>

\* A ping is answered, other frames are printed or counted.
Hears(h, f) ==
  /\ IF f.type = "Send" /\ cmd[h].calls > 0 THEN SendFrame(h, Frame("Post", f.n))
                                            ELSE UNCHANGED inward
  /\ Taken(h) /\ UNCHANGED <<pc, call, host>>

\* Only a message can be what the command waits for: expect-send, stress-done,
\* comm-done.
Awaited(f) == f.type = "Send"

Listen(h) ==
  /\ pc[h] = "listen" /\ Arrived(h)
  /\ \E f \in {Head(outward[conn[h]])} :
       /\ Received(h, f)
       /\ Hears(h, f) \/ (Awaited(f) /\ NextCall(h))
  /\ UNCHANGED <<agentVars, emitted, agent, chan, pump, helloAt, pid, port, cmd, conn, lost, stalled>>

\* Any reply is taken for the answer of the last call; an error ends the host.
AwaitReply(h) ==
  /\ pc[h] = "reply" /\ Arrived(h)
  /\ \E f \in {Head(outward[conn[h]])} :
       /\ Received(h, f)
       /\ IF f.type = "RpcReply" THEN NextCall(h) \/ (End(h) /\ UNCHANGED <<call, inward>>)
          ELSE Taken(h) /\ UNCHANGED <<pc, call, host, inward>>
  /\ UNCHANGED <<agentVars, emitted, agent, chan, pump, helloAt, pid, port, cmd, conn, lost, stalled>>

\* Mutant: the call that took too long is skipped.
TimesOutNext(h) ==
  /\ cmd[h].timed
  /\ \/ pc[h] = "listen" /\ End(h) /\ UNCHANGED <<call, inward>>
     \/ /\ pc[h] = "reply" /\ call[h] < cmd[h].calls
        /\ call' = [call EXCEPT ![h] = @ + 1]
        /\ SendFrame(h, Frame("RpcCall", call[h] + 1))
        /\ UNCHANGED <<pc, host, outward>>
  /\ UNCHANGED <<agentVars, emitted, agent, chan, pump, helloAt, pid, port, cmd, conn, lost, got, stalled>>
\* max_wait_secs, or 5 s for a reply; looked at between two frames.
TimesOut(h) ==
  /\ cmd[h].timed /\ Listens(h)
  /\ End(h)
  /\ UNCHANGED <<agentVars, emitted, agent, inward, chan, pump, helloAt, pid, port, cmd, conn, lost, call, got, stalled>>

\* Ctrl-C.
Killed(h) ==
  /\ Listens(h)
  /\ End(h)
  /\ UNCHANGED <<agentVars, emitted, agent, inward, chan, pump, helloAt, pid, port, cmd, conn, lost, call, got, stalled>>

-----------------------------------------------------------------------------

HostStep(h) ==
  \/ RestartPackage(h) \/ Inject(h) \/ Forward(h)
  \/ Connect(h) \/ ConnectFails(h) \/ HelloFails(h) \/ HelloArrives(h)
  \/ ReadGarbage(h) \/ ReadEof(h)
  \/ Listen(h) \/ AwaitReply(h) \/ TimesOut(h)

Agent(A) == A /\ UNCHANGED <<pid, port, hostVars, got, stalled>>
Progress == Agent(AgentStep) \/ \E h \in Hosts : HostStep(h)
Next == Progress \/ Agent(Evaluated) \/ Agent(Emit) \/ \E h \in Hosts : Stall(h) \/ Killed(h)

\* Threads and processes run and every timeout fires; a script need not end or
\* emit anything, nobody need press Ctrl-C.  All of Progress is finite: WF of it
\* says that no thread stops for good with something to do.
Spec == Init /\ [][Next]_vars /\ WF_vars(Progress)

-----------------------------------------------------------------------------

\* The numbers of the frames of type t in s, and that they rise along s.
Numbers(s, t) == {s[i].n : i \in {j \in DOMAIN s : s[j].type = t}}
Rising(s, t) == \A i, j \in DOMAIN s :
  i < j /\ s[i].type = t /\ s[j].type = t => s[i].n < s[j].n
Heard(c) == Numbers(got[c], "Send")

\* A host hears Hello first, and then what scripts emitted in the order they
\* emitted it, nothing twice; on a connection without a timeout in the middle of
\* a frame nothing is left out between two messages, nor between the writing of
\* the Hello and the first of them.
HearsInOrder ==
  \A c \in Conns :
    /\ got[c] # << >> => Head(got[c]) = Hello
    /\ Rising(got[c], "Send")
    /\ c \notin stalled =>
         \A m \in Heard(c) :
           /\ helloAt[c] + 1 .. m \subseteq Heard(c)
           /\ \A l \in Heard(c) : l .. m \subseteq Heard(c)

\* The k-th reply a host reads belongs to its k-th call: no reply of an earlier
\* call is taken for that of a later one, although call_id is not compared.
RepliesMatchCalls ==
  \A c \in Conns :
    /\ Rising(got[c], "RpcReply")
    /\ \E k \in 0 .. call[HostOf(c)] : Numbers(got[c], "RpcReply") = 1 .. k

\* A session whose host is gone ends: connections that wait are served, unless a
\* host holds the session it has.
SessionsEnd == []<>(backlog = << >> \/ (session # NoConn /\ host[session]))

\* Whatever scripts emit from the Hello on comes to the host that got the Hello,
\* unless it hangs up or a timeout hits it in the middle of a frame.
Delivered ==
  \A c \in Conns :
    []<>(~host[c] \/ c \in stalled \/ (pump[c] # "none" => helloAt[c] + 1 .. emitted \subseteq Heard(c)))
=============================================================================
