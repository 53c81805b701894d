---------------------------- MODULE SessionProofs ----------------------------
(***************************************************************************)
(* Proofs that a host hears what its session sent, in order, and reads no  *)
(* reply but that of its own call, for any number of hosts, of frames they *)
(* send and of times an agent restarts.                                    *)
(***************************************************************************)
EXTENDS HostCli, Integers, SequenceTheorems, TLAPS

FrameTypes == {"Hello", "Send", "RpcReply", "Log", "ScriptLoad", "Post", "RpcCall", "none"}
Frames == [type : FrameTypes, n : Nat]
Held == {"connect", "hello", "listen", "reply"}
Early == {"start", "inject", "forward"}

AgentType ==
  /\ at \in {"accept", "sink", "hello", "read", "wait"}
  /\ session \in Conns \cup {NoConn} /\ sink \in Conns \cup {NoConn}
  /\ waiting \in Frames /\ emitted \in Nat /\ backlog \in Seq(Conns)
WireType ==
  /\ host \in [Conns -> BOOLEAN] /\ agent \in [Conns -> BOOLEAN]
  /\ inward \in [Conns -> Seq(Frames)] /\ outward \in [Conns -> Seq(Frames)]
  /\ chan \in [Conns -> Seq(Frames)] /\ got \in [Conns -> Seq(Frames)]
  /\ pump \in [Conns -> {"none", "runs", "ended"}] /\ helloAt \in [Conns -> Nat]
HostType ==
  /\ cmd \in CommandLines
  /\ pc \in [Hosts -> Early \cup Held \cup {"done"}]
  /\ conn \in [Hosts -> Conns \cup {NoConn}]
  /\ lost \in [Hosts -> BOOLEAN] /\ call \in [Hosts -> Nat]
SessionType == AgentType /\ WireType /\ HostType

-----------------------------------------------------------------------------
\* Numbers of a sequence of frames.

LEMMA NumbersEmpty ==
  ASSUME NEW t
  PROVE  Numbers(<< >>, t) = {} /\ Rising(<< >>, t)
BY DEF Numbers, Rising

LEMMA NumbersNat ==
  ASSUME NEW s \in Seq(Frames), NEW t
  PROVE  Numbers(s, t) \subseteq Nat
<1>1. \A i \in DOMAIN s : s[i] \in Frames
  BY LenProperties
<1> QED
  BY <1>1 DEF Numbers, Frames

LEMMA NumbersAppend ==
  ASSUME NEW s \in Seq(Frames), NEW f \in Frames, NEW t
  PROVE  /\ Append(s, f) \in Seq(Frames)
         /\ Numbers(Append(s, f), t) = Numbers(s, t) \cup (IF f.type = t THEN {f.n} ELSE {})
         /\ Rising(s, t) /\ (f.type = t => \A m \in Numbers(s, t) : m < f.n)
              => Rising(Append(s, f), t)
<1> DEFINE u == Append(s, f)
<1>1. /\ u \in Seq(Frames) /\ DOMAIN u = DOMAIN s \cup {Len(s) + 1}
      /\ u[Len(s) + 1] = f /\ \A i \in DOMAIN s : u[i] = s[i]
      /\ DOMAIN s = 1 .. Len(s) /\ Len(s) \in Nat
  BY AppendProperties, LenProperties
<1> HIDE DEF u
<1>2. Numbers(u, t) = Numbers(s, t) \cup (IF f.type = t THEN {f.n} ELSE {})
  BY <1>1 DEF Numbers
<1>3. ASSUME Rising(s, t), f.type = t => \A m \in Numbers(s, t) : m < f.n
      PROVE  Rising(u, t)
  <2> SUFFICES ASSUME NEW i \in DOMAIN u, NEW j \in DOMAIN u, i < j, u[i].type = t, u[j].type = t
               PROVE  u[i].n < u[j].n
    BY DEF Rising
  <2>1. i \in DOMAIN s
    BY <1>1
  <2>2. CASE j \in DOMAIN s
    BY <1>1, <1>3, <2>1, <2>2 DEF Rising
  <2>3. CASE j = Len(s) + 1
    BY <1>1, <1>3, <2>1, <2>3 DEF Numbers
  <2> QED
    BY <1>1, <2>2, <2>3
<1> QED
  BY <1>1, <1>2, <1>3 DEF u

LEMMA NumbersTail ==
  ASSUME NEW s \in Seq(Frames), s # << >>, NEW t
  PROVE  /\ Tail(s) \in Seq(Frames) /\ Head(s) \in Frames
         /\ Numbers(s, t) = Numbers(Tail(s), t) \cup (IF Head(s).type = t THEN {Head(s).n} ELSE {})
         /\ Rising(s, t) => /\ Rising(Tail(s), t)
                            /\ Head(s).type = t => \A m \in Numbers(Tail(s), t) : Head(s).n < m
<1> DEFINE u == Tail(s)
<1>1. /\ u \in Seq(Frames) /\ Head(s) \in Frames /\ Head(s) = s[1]
      /\ Len(s) \in Nat \ {0} /\ Len(u) = Len(s) - 1
      /\ DOMAIN s = 1 .. Len(s) /\ DOMAIN u = 1 .. Len(u)
      /\ \A i \in 1 .. Len(u) : u[i] = s[i + 1]
  BY HeadTailProperties, LenProperties, EmptySeq
<1> HIDE DEF u
<1>2. \A j \in DOMAIN s : j = 1 \/ (j - 1 \in DOMAIN u /\ u[j - 1] = s[j])
  BY <1>1
<1>3. \A i \in DOMAIN u : i + 1 \in DOMAIN s
  BY <1>1
<1>4. Numbers(s, t) = Numbers(u, t) \cup (IF Head(s).type = t THEN {Head(s).n} ELSE {})
  <2>1. ASSUME NEW m \in Numbers(s, t)
        PROVE  m \in Numbers(u, t) \cup (IF Head(s).type = t THEN {Head(s).n} ELSE {})
    BY <1>1, <1>2 DEF Numbers
  <2>2. ASSUME NEW m \in Numbers(u, t) PROVE m \in Numbers(s, t)
    BY <1>1, <1>3 DEF Numbers
  <2>3. Head(s).type = t => Head(s).n \in Numbers(s, t)
    BY <1>1 DEF Numbers
  <2> QED
    BY <2>1, <2>2, <2>3
<1>5. ASSUME Rising(s, t) PROVE Rising(u, t)
  <2> SUFFICES ASSUME NEW i \in DOMAIN u, NEW j \in DOMAIN u, i < j, u[i].type = t, u[j].type = t
               PROVE  u[i].n < u[j].n
    BY DEF Rising
  <2>1. u[i] = s[i + 1] /\ u[j] = s[j + 1] /\ i + 1 \in DOMAIN s /\ j + 1 \in DOMAIN s /\ i + 1 < j + 1
    BY <1>1, <1>3
  <2> QED
    BY <1>5, <2>1 DEF Rising
<1>6. ASSUME Rising(s, t), Head(s).type = t, NEW m \in Numbers(u, t)
      PROVE  Head(s).n < m
  <2>1. PICK i \in DOMAIN u : u[i].type = t /\ m = u[i].n
    BY DEF Numbers
  <2>2. u[i] = s[i + 1] /\ i + 1 \in DOMAIN s /\ 1 \in DOMAIN s /\ 1 < i + 1
    BY <1>1, <1>3
  <2> QED
    BY <1>1, <1>6, <2>1, <2>2 DEF Rising
<1> QED
  BY <1>1, <1>4, <1>5, <1>6 DEF u

-----------------------------------------------------------------------------
\* The type of the state.

LEMMA FrameTypesOK ==
  ASSUME NEW t \in FrameTypes, NEW n \in Nat
  PROVE  Frame(t, n) \in Frames /\ Frame(t, n).type = t /\ Frame(t, n).n = n
BY DEF Frame, Frames

LEMMA NamedFrames ==
  /\ Hello \in Frames /\ Hello.type = "Hello"
  /\ None \in Frames /\ None.type = "none"
BY DEF Hello, None, Frame, Frames, FrameTypes

LEMMA EmptyFrames == << >> \in Seq(Frames) /\ << >> \in Seq(Conns)
BY EmptySeq

LEMMA SendOnFacts ==
  ASSUME WireType, NEW c \in Conns, NEW f \in Frames, SendOn(c, f)
  PROVE  /\ chan' \in [Conns -> Seq(Frames)]
         /\ \A d \in Conns : d # c => chan'[d] = chan[d]
         /\ chan'[c] = IF pump[c] = "ended" THEN chan[c] ELSE Append(chan[c], f)
<1>1. Append(chan[c], f) \in Seq(Frames)
  BY AppendProperties DEF WireType
<1> QED
  BY <1>1 DEF SendOn, WireType

LEMMA WriteToFacts ==
  ASSUME WireType, NEW c \in Conns, NEW f \in Frames, WriteTo(c, f)
  PROVE  /\ outward' \in [Conns -> Seq(Frames)]
         /\ \A d \in Conns : d # c => outward'[d] = outward[d]
         /\ outward'[c] = IF host[c] THEN Append(outward[c], f) ELSE outward[c]
<1>1. Append(outward[c], f) \in Seq(Frames)
  BY AppendProperties DEF WireType
<1> QED
  BY <1>1 DEF WriteTo, WireType

LEMMA SendFrameFacts ==
  ASSUME WireType, NEW h \in Hosts, conn[h] \in Conns, NEW f \in Frames, SendFrame(h, f)
  PROVE  /\ inward' \in [Conns -> Seq(Frames)]
         /\ \A d \in Conns : d # conn[h] => inward'[d] = inward[d]
         /\ inward'[conn[h]] = Append(inward[conn[h]], f)
<1>1. Append(inward[conn[h]], f) \in Seq(Frames)
  BY AppendProperties DEF WireType
<1> QED
  BY <1>1 DEF SendFrame, WireType

LEMMA TakenFacts ==
  ASSUME WireType, NEW h \in Hosts, conn[h] \in Conns, outward[conn[h]] # << >>, Taken(h)
  PROVE  /\ outward' \in [Conns -> Seq(Frames)]
         /\ \A d \in Conns : d # conn[h] => outward'[d] = outward[d]
         /\ outward'[conn[h]] = Tail(outward[conn[h]])
<1>1. Tail(outward[conn[h]]) \in Seq(Frames)
  BY HeadTailProperties DEF WireType
<1> QED
  BY <1>1 DEF Taken, WireType

LEMMA ReceivedFacts ==
  ASSUME WireType, NEW h \in Hosts, conn[h] \in Conns, outward[conn[h]] # << >>,
         NEW f, Received(h, f)
  PROVE  /\ f = Head(outward[conn[h]]) /\ f \in Frames
         /\ got' \in [Conns -> Seq(Frames)]
         /\ \A d \in Conns : d # conn[h] => got'[d] = got[d]
         /\ got'[conn[h]] = Append(got[conn[h]], f)
<1>1. f \in Frames
  BY HeadTailProperties DEF WireType, Received
<1>2. Append(got[conn[h]], f) \in Seq(Frames)
  BY <1>1, AppendProperties DEF WireType
<1> QED
  BY <1>1, <1>2 DEF Received, WireType

LEMMA HangUpFacts ==
  ASSUME WireType, NEW h \in Hosts, conn[h] \in Conns, HangUp(h)
  PROVE  /\ outward' \in [Conns -> Seq(Frames)] /\ host' \in [Conns -> BOOLEAN]
         /\ \A d \in Conns : d # conn[h] => outward'[d] = outward[d] /\ host'[d] = host[d]
         /\ outward'[conn[h]] = << >> /\ host'[conn[h]] = FALSE
BY EmptyFrames DEF HangUp, WireType

LEMMA GotoFacts ==
  ASSUME HostType, NEW h \in Hosts, NEW p \in Early \cup Held \cup {"done"}, Goto(h, p)
  PROVE  /\ pc' \in [Hosts -> Early \cup Held \cup {"done"}] /\ pc'[h] = p
         /\ \A g \in Hosts : g # h => pc'[g] = pc[g]
BY DEF Goto, HostType

\* A host that has a connection, by its place.
ConnOfPlace ==
  \A h \in Hosts :
    /\ conn[h] = NoConn \/ (conn[h] \in Conns /\ HostOf(conn[h]) = h)
    /\ pc[h] \in Held => conn[h] # NoConn

LEMMA HeldConn ==
  ASSUME ConnOfPlace, NEW h \in Hosts, pc[h] \in Held
  PROVE  conn[h] \in Conns /\ HostOf(conn[h]) = h
BY DEF ConnOfPlace

LEMMA NextAttemptFacts ==
  ASSUME HostType, ConnOfPlace, NEW h \in Hosts, pc[h] \in Held, NextAttempt(h)
  PROVE  /\ pc' \in [Hosts -> Early \cup Held \cup {"done"}]
         /\ conn' \in [Hosts -> Conns \cup {NoConn}]
         /\ \A g \in Hosts : g # h => pc'[g] = pc[g] /\ conn'[g] = conn[g]
         /\ \/ pc'[h] = "done" /\ conn' = conn
            \/ /\ pc'[h] = "connect" /\ conn[h][2] < Retries
               /\ conn'[h] = <<h, conn[h][2] + 1>> /\ conn'[h] \in Conns
<1>1. conn[h] \in Conns /\ HostOf(conn[h]) = h
  BY HeldConn
<1>2. PICK k \in 1 .. Retries : conn[h] = <<h, k>>
  BY <1>1 DEF Conns, HostOf
<1>3. conn[h][2] = k
  BY <1>2
<1>4. CASE k < Retries
  <2>1. [conn[h] EXCEPT ![2] = @ + 1] = <<h, k + 1>>
    BY <1>2
  <2>2. <<h, k + 1>> \in Conns
    BY <1>4, SessionAssumption DEF Conns
  <2>3. conn' = [conn EXCEPT ![h] = <<h, k + 1>>]
    BY <1>3, <1>4, <2>1 DEF NextAttempt
  <2>4. Goto(h, "connect")
    BY <1>3, <1>4 DEF NextAttempt
  <2> QED
    BY <1>3, <1>4, <2>2, <2>3, <2>4, GotoFacts DEF HostType, Held
<1>5. CASE ~ (k < Retries)
  BY <1>3, <1>5, GotoFacts DEF NextAttempt, HostType
<1> QED
  BY <1>4, <1>5

LEMMA CallsNat ==
  ASSUME HostType, NEW h \in Hosts
  PROVE  cmd[h].calls \in Nat
<1>1. cmd \in [Hosts -> [restart : BOOLEAN, inject : BOOLEAN, forwards : BOOLEAN,
                         loads : BOOLEAN, timed : BOOLEAN, calls : Nat]]
  BY CommandAssumption DEF HostType
<1> QED
  BY <1>1

LEMMA AgentTypes ==
  ASSUME SessionType, UNCHANGED <<hostVars, got>>, session \in Conns \/ at \in {"accept"},
         \/ Accept \/ SetOutbound \/ WriteHello \/ ReadInbound \/ ReadFails \/ JobAnswered
         \/ Evaluated \/ Emit \/ \E c \in Conns : Pump(c)
  PROVE  SessionType'
<1> USE DEF SessionType
<1>0. HostType'
  BY DEF HostType, hostVars
<1>1. CASE Accept
  <2>1. Head(backlog) \in Conns /\ Tail(backlog) \in Seq(Conns)
    BY <1>1, HeadTailProperties DEF Accept, AgentType
  <2> QED
    BY <1>0, <1>1, <2>1 DEF Accept, AgentType, WireType, wires
<1>2. CASE SetOutbound
  BY <1>0, <1>2 DEF SetOutbound, AgentType, WireType, wires
<1>3. CASE WriteHello
  <2>1. session \in Conns
    BY <1>3 DEF WriteHello
  <2>2. CASE /\ at' = "read" /\ WriteTo(session, Hello)
             /\ pump' = [pump EXCEPT ![session] = "runs"]
             /\ helloAt' = [helloAt EXCEPT ![session] = emitted]
             /\ UNCHANGED <<session, waiting, agent>>
    BY <1>0, <1>3, <2>1, <2>2, WriteToFacts, NamedFrames DEF WriteHello, AgentType, WireType
  <2>3. CASE EndSession /\ UNCHANGED <<outward, pump, helloAt>>
    BY <1>0, <1>3, <2>1, <2>3, NamedFrames DEF WriteHello, EndSession, AgentType, WireType
  <2> QED
    BY <1>3, <2>2, <2>3 DEF WriteHello
<1>4. CASE ReadInbound
  <2>1. session \in Conns
    BY <1>4 DEF ReadInbound
  <2>2. Head(inward[session]) \in Frames /\ Tail(inward[session]) \in Seq(Frames)
    BY <1>4, <2>1, HeadTailProperties DEF ReadInbound, WireType
  <2>3. AgentType'
    BY <1>4, <2>2 DEF ReadInbound, AgentType
  <2>4. WireType'
    BY <1>4, <2>1, <2>2 DEF ReadInbound, WireType
  <2> QED
    BY <1>0, <2>3, <2>4
<1>5. CASE ReadFails
  BY <1>0, <1>5, NamedFrames DEF ReadFails, EndSession, AgentType, WireType
<1>6. CASE JobAnswered
  <2>1. session \in Conns
    BY <1>6 DEF JobAnswered
  <2>2. InboundAnswer(waiting) \in Frames
    BY FrameTypesOK DEF InboundAnswer, AgentType, Frames, FrameTypes
  <2>3. chan' \in [Conns -> Seq(Frames)]
    BY <1>6, <2>1, <2>2, SendOnFacts DEF JobAnswered, WireType
  <2> QED
    BY <1>0, <1>6, <2>1, <2>3, NamedFrames DEF JobAnswered, EndSession, AgentType, WireType
<1>7. CASE Evaluated
  BY <1>0, <1>7 DEF Evaluated, AgentType, WireType, wires
<1>8. CASE Emit
  <2>1. sink \in Conns
    BY <1>8 DEF Emit, AgentType
  <2>2. Frame("Send", emitted + 1) \in Frames
    BY FrameTypesOK DEF AgentType, FrameTypes
  <2>3. chan' \in [Conns -> Seq(Frames)]
    BY <1>8, <2>1, <2>2, SendOnFacts DEF Emit
  <2> QED
    BY <1>0, <1>8, <2>3 DEF Emit, agentVars, AgentType, WireType
<1>9. ASSUME NEW c \in Conns, Pump(c) PROVE SessionType'
  <2>1. AgentType'
    BY <1>9 DEF Pump, agentVars, AgentType
  <2>2. CASE /\ chan[c] # << >> /\ chan' = [chan EXCEPT ![c] = Tail(@)]
             /\ WriteTo(c, Head(chan[c])) /\ UNCHANGED pump
    <3>1. Head(chan[c]) \in Frames /\ Tail(chan[c]) \in Seq(Frames)
      BY <2>2, HeadTailProperties DEF WireType
    <3> QED
      BY <1>0, <1>9, <2>1, <2>2, <3>1, WriteToFacts DEF Pump, WireType
  <2>3. CASE /\ pump' = [pump EXCEPT ![c] = "ended"]
             /\ chan' = [chan EXCEPT ![c] = << >>] /\ UNCHANGED outward
    BY <1>0, <1>9, <2>1, <2>3, EmptyFrames DEF Pump, WireType
  <2>4. CASE pump' = [pump EXCEPT ![c] = "ended"] /\ UNCHANGED <<chan, outward>>
    BY <1>0, <1>9, <2>1, <2>4 DEF Pump, WireType
  <2> QED
    BY <1>9, <2>2, <2>3, <2>4 DEF Pump
<1> QED
  BY <1>1, <1>2, <1>3, <1>4, <1>5, <1>6, <1>7, <1>8, <1>9

LEMMA BeforeTypes ==
  ASSUME SessionType, ConnOfPlace, NEW h \in Hosts,
         \/ RestartPackage(h) \/ Inject(h) \/ Forward(h) \/ Connect(h) \/ ConnectFails(h)
         \/ HelloFails(h)
  PROVE  SessionType'
<1> USE DEF SessionType, Early, Held
<1>1. CASE RestartPackage(h)
  <2>1. AgentType' /\ WireType'
    BY <1>1, NamedFrames, EmptyFrames DEF RestartPackage, AgentDies, AgentType, WireType
  <2> QED
    BY <1>1, <2>1, GotoFacts DEF RestartPackage, HostType
<1>2. CASE Inject(h)
  <2>1. AgentType' /\ WireType'
    BY <1>2 DEF Inject, wires, AgentType, WireType
  <2> QED
    BY <1>2, <2>1, GotoFacts DEF Inject, HostType
<1>3. CASE Forward(h)
  <2>1. AgentType' /\ WireType'
    BY <1>3 DEF Forward, svars, agentVars, wires, AgentType, WireType
  <2>2. <<h, 1>> \in Conns
    BY SessionAssumption DEF Conns
  <2> QED
    BY <1>3, <2>1, <2>2, GotoFacts DEF Forward, HostType
<1>4. CASE Connect(h)
  <2>1. conn[h] \in Conns
    BY <1>4, HeldConn DEF Connect
  <2>2. Append(backlog, conn[h]) \in Seq(Conns)
    BY <2>1, AppendProperties DEF AgentType
  <2>3. AgentType' /\ WireType'
    BY <1>4, <2>2 DEF Connect, AgentType, WireType
  <2> QED
    BY <1>4, <2>3, GotoFacts DEF Connect, HostType
<1>5. CASE ConnectFails(h)
  <2>1. AgentType' /\ WireType'
    BY <1>5 DEF ConnectFails, svars, agentVars, wires, AgentType, WireType
  <2> QED
    BY <1>5, <2>1, NextAttemptFacts DEF ConnectFails, HostType
<1>6. CASE HelloFails(h)
  <2>1. AgentType'
    BY <1>6 DEF HelloFails, agentVars, AgentType
  <2>2. WireType'
    BY <1>6, HangUpFacts, HeldConn DEF HelloFails, WireType
  <2> QED
    BY <1>6, <2>1, <2>2, NextAttemptFacts DEF HelloFails, HostType
<1> QED
  BY <1>1, <1>2, <1>3, <1>4, <1>5, <1>6

\* The next call of a host, if it does not end.
LEMMA CallsOn ==
  ASSUME SessionType, NEW h \in Hosts, pc[h] \in {"listen", "reply"}, conn[h] \in Conns,
         outward[conn[h]] # << >>, NextCall(h)
  PROVE  \/ /\ call' = [call EXCEPT ![h] = call[h] + 1]
            /\ SendFrame(h, Frame("RpcCall", call[h] + 1))
            /\ Goto(h, "reply") /\ Taken(h) /\ UNCHANGED host
         \/ End(h) /\ UNCHANGED <<call, inward>>
BY DEF NextCall

LEMMA ListenTypes ==
  ASSUME SessionType, ConnOfPlace, NEW h \in Hosts,
         \/ HelloArrives(h) \/ Stall(h) \/ ReadGarbage(h) \/ ReadEof(h)
         \/ Listen(h) \/ AwaitReply(h) \/ TimesOut(h) \/ Killed(h)
  PROVE  SessionType'
<1> USE DEF SessionType
<1>1. pc[h] \in Held /\ conn[h] \in Conns
  <2>1. pc[h] \in Held
    BY DEF HelloArrives, Stall, ReadGarbage, ReadEof, Listen, AwaitReply, TimesOut, Killed, Listens, Held
  <2> QED
    BY <2>1, HeldConn
<1>2. AgentType'
  BY DEF HelloArrives, Stall, ReadGarbage, ReadEof, Listen, AwaitReply, TimesOut, Killed,
     svars, agentVars, AgentType
<1>3. "listen" \in Held /\ "reply" \in Held
  BY DEF Held
<1>4. ASSUME End(h) PROVE /\ outward' \in [Conns -> Seq(Frames)] /\ host' \in [Conns -> BOOLEAN]
                          /\ pc' \in [Hosts -> Early \cup Held \cup {"done"}]
  BY <1>1, <1>4, HangUpFacts, GotoFacts DEF End
<1>5. CASE HelloArrives(h)
  <2>1. outward[conn[h]] # << >>
    BY <1>5 DEF HelloArrives, Arrived
  <2>2. Frame("ScriptLoad", 0) \in Frames
    BY FrameTypesOK DEF FrameTypes
  <2>3. inward' \in [Conns -> Seq(Frames)]
    BY <1>1, <1>5, <2>2, SendFrameFacts DEF HelloArrives, WireType
  <2>4. WireType'
    BY <1>1, <1>5, <2>1, <2>3, TakenFacts, ReceivedFacts DEF HelloArrives, WireType
  <2> QED
    BY <1>2, <1>3, <1>5, <2>4, GotoFacts DEF HelloArrives, HostType
<1>6. CASE Stall(h)
  BY <1>2, <1>6 DEF Stall, svars, wires, WireType, HostType
<1>7. CASE ReadGarbage(h)
  <2>1. outward' \in [Conns -> Seq(Frames)] /\ host' \in [Conns -> BOOLEAN]
        /\ pc' \in [Hosts -> Early \cup Held \cup {"done"}]
    BY <1>1, <1>4, <1>7, TakenFacts DEF ReadGarbage, WireType, HostType
  <2> QED
    BY <1>2, <1>7, <2>1 DEF ReadGarbage, WireType, HostType
<1>8. CASE ReadEof(h) \/ TimesOut(h) \/ Killed(h)
  BY <1>2, <1>4, <1>8 DEF ReadEof, TimesOut, Killed, WireType, HostType
<1>9. CASE Listen(h) \/ AwaitReply(h)
  <2>1. outward[conn[h]] # << >> /\ pc[h] \in {"listen", "reply"}
    BY <1>9 DEF Listen, AwaitReply, Arrived
  <2>2. PICK f : Received(h, f) /\
          \/ NextCall(h)
          \/ End(h) /\ UNCHANGED <<call, inward>>
          \/ /\ SendFrame(h, Frame("Post", f.n)) \/ UNCHANGED inward
             /\ Taken(h) /\ UNCHANGED <<pc, call, host>>
    BY <1>9 DEF Listen, AwaitReply, Hears
  <2>3. f \in Frames /\ got' \in [Conns -> Seq(Frames)]
    BY <1>1, <2>1, <2>2, ReceivedFacts
  <2>4. call[h] + 1 \in Nat
    BY DEF HostType
  <2>5. Frame("Post", f.n) \in Frames /\ Frame("RpcCall", call[h] + 1) \in Frames
    BY <2>3, <2>4, FrameTypesOK DEF Frames, FrameTypes
  <2>6. /\ outward' \in [Conns -> Seq(Frames)] /\ host' \in [Conns -> BOOLEAN]
        /\ pc' \in [Hosts -> Early \cup Held \cup {"done"}]
        /\ inward' \in [Conns -> Seq(Frames)] /\ call' \in [Hosts -> Nat]
    <3>1. CASE End(h) /\ UNCHANGED <<call, inward>>
      BY <1>4, <3>1 DEF WireType, HostType
    <3>2. CASE /\ SendFrame(h, Frame("Post", f.n)) \/ UNCHANGED inward
               /\ Taken(h) /\ UNCHANGED <<pc, call, host>>
      BY <1>1, <2>1, <2>5, <3>2, SendFrameFacts, TakenFacts DEF WireType, HostType
    <3>3. CASE /\ call' = [call EXCEPT ![h] = call[h] + 1]
               /\ SendFrame(h, Frame("RpcCall", call[h] + 1))
               /\ Goto(h, "reply") /\ Taken(h) /\ UNCHANGED host
      BY <1>1, <1>3, <2>1, <2>4, <2>5, <3>3, SendFrameFacts, TakenFacts, GotoFacts DEF WireType, HostType
    <3> QED
      BY <1>1, <2>1, <2>2, <3>1, <3>2, <3>3, CallsOn
  <2> QED
    BY <1>2, <1>9, <2>3, <2>6 DEF Listen, AwaitReply, WireType, HostType
<1> QED
  BY <1>5, <1>6, <1>7, <1>8, <1>9

-----------------------------------------------------------------------------
\* Where connections are.

HostOk(h) ==
  /\ pc[h] \in Early => conn[h] = NoConn
  /\ pc[h] \in Early \cup {"connect", "hello", "listen"} => call[h] = 0
  /\ pc[h] \in Early \cup {"connect", "hello"} => ~ lost[h]
  /\ lost[h] => conn[h] \in stalled
  /\ pc[h] \in {"listen", "reply"} => got[conn[h]] # << >>
  /\ pc[h] = "hello" => got[conn[h]] = << >>
ConnInv == ConnOfPlace /\ \A h \in Hosts : HostOk(h)

\* Nothing has happened on c yet, and it was not made yet.
Blank(c) == /\ pump[c] = "none" /\ chan[c] = << >> /\ outward[c] = << >> /\ got[c] = << >>
            /\ c # sink
Unused(c) ==
  \/ conn[HostOf(c)] = NoConn \/ conn[HostOf(c)][2] < c[2]
  \/ c = conn[HostOf(c)] /\ pc[HostOf(c)] = "connect"
AtInv ==
  /\ at = "accept" <=> session = NoConn
  /\ at # "wait" => waiting = None
  /\ at = "sink" => Blank(session)
  /\ at = "hello" => sink = session /\ pump[session] = "none"
  /\ at \in {"read", "wait"} => pump[session] # "none"
QueueInv ==
  /\ \A i \in DOMAIN backlog : Blank(backlog[i]) /\ backlog[i] # session
  /\ \A i, j \in DOMAIN backlog : i # j => backlog[i] # backlog[j]
FreshInv ==
  /\ \A c \in Conns : Unused(c) =>
       Blank(c) /\ c # session /\ ~ host[c] /\ \A i \in DOMAIN backlog : backlog[i] # c
  /\ QueueInv /\ AtInv
  /\ \A c \in Conns : pump[c] = "none" => outward[c] = << >> /\ got[c] = << >>

LEMMA FreshKeeps ==
  ASSUME SessionType, FreshInv, UNCHANGED backlog, session' \in {session, NoConn}, AtInv',
         \A c \in Conns : Blank(c) => Blank(c)',
         \A c \in Conns : Unused(c)' => Unused(c) /\ (host'[c] => host[c]),
         \A c \in Conns : pump'[c] = "none" =>
           pump[c] = "none" /\ (outward[c] = << >> => outward'[c] = << >>)
           /\ (got[c] = << >> /\ outward[c] = << >> => got'[c] = << >>)
  PROVE  FreshInv'
<1>1. \A i \in DOMAIN backlog : backlog[i] \in Conns /\ backlog[i] # NoConn
  <2>1. NoConn \notin Conns
    BY SessionAssumption DEF Conns
  <2> QED
    BY <2>1, LenProperties DEF SessionType, AgentType
<1>2. QueueInv'
  BY <1>1 DEF FreshInv, QueueInv
<1>3. \A c \in Conns : Unused(c)' =>
        Blank(c)' /\ c # session' /\ ~ host'[c] /\ \A i \in DOMAIN backlog' : backlog'[i] # c
  <2>1. NoConn \notin Conns
    BY SessionAssumption DEF Conns
  <2> QED
    BY <2>1 DEF FreshInv
<1>4. \A c \in Conns : pump'[c] = "none" => outward'[c] = << >> /\ got'[c] = << >>
  BY DEF FreshInv
<1> QED
  BY <1>2, <1>3, <1>4 DEF FreshInv

LEMMA ConnsDiffer ==
  ASSUME ConnOfPlace, NEW g \in Hosts, NEW h \in Hosts, g # h, conn[h] \in Conns
  PROVE  conn[g] # conn[h]
BY SessionAssumption DEF ConnOfPlace, Conns

LEMMA UnusedSame ==
  ASSUME UNCHANGED <<pc, conn>>
  PROVE  \A c : Unused(c)' <=> Unused(c)
BY DEF Unused

\* A step of the agent leaves the hosts alone.
LEMMA AgentConn ==
  ASSUME ConnInv, UNCHANGED <<hostVars, got, stalled>>
  PROVE  ConnInv'
BY DEF ConnInv, ConnOfPlace, HostOk, hostVars

LEMMA AgentFresh ==
  ASSUME SessionType, SessionType', FreshInv, UNCHANGED <<hostVars, got, stalled>>,
         \/ Accept \/ SetOutbound \/ WriteHello \/ ReadInbound \/ ReadFails \/ JobAnswered
         \/ Evaluated \/ Emit \/ \E c \in Conns : Pump(c)
  PROVE  FreshInv'
<1> USE DEF SessionType
<1>0. NoConn \notin Conns
  BY SessionAssumption DEF Conns
<1>U. \A c \in Conns : Unused(c)' <=> Unused(c)
  BY UnusedSame DEF hostVars
<1>A. AtInv
  BY DEF FreshInv
<1>1. CASE Accept
  <2>1. backlog # << >> /\ session' = Head(backlog) /\ backlog' = Tail(backlog) /\ at' = "sink"
        /\ at = "accept" /\ UNCHANGED <<sink, waiting, wires>>
    BY <1>1 DEF Accept
  <2>2. /\ Head(backlog) \in Conns /\ Head(backlog) = backlog[1] /\ 1 \in DOMAIN backlog
        /\ \A i \in DOMAIN backlog' : i + 1 \in DOMAIN backlog /\ i + 1 # 1
                                      /\ backlog'[i] = backlog[i + 1]
        /\ \A i, j \in DOMAIN backlog' : i # j => i + 1 # j + 1
    <3>1. backlog \in Seq(Conns)
      BY DEF AgentType
    <3> QED
      BY <2>1, <3>1, HeadTailProperties, LenProperties, EmptySeq
  <2>3. \A c \in Conns : Blank(c)' <=> Blank(c)
    BY <1>1, <2>1 DEF Blank, wires
  <2>4. QueueInv'
    <3>1. \A i \in DOMAIN backlog' : backlog'[i] \in Conns
      BY LenProperties DEF AgentType
    <3> QED
      BY <2>1, <2>2, <2>3, <3>1 DEF FreshInv, QueueInv
  <2>5. Blank(session')
    BY <2>1, <2>2 DEF FreshInv, QueueInv
  <2>6. AtInv'
    BY <1>0, <1>A, <2>1, <2>2, <2>3, <2>5 DEF AtInv, Blank, wires
  <2>7. \A c \in Conns : Unused(c)' =>
          Blank(c)' /\ c # session' /\ ~ host'[c] /\ \A i \in DOMAIN backlog' : backlog'[i] # c
    BY <1>U, <2>1, <2>2, <2>3 DEF FreshInv, wires
  <2>8. \A c \in Conns : pump'[c] = "none" => outward'[c] = << >> /\ got'[c] = << >>
    BY <2>1 DEF FreshInv, wires
  <2> QED
    BY <2>4, <2>6, <2>7, <2>8 DEF FreshInv
<1>2. CASE SetOutbound
  <2>1. at = "sink" /\ at' = "hello" /\ sink' = session
        /\ UNCHANGED <<session, waiting, backlog, wires>>
    BY <1>2 DEF SetOutbound
  <2>2. session \in Conns
    BY <1>A, <2>1 DEF AtInv, AgentType
  <2>3. \A c \in Conns : c # session /\ Blank(c) => Blank(c)'
    BY <2>1 DEF Blank, wires
  <2>4. \A i \in DOMAIN backlog : backlog[i] \in Conns
    BY LenProperties DEF AgentType
  <2>5. QueueInv'
    BY <2>1, <2>3, <2>4 DEF FreshInv, QueueInv
  <2>6. AtInv'
    BY <1>A, <2>1, <2>2 DEF AtInv, Blank, wires
  <2>7. \A c \in Conns : Unused(c)' =>
          Blank(c)' /\ c # session' /\ ~ host'[c] /\ \A i \in DOMAIN backlog' : backlog'[i] # c
    BY <1>U, <2>1, <2>3 DEF FreshInv, wires
  <2>8. \A c \in Conns : pump'[c] = "none" => outward'[c] = << >> /\ got'[c] = << >>
    BY <2>1 DEF FreshInv, wires
  <2> QED
    BY <2>5, <2>6, <2>7, <2>8 DEF FreshInv
<1>3. CASE WriteHello
  <2>1. at = "hello" /\ session \in Conns /\ sink = session /\ UNCHANGED <<sink, backlog, host, chan>>
    BY <1>3, <1>A DEF WriteHello, AtInv, AgentType
  <2>2. CASE /\ at' = "read" /\ WriteTo(session, Hello)
             /\ pump' = [pump EXCEPT ![session] = "runs"]
             /\ UNCHANGED <<session, waiting>>
    <3>1. \A c \in Conns : c # session => outward'[c] = outward[c] /\ pump'[c] = pump[c]
      BY <2>1, <2>2, WriteToFacts, NamedFrames DEF WireType
    <3>2. pump'[session] = "runs"
      BY <2>1, <2>2 DEF WireType
    <3>3. AtInv'
      BY <1>A, <2>1, <2>2, <3>2 DEF AtInv
    <3>4. \A c \in Conns : Blank(c) => Blank(c)'
      BY <2>1, <3>1 DEF Blank
    <3>5. \A c \in Conns : pump'[c] = "none" => pump[c] = "none" /\ outward'[c] = outward[c] /\ got'[c] = got[c]
      BY <3>1, <3>2
    <3> QED
      BY <1>U, <2>1, <2>2, <3>3, <3>4, <3>5, FreshKeeps
  <2>3. CASE EndSession /\ UNCHANGED <<outward, pump>>
    <3>1. AtInv'
      BY <2>3 DEF EndSession, AtInv
    <3>2. \A c \in Conns : Blank(c) => Blank(c)'
      BY <2>1, <2>3 DEF Blank
    <3> QED
      BY <1>U, <2>1, <2>3, <3>1, <3>2, FreshKeeps DEF EndSession
  <2> QED
    BY <1>3, <2>2, <2>3 DEF WriteHello
<1>4. CASE ReadInbound
  <2>1. /\ at = "read" /\ UNCHANGED <<session, sink, backlog, host, outward, chan, pump>>
        /\ \/ UNCHANGED <<at, waiting>>
           \/ at' = "wait"
    BY <1>4 DEF ReadInbound
  <2>2. AtInv'
    BY <1>A, <2>1 DEF AtInv
  <2>3. \A c \in Conns : Blank(c) => Blank(c)'
    BY <2>1 DEF Blank
  <2> QED
    BY <1>U, <2>1, <2>2, <2>3, FreshKeeps
<1>5. CASE ReadFails
  <2>1. AtInv' /\ session' = NoConn
    BY <1>5 DEF ReadFails, EndSession, AtInv
  <2>2. \A c \in Conns : Blank(c) => Blank(c)'
    BY <1>5 DEF ReadFails, Blank
  <2> QED
    BY <1>5, <1>U, <2>1, <2>2, FreshKeeps DEF ReadFails
<1>6. CASE JobAnswered
  <2>1. at = "wait" /\ session \in Conns /\ UNCHANGED <<sink, backlog, host, outward, pump>>
    BY <1>6, <1>A DEF JobAnswered, AtInv, AgentType
  <2>2. AtInv' /\ session' \in {session, NoConn}
    BY <1>6, <1>A, <2>1 DEF JobAnswered, EndSession, AtInv
  <2>3. \A c \in Conns : c # session => chan'[c] = chan[c]
    <3>1. InboundAnswer(waiting) \in Frames
      BY FrameTypesOK DEF InboundAnswer, AgentType, Frames, FrameTypes
    <3> QED
      BY <1>6, <2>1, <3>1, SendOnFacts DEF JobAnswered, WireType
  <2>4. \A c \in Conns : Blank(c) => Blank(c)'
    BY <1>A, <2>1, <2>3 DEF Blank, AtInv
  <2> QED
    BY <1>U, <2>1, <2>2, <2>4, FreshKeeps
<1>7. CASE Evaluated
  <2>1. AtInv' /\ \A c \in Conns : Blank(c) => Blank(c)'
    BY <1>7, <1>A DEF Evaluated, wires, AtInv, Blank
  <2> QED
    BY <1>7, <1>U, <2>1, FreshKeeps DEF Evaluated, wires
<1>8. CASE Emit
  <2>1. sink \in Conns /\ UNCHANGED <<agentVars, host, outward, pump>>
    BY <1>8 DEF Emit, AgentType
  <2>2. \A c \in Conns : c # sink => chan'[c] = chan[c]
    <3>1. Frame("Send", emitted + 1) \in Frames
      BY FrameTypesOK DEF AgentType, FrameTypes
    <3> QED
      BY <1>8, <2>1, <3>1, SendOnFacts DEF Emit
  <2>3. \A c \in Conns : Blank(c) => Blank(c)'
    BY <2>1, <2>2 DEF Blank, agentVars
  <2>4. AtInv'
    <3>1. at = "sink" => session \in Conns
      BY <1>A DEF AtInv, AgentType
    <3> QED
      BY <1>A, <2>1, <2>3, <3>1 DEF AtInv, agentVars
  <2> QED
    BY <1>U, <2>1, <2>3, <2>4, FreshKeeps DEF agentVars
<1>9. ASSUME NEW c \in Conns, Pump(c) PROVE FreshInv'
  <2>1. /\ pump[c] = "runs" /\ UNCHANGED <<agentVars, host>> /\ pump'[c] # "none"
        /\ \A d \in Conns : d # c => pump'[d] = pump[d] /\ chan'[d] = chan[d] /\ outward'[d] = outward[d]
    <3>1. CASE chan[c] # << >> /\ chan' = [chan EXCEPT ![c] = Tail(@)] /\ WriteTo(c, Head(chan[c])) /\ UNCHANGED pump
      <4>1. Head(chan[c]) \in Frames
        BY <3>1, HeadTailProperties DEF WireType
      <4> QED
        BY <1>9, <3>1, <4>1, WriteToFacts DEF Pump, WireType
    <3>2. CASE /\ pump' = [pump EXCEPT ![c] = "ended"] /\ UNCHANGED outward
               /\ chan' = [chan EXCEPT ![c] = << >>] \/ UNCHANGED chan
      BY <1>9, <3>2 DEF Pump, WireType
    <3> QED
      BY <1>9, <3>1, <3>2 DEF Pump
  <2>2. \A d \in Conns : Blank(d) => Blank(d)'
    BY <2>1 DEF Blank, agentVars
  <2>3. AtInv'
    <3>1. at # "accept" => session \in Conns
      BY <1>A DEF AtInv, AgentType
    <3> QED
      BY <1>A, <2>1, <2>2, <3>1 DEF AtInv, agentVars
  <2> QED
    BY <1>U, <2>1, <2>2, <2>3, FreshKeeps DEF agentVars
<1> QED
  BY <1>1, <1>2, <1>3, <1>4, <1>5, <1>6, <1>7, <1>8, <1>9

\* A step of host h that keeps its connection.
LEMMA HostConn ==
  ASSUME ConnInv, NEW h \in Hosts, HostOk(h)', pc[h] \in Held, UNCHANGED conn,
         pc'[h] \in Held \/ pc'[h] = "done",
         \A g \in Hosts : g # h => pc'[g] = pc[g] /\ lost'[g] = lost[g] /\ call'[g] = call[g],
         \A c \in Conns : c # conn[h] => got'[c] = got[c],
         stalled \subseteq stalled'
  PROVE  ConnInv'
<1>1. conn[h] \in Conns /\ ConnOfPlace
  BY HeldConn DEF ConnInv
<1>2. ConnOfPlace'
  BY <1>1 DEF ConnInv, ConnOfPlace
<1>3. ASSUME NEW g \in Hosts, g # h PROVE HostOk(g)'
  <2>1. conn[g] # conn[h]
    BY <1>1, <1>3, ConnsDiffer
  <2>2. pc[g] \in {"listen", "reply", "hello"} => conn[g] \in Conns
    BY <1>1 DEF ConnOfPlace, Held
  <2> QED
    BY <1>3, <2>1, <2>2 DEF ConnInv, HostOk
<1> QED
  BY <1>2, <1>3 DEF ConnInv

LEMMA StartsFresh ==
  ASSUME SessionType, SessionType', ConnInv, FreshInv, NEW h \in Hosts,
         RestartPackage(h) \/ Inject(h) \/ Forward(h)
  PROVE  ConnInv' /\ FreshInv'
<1> USE DEF SessionType
<1>0. NoConn \notin Conns /\ pc[h] \in Early
  BY SessionAssumption DEF Conns, RestartPackage, Inject, InjectAt, Forward, Early
<1>1. CASE RestartPackage(h) \/ Inject(h)
  <2>1. /\ UNCHANGED <<conn, lost, call, got, stalled, host, outward, inward>>
        /\ \A g \in Hosts : g # h => pc'[g] = pc[g]
        /\ pc'[h] \in {"inject", "forward", "done"} /\ pc[h] \in Early
    BY <1>0, <1>1, GotoFacts DEF RestartPackage, AgentDies, Inject, wires, Early, Held
  <2>2. ConnInv'
    BY <2>1 DEF ConnInv, ConnOfPlace, HostOk, Early, Held
  <2>3. \A c \in Conns : Unused(c)' => Unused(c)
    <3> SUFFICES ASSUME NEW c \in Conns, Unused(c)' PROVE Unused(c)
      OBVIOUS
    <3>1. HostOf(c) \in Hosts
      BY DEF Conns, HostOf
    <3>2. HostOf(c) = h => pc'[HostOf(c)] # "connect"
      BY <2>1
    <3> QED
      BY <2>1, <3>1, <3>2 DEF Unused
  <2>4. CASE RestartPackage(h)
    <3>1. /\ at' = "accept" /\ session' = NoConn /\ sink' = NoConn /\ waiting' = None
          /\ backlog' = << >> /\ UNCHANGED <<host, outward, got>>
          /\ \A c \in Conns : chan'[c] = << >> /\ (pump'[c] = "none" <=> pump[c] = "none")
      BY <2>4, <2>1 DEF RestartPackage, AgentDies, WireType
    <3>2. \A c \in Conns : Blank(c) => Blank(c)'
      BY <1>0, <3>1 DEF Blank
    <3>3. AtInv' /\ QueueInv'
      BY <3>1 DEF AtInv, QueueInv
    <3>4. \A c \in Conns : Unused(c)' =>
            Blank(c)' /\ c # session' /\ ~ host'[c] /\ \A i \in DOMAIN backlog' : backlog'[i] # c
      BY <1>0, <2>3, <3>1, <3>2 DEF FreshInv
    <3>5. \A c \in Conns : pump'[c] = "none" => outward'[c] = << >> /\ got'[c] = << >>
      BY <3>1 DEF FreshInv
    <3> QED
      BY <2>2, <3>3, <3>4, <3>5 DEF FreshInv
  <2>5. CASE Inject(h)
    <3>1. AtInv' /\ \A c \in Conns : Blank(c) => Blank(c)'
      BY <2>5 DEF Inject, wires, FreshInv, AtInv, Blank
    <3>2. FreshInv'
      BY <2>3, <2>5, <3>1, FreshKeeps DEF Inject, wires
    <3> QED
      BY <2>2, <3>2
  <2> QED
    BY <1>1, <2>4, <2>5
<1>2. CASE Forward(h)
  <2>1. /\ UNCHANGED <<svars, lost, call, got, stalled>>
        /\ \A g \in Hosts : g # h => pc'[g] = pc[g] /\ conn'[g] = conn[g]
        /\ pc'[h] \in {"connect", "done"} /\ conn'[h] = <<h, 1>> /\ pc[h] = "forward"
    BY <1>2, GotoFacts DEF Forward, Held, HostType
  <2>2. <<h, 1>> \in Conns /\ HostOf(<<h, 1>>) = h
    BY SessionAssumption DEF Conns, HostOf
  <2>3. ConnOfPlace'
    BY <2>1, <2>2, <1>0 DEF ConnInv, ConnOfPlace
  <2>4. ASSUME NEW g \in Hosts PROVE HostOk(g)'
    BY <2>1 DEF ConnInv, HostOk, Early
  <2>5. conn[h] = NoConn
    BY <2>1 DEF ConnInv, HostOk, Early
  <2>6. \A c \in Conns : Unused(c)' => Unused(c)
    <3> SUFFICES ASSUME NEW c \in Conns, Unused(c)' PROVE Unused(c)
      OBVIOUS
    <3>1. HostOf(c) \in Hosts
      BY DEF Conns, HostOf
    <3> QED
      BY <2>1, <2>5, <3>1 DEF Unused
  <2>7. AtInv' /\ \A c \in Conns : Blank(c) => Blank(c)'
    BY <2>1 DEF svars, agentVars, wires, FreshInv, AtInv, Blank
  <2>8. FreshInv'
    BY <2>1, <2>6, <2>7, FreshKeeps DEF svars, agentVars, wires
  <2> QED
    BY <2>3, <2>4, <2>8 DEF ConnInv
<1> QED
  BY <1>1, <1>2

LEMMA ConnectFresh ==
  ASSUME SessionType, SessionType', ConnInv, FreshInv, NEW h \in Hosts, Connect(h)
  PROVE  ConnInv' /\ FreshInv'
<1> USE DEF SessionType
<1>1. /\ pc[h] = "connect" /\ backlog' = Append(backlog, conn[h])
      /\ UNCHANGED <<at, session, sink, waiting, outward, chan, pump, conn, lost, call, got, stalled>>
      /\ pc'[h] = "hello" /\ \A g \in Hosts : g # h => pc'[g] = pc[g]
  BY GotoFacts DEF Connect, Held
<1>2. conn[h] \in Conns /\ HostOf(conn[h]) = h
  BY <1>1, HeldConn DEF ConnInv, Held
<1>3. Unused(conn[h])
  BY <1>1, <1>2 DEF Unused
<1>4. /\ Blank(conn[h]) /\ conn[h] # session
      /\ \A i \in DOMAIN backlog : backlog[i] # conn[h]
  BY <1>2, <1>3 DEF FreshInv
<1>5. HostOk(h)'
  BY <1>1, <1>4 DEF ConnInv, HostOk, Early, Blank
<1>6. ConnInv'
  BY <1>1, <1>5, HostConn DEF Held
<1>7. \A c \in Conns : (Blank(c)' <=> Blank(c)) /\ (Unused(c)' => Unused(c) /\ c # conn[h])
  <2>1. \A c \in Conns : Blank(c)' <=> Blank(c)
    BY <1>1 DEF Blank
  <2>2. ASSUME NEW c \in Conns, Unused(c)' PROVE Unused(c) /\ c # conn[h]
    <3>1. HostOf(c) \in Hosts
      BY DEF Conns, HostOf
    <3>2. PICK k \in 1 .. Retries : conn[h] = <<h, k>>
      BY <1>2 DEF Conns, HostOf
    <3>3. conn[h] # NoConn /\ ~ (conn[h][2] < conn[h][2])
      BY <1>2, <3>2, SessionAssumption DEF Conns
    <3>4. Unused(c)
      BY <1>1, <2>2, <3>1 DEF Unused
    <3>5. c # conn[h]
      BY <1>1, <1>2, <2>2, <3>3 DEF Unused
    <3> QED
      BY <3>4, <3>5
  <2> QED
    BY <2>1, <2>2
<1>8. /\ DOMAIN backlog' = DOMAIN backlog \cup {Len(backlog) + 1}
      /\ backlog'[Len(backlog) + 1] = conn[h] /\ Len(backlog) + 1 \notin DOMAIN backlog
      /\ \A i \in DOMAIN backlog : backlog'[i] = backlog[i] /\ backlog[i] \in Conns
  BY <1>1, <1>2, AppendProperties, LenProperties DEF AgentType
<1>9. QueueInv'
  BY <1>1, <1>2, <1>4, <1>7, <1>8 DEF FreshInv, QueueInv
<1>10. AtInv'
  <2>1. at = "sink" => session \in Conns
    BY DEF FreshInv, AtInv, AgentType
  <2> QED
    BY <1>1, <1>7, <2>1 DEF FreshInv, AtInv
<1>11. \A c \in Conns : Unused(c)' =>
         Blank(c)' /\ c # session' /\ ~ host'[c] /\ \A i \in DOMAIN backlog' : backlog'[i] # c
  <2>1. \A c \in Conns : c # conn[h] => host'[c] = host[c]
    BY <1>2 DEF Connect, WireType
  <2> QED
    BY <1>1, <1>7, <1>8, <2>1 DEF FreshInv
<1>12. \A c \in Conns : pump'[c] = "none" => outward'[c] = << >> /\ got'[c] = << >>
  BY <1>1 DEF FreshInv
<1> QED
  BY <1>6, <1>9, <1>10, <1>11, <1>12 DEF FreshInv

LEMMA FailsFresh ==
  ASSUME SessionType, SessionType', ConnInv, FreshInv, NEW h \in Hosts,
         ConnectFails(h) \/ HelloFails(h)
  PROVE  ConnInv' /\ FreshInv'
<1> USE DEF SessionType
<1>0. NoConn \notin Conns
  BY SessionAssumption DEF Conns
<1>1. /\ pc[h] \in {"connect", "hello"} /\ NextAttempt(h)
      /\ UNCHANGED <<at, session, sink, waiting, backlog, chan, pump, lost, call, got, stalled>>
  BY DEF ConnectFails, HelloFails, svars, agentVars, wires
<1>2. conn[h] \in Conns /\ HostOf(conn[h]) = h /\ pc[h] \in Held
  BY <1>1, HeldConn DEF ConnInv, Held
<1>3. /\ \A g \in Hosts : g # h => pc'[g] = pc[g] /\ conn'[g] = conn[g]
      /\ \/ pc'[h] = "done" /\ conn' = conn
         \/ /\ pc'[h] = "connect" /\ conn[h][2] < Retries
            /\ conn'[h] = <<h, conn[h][2] + 1>> /\ conn'[h] \in Conns
  BY <1>1, <1>2, NextAttemptFacts DEF ConnInv
<1>4. \A c \in Conns : /\ outward'[c] = outward[c] \/ outward'[c] = << >>
                       /\ host'[c] = host[c] \/ host'[c] = FALSE
  <2>1. CASE ConnectFails(h)
    BY <2>1 DEF ConnectFails, svars, wires
  <2>2. CASE HelloFails(h)
    BY <1>2, <2>2, HangUpFacts DEF HelloFails
  <2> QED
    BY <2>1, <2>2
<1>5. ConnInv'
  <2>1. ConnOfPlace'
    <3>1. pc'[h] = "connect" => HostOf(conn'[h]) = h
      BY <1>3 DEF HostOf, Held
    <3> QED
      BY <1>0, <1>2, <1>3, <3>1 DEF ConnInv, ConnOfPlace, Held
  <2>2. ASSUME NEW g \in Hosts PROVE HostOk(g)'
    <3>1. CASE g # h
      BY <1>1, <1>3, <3>1 DEF ConnInv, HostOk
    <3>2. CASE g = h
      BY <1>1, <1>3, <3>2 DEF ConnInv, HostOk, Early, Held
    <3> QED
      BY <3>1, <3>2
  <2> QED
    BY <2>1, <2>2 DEF ConnInv
<1>6. \A c \in Conns : Unused(c)' => Unused(c)
  <2> SUFFICES ASSUME NEW c \in Conns, Unused(c)' PROVE Unused(c)
    OBVIOUS
  <2>1. HostOf(c) \in Hosts
    BY DEF Conns, HostOf
  <2>2. CASE HostOf(c) # h
    BY <1>3, <2>1, <2>2 DEF Unused
  <2>3. CASE HostOf(c) = h
    <3>1. PICK k \in 1 .. Retries : conn[h] = <<h, k>>
      BY <1>2 DEF Conns, HostOf
    <3>2. PICK m \in 1 .. Retries : c = <<h, m>>
      BY <2>3 DEF Conns, HostOf
    <3>3. conn[h][2] = k /\ c[2] = m /\ conn[h] # NoConn
      BY <1>0, <1>2, <3>1, <3>2
    <3>4. CASE pc'[h] = "done" /\ conn' = conn
      BY <2>3, <3>4 DEF Unused
    <3>5. CASE pc'[h] = "connect" /\ conn'[h] = <<h, k + 1>>
      <4>1. conn'[h][2] = k + 1 /\ conn'[h] # NoConn
        BY <1>0, <1>2, <1>3, <3>5, SessionAssumption DEF Conns
      <4>2. k + 1 < m \/ c = <<h, k + 1>>
        BY <2>3, <3>3, <3>5, <4>1 DEF Unused
      <4>3. k < m
        BY <3>2, <3>3, <4>2
      <4> QED
        BY <2>3, <3>3, <4>3 DEF Unused
    <3> QED
      BY <1>3, <3>3, <3>4, <3>5
  <2> QED
    BY <2>2, <2>3
<1>7. \A c \in Conns : Blank(c) => Blank(c)'
  BY <1>1, <1>4 DEF Blank
<1>8. AtInv'
  <2>1. at = "sink" => session \in Conns
    BY DEF FreshInv, AtInv, AgentType
  <2> QED
    BY <1>1, <1>7, <2>1 DEF FreshInv, AtInv
<1>9. \A c \in Conns : Unused(c)' => Unused(c) /\ (host'[c] => host[c])
  BY <1>4, <1>6
<1>10. FreshInv'
  BY <1>1, <1>4, <1>7, <1>8, <1>9, FreshKeeps
<1> QED
  BY <1>5, <1>10

\* A host that has had its Hello, or has it now.
LEMMA ListensFresh ==
  ASSUME SessionType, SessionType', ConnInv, FreshInv, NEW h \in Hosts,
         \/ HelloArrives(h) \/ Stall(h) \/ ReadGarbage(h) \/ ReadEof(h)
         \/ Listen(h) \/ AwaitReply(h) \/ TimesOut(h) \/ Killed(h)
  PROVE  ConnInv' /\ FreshInv'
<1> USE DEF SessionType
<1>0. NoConn \notin Conns
  BY SessionAssumption DEF Conns
<1>1. pc[h] \in {"hello", "listen", "reply"} /\ pc[h] \in Held
  BY DEF HelloArrives, Stall, ReadGarbage, ReadEof, Listen, AwaitReply, TimesOut, Killed, Listens, Held
<1>2. conn[h] \in Conns /\ HostOf(conn[h]) = h
  BY <1>1, HeldConn DEF ConnInv
<1>3. UNCHANGED <<agentVars, chan, pump, conn, helloAt, emitted>>
  BY DEF HelloArrives, Stall, ReadGarbage, ReadEof, Listen, AwaitReply, TimesOut, Killed, svars, wires
<1>4. ASSUME End(h)
      PROVE  /\ pc'[h] = "done" /\ \A g \in Hosts : g # h => pc'[g] = pc[g]
             /\ \A c \in Conns : host'[c] = host[c] \/ host'[c] = FALSE
             /\ \A c \in Conns : outward'[c] = outward[c] \/ outward'[c] = << >>
  BY <1>2, <1>4, HangUpFacts, GotoFacts DEF End
<1>5. ASSUME outward[conn[h]] # << >>, NEW f, Received(h, f)
      PROVE  /\ got'[conn[h]] # << >> /\ \A c \in Conns : c # conn[h] => got'[c] = got[c]
             /\ pump[conn[h]] # "none"
  <2>1. got'[conn[h]] = Append(got[conn[h]], f) /\ f \in Frames
        /\ \A c \in Conns : c # conn[h] => got'[c] = got[c]
    BY <1>2, <1>5, ReceivedFacts
  <2>2. got'[conn[h]] # << >>
    <3>1. got[conn[h]] \in Seq(Frames)
      BY <1>2 DEF WireType
    <3> QED
      BY <2>1, <3>1, AppendProperties
  <2> QED
    BY <1>2, <1>5, <2>1, <2>2 DEF FreshInv
<1>6. ASSUME outward[conn[h]] # << >>, Taken(h)
      PROVE  /\ pump[conn[h]] # "none"
             /\ \A c \in Conns : c # conn[h] => outward'[c] = outward[c]
  BY <1>2, <1>6, TakenFacts DEF FreshInv
<1>7. /\ ConnInv'
      /\ \A c \in Conns : host'[c] = host[c] \/ host'[c] = FALSE
      /\ \A c \in Conns : pump[c] = "none" =>
           (outward'[c] = outward[c] \/ outward'[c] = << >>) /\ got'[c] = got[c]
      /\ pc'[h] # "connect" /\ \A g \in Hosts : g # h => pc'[g] = pc[g]
  <2>1. CASE HelloArrives(h)
    <3>1. /\ outward[conn[h]] # << >> /\ Received(h, Hello) /\ Taken(h) /\ pc'[h] = "listen"
          /\ \A g \in Hosts : g # h => pc'[g] = pc[g]
          /\ UNCHANGED <<host, lost, call, stalled>> /\ pc[h] = "hello"
      BY <2>1, GotoFacts DEF HelloArrives, Arrived, Held
    <3>2. HostOk(h)'
      BY <1>3, <1>5, <3>1 DEF ConnInv, HostOk, Early
    <3>3. ConnInv'
      BY <1>1, <1>3, <1>5, <3>1, <3>2, HostConn DEF Held
    <3> QED
      BY <1>5, <1>6, <3>1, <3>3
  <2>2. CASE Stall(h)
    <3>1. UNCHANGED <<svars, pc, call, got>> /\ stalled' = stalled \cup {conn[h]}
          /\ pc[h] \in {"listen", "reply"} /\ \A g \in Hosts : g # h => lost'[g] = lost[g]
      BY <2>2 DEF Stall, Listens, HostType
    <3>2. HostOk(h)'
      BY <1>3, <3>1 DEF ConnInv, HostOk, Early
    <3>3. ConnInv'
      BY <1>1, <1>3, <3>1, <3>2, HostConn
    <3> QED
      BY <1>1, <3>1, <3>3 DEF svars, wires
  <2>3. CASE ReadGarbage(h)
    <3>1. UNCHANGED <<call, got, stalled>> /\ pc[h] \in {"listen", "reply"} /\ lost[h]
          /\ \A g \in Hosts : g # h => lost'[g] = lost[g]
      BY <2>3 DEF ReadGarbage, Listens, HostType
    <3>2. /\ pc'[h] \in {pc[h], "done"} /\ \A g \in Hosts : g # h => pc'[g] = pc[g]
          /\ \A c \in Conns : host'[c] = host[c] \/ host'[c] = FALSE
          /\ \A c \in Conns : pump[c] = "none" => outward'[c] = outward[c] \/ outward'[c] = << >>
      BY <2>3, <1>4, <1>6 DEF ReadGarbage
    <3>3. HostOk(h)'
      BY <1>3, <3>1, <3>2 DEF ConnInv, HostOk, Early
    <3>4. ConnInv'
      BY <1>1, <1>3, <3>1, <3>2, <3>3, HostConn
    <3> QED
      BY <1>1, <3>1, <3>2, <3>4
  <2>4. CASE ReadEof(h) \/ TimesOut(h) \/ Killed(h)
    <3>1. End(h) /\ UNCHANGED <<call, got, stalled, lost>>
      BY <2>4 DEF ReadEof, TimesOut, Killed
    <3>2. HostOk(h)'
      BY <1>3, <1>4, <3>1 DEF ConnInv, HostOk, Early
    <3>3. ConnInv'
      BY <1>1, <1>3, <1>4, <3>1, <3>2, HostConn
    <3> QED
      BY <1>4, <3>1, <3>3
  <2>5. CASE Listen(h) \/ AwaitReply(h)
    <3>1. /\ outward[conn[h]] # << >> /\ pc[h] \in {"listen", "reply"} /\ UNCHANGED <<lost, stalled>>
          /\ \A g \in Hosts : g # h => call'[g] = call[g]
          /\ \E f : Received(h, f)
          /\ \/ End(h)
             \/ UNCHANGED <<pc, call, host>> /\ Taken(h)
             \/ Goto(h, "reply") /\ Taken(h) /\ UNCHANGED host
      BY <2>5 DEF Listen, AwaitReply, Arrived, Hears, NextCall, HostType
    <3>2. /\ pc'[h] \in {pc[h], "done", "reply"} /\ \A g \in Hosts : g # h => pc'[g] = pc[g]
          /\ \A c \in Conns : host'[c] = host[c] \/ host'[c] = FALSE
          /\ \A c \in Conns : pump[c] = "none" => outward'[c] = outward[c] \/ outward'[c] = << >>
          /\ (pc'[h] = "listen" => call' = call)
      <4>1. CASE End(h)
        BY <1>4, <4>1
      <4>2. CASE UNCHANGED <<pc, call, host>> /\ Taken(h)
        BY <1>6, <3>1, <4>2
      <4>3. CASE Goto(h, "reply") /\ Taken(h) /\ UNCHANGED host
        <5>1. "reply" \in Held
          BY DEF Held
        <5>2. pc'[h] = "reply" /\ \A g \in Hosts : g # h => pc'[g] = pc[g]
          BY <4>3, <5>1, GotoFacts
        <5> QED
          BY <1>6, <3>1, <4>3, <5>2
      <4> QED
        BY <3>1, <4>1, <4>2, <4>3
    <3>3. HostOk(h)'
      BY <1>3, <1>5, <3>1, <3>2 DEF ConnInv, HostOk, Early
    <3>4. ConnInv'
      BY <1>1, <1>3, <1>5, <3>1, <3>2, <3>3, HostConn DEF Held
    <3> QED
      BY <1>1, <1>5, <3>1, <3>2, <3>4
  <2> QED
    BY <2>1, <2>2, <2>3, <2>4, <2>5
<1>8. \A c \in Conns : Unused(c)' => Unused(c) /\ (host'[c] => host[c])
  <2> SUFFICES ASSUME NEW c \in Conns, Unused(c)' PROVE Unused(c)
    BY <1>7
  <2>1. HostOf(c) \in Hosts
    BY DEF Conns, HostOf
  <2> QED
    BY <1>3, <1>7, <2>1 DEF Unused
<1>9. \A c \in Conns : Blank(c) => Blank(c)'
  BY <1>3, <1>7 DEF Blank, agentVars
<1>10. AtInv'
  <2>1. at = "sink" => session \in Conns
    BY DEF FreshInv, AtInv, AgentType
  <2> QED
    BY <1>3, <1>9, <2>1 DEF FreshInv, AtInv, agentVars
<1>11. \A c \in Conns : pump'[c] = "none" =>
         pump[c] = "none" /\ (outward[c] = << >> => outward'[c] = << >>)
         /\ (got[c] = << >> /\ outward[c] = << >> => got'[c] = << >>)
  BY <1>3, <1>7
<1>12. FreshInv'
  BY <1>3, <1>8, <1>9, <1>10, <1>11, FreshKeeps DEF agentVars
<1> QED
  BY <1>7, <1>12

-----------------------------------------------------------------------------
\* What scripts emitted, on its way.

Below(A, B) == \A a \in A, b \in B : a < b
Written(c) == Numbers(outward[c], "Send")
Queued(c) == Numbers(chan[c], "Send")
Sent(c) == Heard(c) \cup Written(c) \cup Queued(c)
InStep(c) ==
  /\ Rising(got[c], "Send") /\ Rising(outward[c], "Send") /\ Rising(chan[c], "Send")
  /\ Below(Heard(c), Written(c)) /\ Below(Heard(c), Queued(c)) /\ Below(Written(c), Queued(c))
  /\ \A m \in Sent(c) : m <= emitted
\* Nothing is missing from S between two numbers, or after a and before one.
Full(S, a) == \A m \in S : a + 1 .. m \subseteq S /\ \A l \in S : l .. m \subseteq S
\* Nothing is missing between what was heard first and what is emitted next.
Whole(c) ==
  /\ \A m, l \in Sent(c) : l .. m \subseteq Sent(c)
  /\ pump[c] # "none" => \A m \in Sent(c) : helloAt[c] + 1 .. m \subseteq Sent(c)
  /\ c = sink =>
       /\ pump[c] # "ended"
       /\ \A m \in Sent(c) : m .. emitted \subseteq Sent(c)
       /\ pump[c] # "none" => helloAt[c] + 1 .. emitted \subseteq Sent(c)
StreamOk(c) ==
  /\ InStep(c)
  /\ c \notin stalled => Full(Heard(c), helloAt[c])
  /\ c \notin stalled /\ host[c] => Whole(c)
StreamInv == \A c \in Conns : StreamOk(c)

LEMMA NumbersOfWires ==
  ASSUME WireType, NEW c \in Conns
  PROVE  /\ Heard(c) \subseteq Nat /\ Written(c) \subseteq Nat /\ Queued(c) \subseteq Nat
         /\ Sent(c) \subseteq Nat
BY NumbersNat DEF WireType, Heard, Written, Queued, Sent

\* Nothing on c moves; its host may go, a pump may end that is not the sink's.
LEMMA StreamSame ==
  ASSUME SessionType, NEW c \in Conns, StreamOk(c),
         got'[c] = got[c], outward'[c] = outward[c], chan'[c] = chan[c], helloAt'[c] = helloAt[c],
         emitted' \in {emitted, emitted + 1},
         c = sink' => c = sink /\ emitted' = emitted /\ pump'[c] = pump[c],
         pump[c] = "none" => pump'[c] = "none",
         host'[c] => host[c], stalled \subseteq stalled'
  PROVE  StreamOk(c)'
<1>1. Heard(c)' = Heard(c) /\ Written(c)' = Written(c) /\ Queued(c)' = Queued(c) /\ Sent(c)' = Sent(c)
  BY DEF Heard, Written, Queued, Sent
<1>2. InStep(c)'
  BY <1>1, NumbersOfWires DEF StreamOk, InStep, SessionType, AgentType
<1>3. c \notin stalled' => Full(Heard(c), helloAt[c])'
  BY <1>1 DEF StreamOk, Full
<1>4. c \notin stalled' /\ host'[c] => Whole(c)'
  <2> SUFFICES ASSUME c \notin stalled', host'[c] PROVE Whole(c)'
    OBVIOUS
  <2>1. Whole(c)
    BY DEF StreamOk
  <2> QED
    BY <1>1, <2>1 DEF Whole
<1> QED
  BY <1>2, <1>3, <1>4 DEF StreamOk

\* The end of c at the host is gone, and with it what was on the way.
LEMMA StreamCut ==
  ASSUME SessionType, NEW c \in Conns, StreamOk(c), ~ host'[c],
         got'[c] = got[c], helloAt'[c] = helloAt[c], emitted' = emitted,
         outward'[c] \in {outward[c], << >>},
         chan'[c] \in {chan[c], << >>} \/ (chan[c] # << >> /\ chan'[c] = Tail(chan[c])),
         stalled \subseteq stalled'
  PROVE  StreamOk(c)'
<1>1. Heard(c)' = Heard(c) /\ Written(c)' \subseteq Written(c) /\ Rising(outward[c], "Send")'
  BY NumbersEmpty DEF Heard, Written, StreamOk, InStep
<1>2. Queued(c)' \subseteq Queued(c) /\ Rising(chan[c], "Send")'
  <2>1. chan[c] \in Seq(Frames)
    BY DEF SessionType, WireType
  <2> QED
    BY <2>1, NumbersEmpty, NumbersTail DEF Queued, StreamOk, InStep
<1>3. InStep(c)'
  BY <1>1, <1>2 DEF StreamOk, InStep, Below, Sent
<1> QED
  BY <1>1, <1>3 DEF StreamOk, Full

\* The agent dies: what its channels held is lost, and it emits to nobody.
LEMMA StreamDies ==
  ASSUME SessionType, NEW c \in Conns, StreamOk(c), c # sink',
         got'[c] = got[c], outward'[c] = outward[c], chan'[c] = << >>, helloAt'[c] = helloAt[c],
         emitted' = emitted, pump[c] = "none" => pump'[c] = "none",
         UNCHANGED <<host, stalled>>
  PROVE  StreamOk(c)'
<1>1. /\ Heard(c)' = Heard(c) /\ Written(c)' = Written(c) /\ Queued(c)' = {}
      /\ Rising(chan[c], "Send")' /\ Sent(c)' = Heard(c) \cup Written(c)
  BY NumbersEmpty DEF Heard, Written, Queued, Sent
<1>2. InStep(c)'
  BY <1>1 DEF StreamOk, InStep, Below, Sent
<1>3. c \notin stalled' => Full(Heard(c), helloAt[c])'
  BY <1>1 DEF StreamOk, Full
<1>4. ASSUME c \notin stalled, host[c] PROVE Whole(c)'
  <2>1. Whole(c) /\ Below(Heard(c), Queued(c)) /\ Below(Written(c), Queued(c)) /\ Sent(c) \subseteq Nat
    BY <1>4, NumbersOfWires DEF StreamOk, InStep, SessionType
  <2>2. \A m \in Sent(c)' : m \in Sent(c) /\ \A l \in 0 .. m : l \in Sent(c) => l \in Sent(c)'
    BY <1>1, <2>1 DEF Below, Sent
  <2>3. \A m, l \in Sent(c)' : l .. m \subseteq Sent(c)'
    <3> SUFFICES ASSUME NEW m \in Sent(c)', NEW l \in Sent(c)', NEW k \in l .. m
                 PROVE  k \in Sent(c)'
      OBVIOUS
    <3>1. k \in Sent(c)
      BY <2>1, <2>2 DEF Whole
    <3>2. k \in 0 .. m
      BY <2>1, <2>2
    <3> QED
      BY <2>2, <3>1, <3>2
  <2>4. pump'[c] # "none" => \A m \in Sent(c)' : helloAt[c] + 1 .. m \subseteq Sent(c)'
    <3> SUFFICES ASSUME pump'[c] # "none", NEW m \in Sent(c)', NEW k \in helloAt[c] + 1 .. m
                 PROVE  k \in Sent(c)'
      OBVIOUS
    <3>1. k \in Sent(c)
      BY <2>1, <2>2 DEF Whole
    <3>2. k \in 0 .. m
      BY <2>1, <3>1
    <3> QED
      BY <2>2, <3>1, <3>2
  <2> QED
    BY <2>3, <2>4 DEF Whole
<1> QED
  BY <1>2, <1>3, <1>4 DEF StreamOk

\* A frame is queued that is no message of a script, or the next one.
LEMMA StreamQueues ==
  ASSUME SessionType, NEW c \in Conns, NEW f \in Frames, StreamOk(c),
         got'[c] = got[c], outward'[c] = outward[c], helloAt'[c] = helloAt[c],
         chan'[c] = Append(chan[c], f), UNCHANGED <<pump, host, sink, stalled>>,
         \/ f.type # "Send" /\ emitted' = emitted
         \/ f.type = "Send" /\ f.n = emitted + 1 /\ emitted' = emitted + 1 /\ c = sink
  PROVE  StreamOk(c)'
<1>1. /\ Heard(c)' = Heard(c) /\ Written(c)' = Written(c)
      /\ Heard(c) \subseteq Nat /\ Written(c) \subseteq Nat /\ Queued(c) \subseteq Nat
      /\ emitted \in Nat /\ chan[c] \in Seq(Frames) /\ helloAt[c] \in Nat
  BY NumbersOfWires DEF Heard, Written, SessionType, AgentType, WireType
<1>2. Queued(c)' = Queued(c) \cup (IF f.type = "Send" THEN {f.n} ELSE {})
  BY <1>1, NumbersAppend DEF Queued
<1>3. InStep(c) /\ \A m \in Sent(c) : m <= emitted
  BY DEF StreamOk, InStep
<1>4. Rising(chan[c], "Send")'
  <2>1. f.type = "Send" => f.n = emitted + 1
    OBVIOUS
  <2>2. \A m \in Queued(c) : m \in Nat /\ m <= emitted
    BY <1>1, <1>3 DEF Sent
  <2>3. f.type = "Send" => \A m \in Numbers(chan[c], "Send") : m < f.n
    BY <1>1, <2>1, <2>2 DEF Queued
  <2> QED
    BY <1>1, <1>3, <2>3, NumbersAppend DEF InStep
<1>5. CASE f.type # "Send" /\ emitted' = emitted
  <2>1. Queued(c)' = Queued(c) /\ Sent(c)' = Sent(c)
    BY <1>1, <1>2, <1>5 DEF Sent
  <2>2. InStep(c)'
    BY <1>1, <1>3, <1>4, <1>5, <2>1 DEF InStep
  <2> QED
    BY <1>1, <1>5, <2>1, <2>2 DEF StreamOk, Whole, Full
<1>6. CASE f.type = "Send" /\ f.n = emitted + 1 /\ emitted' = emitted + 1 /\ c = sink
  <2>1. Queued(c)' = Queued(c) \cup {emitted + 1} /\ Sent(c)' = Sent(c) \cup {emitted + 1}
    BY <1>1, <1>2, <1>6 DEF Sent
  <2>2. Below(Heard(c), Queued(c))' /\ Below(Written(c), Queued(c))'
    BY <1>1, <1>3, <2>1 DEF InStep, Below, Sent
  <2>3. InStep(c)'
    <3>1. \A m \in Sent(c)' : m <= emitted'
      BY <1>1, <1>3, <1>6, <2>1 DEF Sent
    <3> QED
      BY <1>1, <1>3, <1>4, <2>2, <3>1 DEF InStep
  <2>4. ASSUME c \notin stalled, host[c] PROVE Whole(c)'
    <3>1. Whole(c)
      BY <2>4 DEF StreamOk
    <3>2. Sent(c) \subseteq Nat
      BY <1>1 DEF Sent
    <3>3. \A m, l \in Sent(c)' : l .. m \subseteq Sent(c)'
      BY <1>1, <1>3, <1>6, <2>1, <3>1, <3>2 DEF Whole
    <3>4. \A m \in Sent(c)' : m .. emitted' \subseteq Sent(c)'
      BY <1>1, <1>3, <1>6, <2>1, <3>1, <3>2 DEF Whole
    <3>5. pump[c] # "none" => helloAt[c] + 1 .. emitted' \subseteq Sent(c)'
      BY <1>1, <1>6, <2>1, <3>1 DEF Whole
    <3>6. pump[c] # "none" => \A m \in Sent(c)' : helloAt[c] + 1 .. m \subseteq Sent(c)'
      BY <1>1, <1>3, <1>6, <2>1, <3>1, <3>2, <3>5 DEF Whole
    <3>7. pump[c] # "ended"
      BY <1>6, <3>1 DEF Whole
    <3> QED
      BY <1>6, <3>3, <3>4, <3>5, <3>6, <3>7 DEF Whole
  <2> QED
    BY <1>1, <2>3, <2>4 DEF StreamOk, Full
<1> QED
  BY <1>5, <1>6

\* The pump writes the head of the channel.
LEMMA StreamPumps ==
  ASSUME SessionType, NEW c \in Conns, StreamOk(c), chan[c] # << >>,
         got'[c] = got[c], helloAt'[c] = helloAt[c], emitted' = emitted,
         outward'[c] = Append(outward[c], Head(chan[c])), chan'[c] = Tail(chan[c]),
         UNCHANGED <<pump, host, sink, stalled>>
  PROVE  StreamOk(c)'
<1> DEFINE f == Head(chan[c])
           F == IF f.type = "Send" THEN {f.n} ELSE {}
<1>1. chan[c] \in Seq(Frames) /\ outward[c] \in Seq(Frames) /\ InStep(c)
  BY DEF SessionType, WireType, StreamOk
<1>2. /\ f \in Frames /\ Queued(c) = Queued(c)' \cup F
      /\ Rising(chan[c], "Send")'
      /\ f.type = "Send" => \A m \in Queued(c)' : f.n < m
  BY <1>1, NumbersTail DEF Queued, InStep
<1>3. Written(c)' = Written(c) \cup F /\ Heard(c)' = Heard(c)
  BY <1>1, <1>2, NumbersAppend DEF Written, Heard
<1>4. Rising(outward[c], "Send")'
  <2>1. f.type = "Send" => \A m \in Numbers(outward[c], "Send") : m < f.n
    BY <1>1, <1>2 DEF InStep, Below, Written
  <2> QED
    BY <1>1, <1>2, <2>1, NumbersAppend DEF InStep
<1>5. Sent(c)' = Sent(c)
  BY <1>2, <1>3 DEF Sent
<1>6. Below(Heard(c), Written(c))' /\ Below(Heard(c), Queued(c))' /\ Below(Written(c), Queued(c))'
  <2>1. \A m \in F, l \in Queued(c)' : m < l
    BY <1>2
  <2> HIDE DEF f, F
  <2> QED
    BY <1>1, <1>2, <1>3, <2>1 DEF InStep, Below
<1>7. InStep(c)'
  BY <1>1, <1>2, <1>4, <1>5, <1>6 DEF InStep
<1> QED
  BY <1>3, <1>5, <1>7 DEF StreamOk, Full, Whole

\* The host reads the next frame; it may hang up then.
LEMMA StreamReads ==
  ASSUME SessionType, NEW c \in Conns, StreamOk(c), outward[c] # << >>, pump[c] # "none",
         got'[c] = Append(got[c], Head(outward[c])),
         \/ outward'[c] = Tail(outward[c]) /\ UNCHANGED host
         \/ outward'[c] = << >> /\ host'[c] = FALSE,
         host[c] \/ c \in stalled,
         UNCHANGED <<pump, chan, helloAt, emitted, sink, stalled>>
  PROVE  StreamOk(c)'
<1> DEFINE f == Head(outward[c])
           F == IF f.type = "Send" THEN {f.n} ELSE {}
           T == Numbers(Tail(outward[c]), "Send")
<1>1. got[c] \in Seq(Frames) /\ outward[c] \in Seq(Frames) /\ InStep(c)
  BY DEF SessionType, WireType, StreamOk
<1>2. /\ f \in Frames /\ Written(c) = T \cup F
      /\ Rising(Tail(outward[c]), "Send")
      /\ f.type = "Send" => \A m \in T : f.n < m
  BY <1>1, NumbersTail DEF Written, InStep
<1>3. Heard(c)' = Heard(c) \cup F /\ Queued(c)' = Queued(c)
  BY <1>1, <1>2, NumbersAppend DEF Queued, Heard
<1>4. Rising(got[c], "Send")'
  <2>1. f.type = "Send" => \A m \in Numbers(got[c], "Send") : m < f.n
    BY <1>1, <1>2 DEF InStep, Below, Written, Heard
  <2> QED
    BY <1>1, <1>2, <2>1, NumbersAppend DEF InStep
<1>5. Written(c)' \subseteq T /\ Rising(outward[c], "Send")' /\ (host'[c] => Written(c)' = T)
  <2>1. CASE outward'[c] = Tail(outward[c]) /\ UNCHANGED host
    BY <1>2, <2>1 DEF Written
  <2>2. CASE outward'[c] = << >> /\ host'[c] = FALSE
    BY <2>2, NumbersEmpty DEF Written
  <2> QED
    BY <2>1, <2>2
<1>6. Sent(c) = Heard(c) \cup F \cup T \cup Queued(c) /\ Sent(c) \subseteq Nat
  BY <1>2, NumbersOfWires DEF Sent, SessionType
<1>F. /\ \A m \in F, l \in T : m < l
      /\ F = {} \/ (f.type = "Send" /\ F = {f.n})
  BY <1>2
<1> HIDE DEF f, F, T
<1>7. Below(Heard(c), Written(c))' /\ Below(Heard(c), Queued(c))' /\ Below(Written(c), Queued(c))'
  BY <1>1, <1>2, <1>3, <1>5, <1>F DEF InStep, Below
<1>8. InStep(c)'
  BY <1>1, <1>3, <1>4, <1>5, <1>6, <1>7 DEF InStep, Sent
<1>9. ASSUME c \notin stalled PROVE Full(Heard(c), helloAt[c])'
  <2>1. Full(Heard(c), helloAt[c]) /\ Whole(c)
    BY <1>9 DEF StreamOk
  <2>2. CASE F = {}
    BY <1>3, <2>1, <2>2 DEF Full
  <2>3. CASE f.type = "Send" /\ F = {f.n}
    <3>1. \A m \in Sent(c) : m <= f.n => m \in Heard(c)'
      <4>1. Below(F, T) /\ Below(Written(c), Queued(c)) /\ F \subseteq Written(c)
        BY <1>1, <1>2, <1>F DEF InStep, Below
      <4> SUFFICES ASSUME NEW m \in Sent(c), m <= f.n PROVE m \in Heard(c) \cup F
        BY <1>3
      <4>2. m \in Nat /\ f.n \in Nat /\ f.n \in F
        BY <1>6, <2>3
      <4>3. m \notin T /\ m \notin Queued(c)
        BY <4>1, <4>2 DEF Below
      <4> QED
        BY <1>6, <4>3
    <3>2. f.n \in Sent(c) /\ Heard(c) \subseteq Sent(c) /\ f.n \in Nat
      BY <1>6, <2>3
    <3>3. \A m \in Heard(c)' : m <= f.n /\ m \in Sent(c)
      <4>1. Below(Heard(c), Written(c)) /\ F \subseteq Written(c)
        BY <1>1, <1>2 DEF InStep
      <4>2. \A m \in Heard(c) : m < f.n /\ m \in Nat
        BY <1>6, <2>3, <4>1 DEF Below
      <4> QED
        BY <1>3, <1>6, <2>3, <3>2, <4>2
    <3>5. \A m \in Heard(c)' : /\ helloAt[c] + 1 .. m \subseteq Sent(c)
                               /\ \A l \in Heard(c)' : l .. m \subseteq Sent(c)
      BY <2>1, <3>3 DEF Whole
    <3>6. \A m \in Heard(c)' : /\ helloAt[c] + 1 .. m \subseteq Heard(c)'
                               /\ \A l \in Heard(c)' : l .. m \subseteq Heard(c)'
      <4>1. helloAt[c] \in Nat
        BY DEF SessionType, WireType
      <4> QED
        BY <1>6, <3>1, <3>2, <3>3, <3>5, <4>1
    <3> QED
      BY <3>6 DEF Full
  <2> QED
    BY <1>F, <2>2, <2>3
<1>10. ASSUME c \notin stalled, host'[c] PROVE Whole(c)'
  <2>1. Sent(c)' = Sent(c)
    BY <1>3, <1>5, <1>6, <1>10 DEF Sent
  <2>2. Whole(c)
    BY <1>10 DEF StreamOk
  <2> QED
    BY <2>1, <2>2 DEF Whole
<1> QED
  BY <1>8, <1>9, <1>10 DEF StreamOk

\* Nothing was ever on c.
LEMMA StreamBlank ==
  ASSUME NEW c \in Conns, got'[c] = << >>, outward'[c] = << >>, chan'[c] = << >>,
         pump'[c] = "none"
  PROVE  StreamOk(c)'
<1>1. Heard(c)' = {} /\ Written(c)' = {} /\ Queued(c)' = {} /\ Sent(c)' = {}
  BY NumbersEmpty DEF Heard, Written, Queued, Sent
<1>2. Rising(got[c], "Send")' /\ Rising(outward[c], "Send")' /\ Rising(chan[c], "Send")'
  BY NumbersEmpty
<1> QED
  BY <1>1, <1>2 DEF StreamOk, InStep, Below, Full, Whole

\* A message that is lost: the pump of the sink has ended, for want of a host.
LEMMA StreamLoses ==
  ASSUME SessionType, NEW c \in Conns, StreamOk(c), c = sink, pump[c] = "ended",
         emitted' = emitted + 1, UNCHANGED <<got, outward, chan, helloAt, host, stalled>>
  PROVE  StreamOk(c)'
<1>1. Heard(c)' = Heard(c) /\ Written(c)' = Written(c) /\ Queued(c)' = Queued(c) /\ Sent(c)' = Sent(c)
  BY DEF Heard, Written, Queued, Sent
<1>2. InStep(c)'
  BY <1>1, NumbersOfWires DEF StreamOk, InStep, SessionType, AgentType
<1>3. c \in stalled \/ ~ host[c]
  BY DEF StreamOk, Whole
<1> QED
  BY <1>1, <1>2, <1>3 DEF StreamOk, Full

\* The host has lost its place in the stream, and skips a frame.
LEMMA StreamSkips ==
  ASSUME SessionType, NEW c \in Conns, StreamOk(c), c \in stalled, outward[c] # << >>,
         outward'[c] = Tail(outward[c]), UNCHANGED <<got, chan, helloAt, emitted, stalled>>
  PROVE  StreamOk(c)'
<1>1. outward[c] \in Seq(Frames) /\ InStep(c)
  BY DEF SessionType, WireType, StreamOk
<1>2. Heard(c)' = Heard(c) /\ Queued(c)' = Queued(c)
  BY DEF Heard, Queued
<1>3. Written(c)' \subseteq Written(c) /\ Rising(outward[c], "Send")'
  BY <1>1, NumbersTail DEF Written, InStep
<1>4. InStep(c)'
  BY <1>1, <1>2, <1>3 DEF InStep, Below, Sent
<1> QED
  BY <1>4 DEF StreamOk

LEMMA NumbersOther ==
  ASSUME NEW s \in Seq(Frames), NEW f \in Frames, NEW t, f.type # t
  PROVE  /\ Numbers(Append(s, f), t) = Numbers(s, t)
         /\ Rising(s, t) => Rising(Append(s, f), t)
<1>1. Numbers(Append(s, f), t) = Numbers(s, t) \cup (IF f.type = t THEN {f.n} ELSE {})
  BY NumbersAppend
<1>2. Rising(s, t) => Rising(Append(s, f), t)
  BY NumbersAppend
<1> QED
  BY <1>1, <1>2

LEMMA HelloWritten ==
  ASSUME SessionType, NEW c \in Conns, StreamOk(c), c = sink,
         got[c] = << >>, outward[c] = << >>, outward'[c] \in {<< >>, Append(<< >>, Hello)},
         UNCHANGED <<got, chan, emitted, host, stalled, sink>>,
         pump'[c] = "runs", helloAt'[c] = emitted
  PROVE  StreamOk(c)'
<1>1. Heard(c)' = {} /\ Heard(c) = {} /\ Written(c) = {} /\ Queued(c)' = Queued(c)
  BY NumbersEmpty DEF Heard, Written, Queued
<1>2. Written(c)' = {} /\ Rising(outward[c], "Send")'
  <2>1. Numbers(Append(<< >>, Hello), "Send") = {} /\ Rising(Append(<< >>, Hello), "Send")
    <3> PICK s \in Seq(Frames), f \in Frames : s = << >> /\ f = Hello /\ f.type # "Send"
      BY NamedFrames, EmptyFrames
    <3>1. Numbers(s, "Send") = {} /\ Rising(s, "Send")
      BY NumbersEmpty
    <3>2. Numbers(Append(s, f), "Send") = {} /\ Rising(Append(s, f), "Send")
      BY <3>1, NumbersOther
    <3> QED
      BY <3>2
  <2> QED
    BY <2>1, NumbersEmpty DEF Written
<1>3. Sent(c)' = Queued(c) /\ Sent(c) = Queued(c) /\ Sent(c) \subseteq Nat /\ emitted \in Nat
  BY <1>1, <1>2, NumbersOfWires DEF Sent, SessionType, AgentType
<1>4. InStep(c)'
  BY <1>1, <1>2, <1>3 DEF StreamOk, InStep, Below
<1>5. ASSUME c \notin stalled, host[c] PROVE Whole(c)'
  <2>1. Whole(c) /\ \A m \in Sent(c) : m <= emitted
    BY <1>5 DEF StreamOk, InStep
  <2>2. \A m \in Sent(c)' : helloAt'[c] + 1 .. m \subseteq Sent(c)'
    BY <1>3, <2>1
  <2>3. helloAt'[c] + 1 .. emitted' \subseteq Sent(c)'
    BY <1>3
  <2> QED
    BY <1>3, <2>1, <2>2, <2>3 DEF Whole
<1> QED
  BY <1>1, <1>4, <1>5 DEF StreamOk, Full

\* What the pump writes is what it was sent.
LEMMA PumpStream ==
  ASSUME SessionType, SessionType', StreamInv, NEW c \in Conns, Pump(c),
         UNCHANGED <<hostVars, got, stalled>>
  PROVE  StreamInv'
<1>1. pump[c] = "runs" /\ UNCHANGED <<sink, session, emitted, host, helloAt>>
  BY DEF Pump, agentVars
<1>2. CASE chan[c] # << >> /\ chan' = [chan EXCEPT ![c] = Tail(@)] /\ WriteTo(c, Head(chan[c])) /\ UNCHANGED pump
  <2>1. Head(chan[c]) \in Frames
    BY <1>2, HeadTailProperties DEF SessionType, WireType
  <2>2. /\ \A d \in Conns : d # c => outward'[d] = outward[d] /\ chan'[d] = chan[d]
        /\ outward'[c] = IF host[c] THEN Append(outward[c], Head(chan[c])) ELSE outward[c]
        /\ chan'[c] = Tail(chan[c])
    BY <1>2, <2>1, WriteToFacts DEF SessionType, WireType
  <2>3. \A d \in Conns : d # c => StreamOk(d)'
    BY <1>1, <1>2, <2>2, StreamSame DEF StreamInv
  <2>4. CASE host[c]
    BY <1>1, <1>2, <2>2, <2>3, <2>4, StreamPumps DEF StreamInv
  <2>5. CASE ~ host[c]
    BY <1>1, <1>2, <2>2, <2>3, <2>5, StreamCut DEF StreamInv
  <2> QED
    BY <2>4, <2>5
<1>3. CASE /\ chan[c] # << >> /\ ~ host[c] /\ pump' = [pump EXCEPT ![c] = "ended"]
           /\ chan' = [chan EXCEPT ![c] = << >>] /\ UNCHANGED outward
  <2>1. /\ \A d \in Conns : d # c => chan'[d] = chan[d] /\ pump'[d] = pump[d]
        /\ chan'[c] = << >>
    BY <1>3 DEF SessionType, WireType
  <2>2. \A d \in Conns : d # c => StreamOk(d)'
    BY <1>1, <1>3, <2>1, StreamSame DEF StreamInv
  <2>3. StreamOk(c)'
    BY <1>1, <1>3, <2>1, StreamCut DEF StreamInv
  <2> QED
    BY <2>2, <2>3 DEF StreamInv
<1>4. CASE /\ chan[c] = << >> /\ c \notin {sink, session} /\ pump' = [pump EXCEPT ![c] = "ended"]
           /\ UNCHANGED <<chan, outward>>
  <2>1. \A d \in Conns : d # c => pump'[d] = pump[d]
    BY <1>4 DEF SessionType, WireType
  <2> QED
    BY <1>1, <1>4, <2>1, StreamSame DEF StreamInv
<1> QED
  BY <1>2, <1>3, <1>4 DEF Pump

LEMMA AgentStream ==
  ASSUME SessionType, SessionType', FreshInv, StreamInv, UNCHANGED <<hostVars, got, stalled>>,
         \/ Accept \/ SetOutbound \/ WriteHello \/ ReadInbound \/ ReadFails \/ JobAnswered
         \/ Evaluated \/ Emit \/ \E c \in Conns : Pump(c)
  PROVE  StreamInv'
<1>A. AtInv
  BY DEF FreshInv
<1>1. CASE UNCHANGED <<sink, emitted, host, outward, chan, pump, helloAt>>
  BY <1>1, StreamSame DEF StreamInv
<1>2. CASE Accept \/ ReadInbound \/ ReadFails \/ Evaluated
  BY <1>1, <1>2 DEF Accept, ReadInbound, ReadFails, Evaluated, wires
<1>3. CASE SetOutbound
  <2>1. sink' = session /\ Blank(session) /\ UNCHANGED <<emitted, host, outward, chan, pump, helloAt>>
    BY <1>3, <1>A DEF SetOutbound, AtInv, wires
  <2>2. \A c \in Conns : c # session => StreamOk(c)'
    BY <2>1, StreamSame DEF StreamInv
  <2> QED
    BY <2>1, <2>2, StreamBlank DEF Blank, StreamInv
<1>4. CASE WriteHello
  <2>1. at = "hello" /\ session \in Conns /\ sink = session /\ pump[session] = "none"
        /\ got[session] = << >> /\ outward[session] = << >>
        /\ UNCHANGED <<sink, emitted, host, chan>>
    BY <1>4, <1>A DEF WriteHello, AtInv, SessionType, AgentType, FreshInv
  <2>2. CASE EndSession /\ UNCHANGED <<outward, pump, helloAt>>
    BY <1>1, <2>1, <2>2
  <2>3. CASE /\ WriteTo(session, Hello)
             /\ pump' = [pump EXCEPT ![session] = "runs"]
             /\ helloAt' = [helloAt EXCEPT ![session] = emitted]
    <3> PICK c \in Conns : c = session
      BY <2>1
    <3>1. /\ \A d \in Conns : d # c => outward'[d] = outward[d]
          /\ outward'[c] = IF host[c] THEN Append(outward[c], Hello) ELSE outward[c]
      BY <2>1, <2>3, WriteToFacts, NamedFrames DEF SessionType
    <3>2. /\ \A d \in Conns : d # c => pump'[d] = pump[d] /\ helloAt'[d] = helloAt[d]
          /\ pump'[c] = "runs" /\ helloAt'[c] = emitted
      BY <2>1, <2>3 DEF SessionType, WireType
    <3>3. \A d \in Conns : d # c => StreamOk(d)'
      BY <2>1, <3>1, <3>2, StreamSame DEF StreamInv
    <3>4. outward'[c] \in {<< >>, Append(<< >>, Hello)}
      BY <2>1, <3>1
    <3>5. StreamOk(c)'
      BY <2>1, <3>2, <3>4, HelloWritten DEF StreamInv
    <3> QED
      BY <3>3, <3>5 DEF StreamInv
  <2> QED
    BY <1>4, <2>2, <2>3 DEF WriteHello
<1>5. CASE JobAnswered
  <2>1. /\ session \in Conns /\ UNCHANGED <<sink, emitted, host, outward, pump, helloAt>>
        /\ chan' = chan \/ SendOn(session, InboundAnswer(waiting))
    BY <1>5, <1>A DEF JobAnswered, AtInv, SessionType, AgentType
  <2>2. InboundAnswer(waiting) \in Frames /\ InboundAnswer(waiting).type # "Send"
    BY FrameTypesOK DEF InboundAnswer, SessionType, AgentType, Frames, FrameTypes
  <2>3. CASE SendOn(session, InboundAnswer(waiting)) /\ pump[session] # "ended"
    <3> PICK c \in Conns, f \in Frames : c = session /\ f = InboundAnswer(waiting)
      BY <2>1, <2>2
    <3>1. /\ \A d \in Conns : d # c => chan'[d] = chan[d]
          /\ chan'[c] = Append(chan[c], f)
      BY <2>1, <2>3, SendOnFacts DEF SessionType
    <3>2. \A d \in Conns : d # c => StreamOk(d)'
      BY <2>1, <3>1, StreamSame DEF StreamInv
    <3>3. StreamOk(c)'
      BY <2>1, <2>2, <3>1, StreamQueues DEF StreamInv
    <3> QED
      BY <3>2, <3>3 DEF StreamInv
  <2>4. CASE chan' = chan
    BY <1>1, <2>1, <2>4
  <2> QED
    BY <2>1, <2>3, <2>4 DEF SendOn
<1>6. CASE Emit
  <2>1. /\ sink \in Conns /\ UNCHANGED <<sink, host, outward, pump, helloAt>>
        /\ emitted' = emitted + 1 /\ emitted \in Nat /\ SendOn(sink, Frame("Send", emitted + 1))
    BY <1>6 DEF Emit, SessionType, AgentType, agentVars
  <2> PICK c \in Conns, f \in Frames : c = sink /\ f = Frame("Send", emitted + 1)
    BY <2>1, FrameTypesOK DEF FrameTypes
  <2>2. f.type = "Send" /\ f.n = emitted + 1
    BY <2>1, FrameTypesOK DEF FrameTypes
  <2>3. /\ \A d \in Conns : d # c => chan'[d] = chan[d]
        /\ chan'[c] = IF pump[c] = "ended" THEN chan[c] ELSE Append(chan[c], f)
    BY <2>1, SendOnFacts DEF SessionType
  <2>4. \A d \in Conns : d # c => StreamOk(d)'
    BY <2>1, <2>3, StreamSame DEF StreamInv
  <2>5. CASE pump[c] = "ended"
    <3>1. chan' = chan
      BY <2>1, <2>5 DEF SendOn
    <3>2. StreamOk(c)'
      BY <2>1, <2>5, <3>1, StreamLoses DEF StreamInv
    <3> QED
      BY <2>4, <3>2 DEF StreamInv
  <2>6. CASE pump[c] # "ended"
    <3>1. StreamOk(c)'
      BY <2>1, <2>2, <2>3, <2>6, StreamQueues DEF StreamInv
    <3> QED
      BY <2>4, <3>1 DEF StreamInv
  <2> QED
    BY <2>5, <2>6
<1> QED
  BY <1>2, <1>3, <1>4, <1>5, <1>6, PumpStream

-----------------------------------------------------------------------------
\* What a host that has a connection does with it.

Same(c) == /\ got'[c] = got[c] /\ outward'[c] = outward[c] /\ inward'[c] = inward[c]
           /\ host'[c] = host[c]
Stays(h) == pc'[h] = pc[h] /\ call'[h] = call[h]
Reads(c) == outward[c] # << >> /\ got'[c] = Append(got[c], Head(outward[c])) /\ UNCHANGED stalled
Drops(c) == outward'[c] = << >> /\ host'[c] = FALSE
Sends(c, t) == \E n \in Nat : inward'[c] = Append(inward[c], Frame(t, n))
Idles(h, c) == Stays(h) /\ Same(c)
Skips(h, c) ==
  /\ Stays(h) /\ c \in stalled /\ outward[c] # << >> /\ outward'[c] = Tail(outward[c])
  /\ got'[c] = got[c] /\ inward'[c] = inward[c] /\ host'[c] = host[c] /\ UNCHANGED stalled
Quits(h, c) ==
  /\ pc'[h] = "done" /\ call'[h] = call[h] /\ Drops(c)
  /\ got'[c] = got[c] /\ inward'[c] = inward[c] /\ UNCHANGED stalled
Takes(h, c) ==
  /\ Reads(c) /\ outward'[c] = Tail(outward[c]) /\ host'[c] = host[c] /\ call'[h] = call[h]
  /\ inward'[c] = inward[c] \/ Sends(c, "ScriptLoad") \/ Sends(c, "Post")
  /\ \/ pc[h] = "hello" /\ pc'[h] = "listen" /\ Head(outward[c]) = Hello
     \/ pc[h] = "listen" /\ pc'[h] = "listen"
     \/ pc[h] = "reply" /\ pc'[h] = "reply" /\ Head(outward[c]).type # "RpcReply"
Goes(h, c) ==
  \/ pc[h] = "listen" /\ Head(outward[c]).type = "Send"
  \/ pc[h] = "reply" /\ Head(outward[c]).type = "RpcReply"
Asks(h, c) ==
  /\ Reads(c) /\ Goes(h, c) /\ outward'[c] = Tail(outward[c]) /\ host'[c] = host[c]
  /\ pc'[h] = "reply" /\ call'[h] = call[h] + 1
  /\ inward'[c] = Append(inward[c], Frame("RpcCall", call[h] + 1))
Finishes(h, c) ==
  /\ Reads(c) /\ Goes(h, c) /\ Drops(c) /\ inward'[c] = inward[c]
  /\ pc'[h] = "done" /\ call'[h] = call[h]

LEMMA ListenShape ==
  ASSUME SessionType, SessionType', ConnInv, NEW h \in Hosts, NEW c \in Conns, c = conn[h],
         \/ HelloArrives(h) \/ Stall(h) \/ ReadGarbage(h) \/ ReadEof(h)
         \/ Listen(h) \/ AwaitReply(h) \/ TimesOut(h) \/ Killed(h)
  PROVE  /\ UNCHANGED <<agentVars, agent, chan, pump, helloAt, emitted, conn>>
         /\ stalled \subseteq stalled' /\ pc[h] \in {"hello", "listen", "reply"}
         /\ \A d \in Conns : d # c => Same(d)
         /\ \A g \in Hosts : g # h => pc'[g] = pc[g] /\ call'[g] = call[g]
         /\ \/ Idles(h, c) \/ Skips(h, c) \/ Quits(h, c) \/ Takes(h, c) \/ Asks(h, c)
            \/ Finishes(h, c)
<1> USE DEF SessionType
<1>1. pc[h] \in {"hello", "listen", "reply"}
      /\ UNCHANGED <<agentVars, agent, chan, pump, helloAt, emitted, conn>>
  BY DEF HelloArrives, Stall, ReadGarbage, ReadEof, Listen, AwaitReply, TimesOut, Killed, Listens,
         svars, wires
<1>2. ASSUME End(h)
      PROVE  /\ pc'[h] = "done" /\ \A g \in Hosts : g # h => pc'[g] = pc[g]
             /\ Drops(c) /\ \A d \in Conns : d # c => outward'[d] = outward[d] /\ host'[d] = host[d]
  BY <1>2, HangUpFacts, GotoFacts DEF End, Drops
<1>3. ASSUME outward[c] # << >>, NEW f, Received(h, f), UNCHANGED stalled
      PROVE  /\ Reads(c) /\ f = Head(outward[c]) /\ f \in Frames
             /\ \A d \in Conns : d # c => got'[d] = got[d]
  BY <1>3, ReceivedFacts DEF Reads
<1>4. ASSUME outward[c] # << >>, Taken(h)
      PROVE  /\ outward'[c] = Tail(outward[c])
             /\ \A d \in Conns : d # c => outward'[d] = outward[d]
  BY <1>4, TakenFacts
<1>5. ASSUME NEW t \in FrameTypes, NEW n \in Nat, SendFrame(h, Frame(t, n))
      PROVE  /\ inward'[c] = Append(inward[c], Frame(t, n)) /\ Sends(c, t)
             /\ \A d \in Conns : d # c => inward'[d] = inward[d]
  <2>1. Frame(t, n) \in Frames
    BY FrameTypesOK
  <2> QED
    BY <1>5, <2>1, SendFrameFacts DEF Sends
<1>6. ASSUME NEW p \in Held, Goto(h, p)
      PROVE  pc'[h] = p /\ \A g \in Hosts : g # h => pc'[g] = pc[g]
  BY <1>6, GotoFacts
<1>7. CASE HelloArrives(h)
  <2>1. /\ pc[h] = "hello" /\ outward[c] # << >> /\ Received(h, Hello) /\ Taken(h) /\ Goto(h, "listen")
        /\ SendFrame(h, Frame("ScriptLoad", 0)) \/ UNCHANGED inward
        /\ UNCHANGED <<host, call, stalled>>
    BY <1>7 DEF HelloArrives, Arrived
  <2>2. pc'[h] = "listen" /\ \A g \in Hosts : g # h => pc'[g] = pc[g]
    BY <1>6, <2>1 DEF Held
  <2>3. /\ inward'[c] = inward[c] \/ Sends(c, "ScriptLoad")
        /\ \A d \in Conns : d # c => inward'[d] = inward[d]
    BY <1>5, <2>1 DEF FrameTypes
  <2>4. Takes(h, c) /\ \A d \in Conns : d # c => Same(d)
    BY <1>3, <1>4, <2>1, <2>2, <2>3 DEF Takes, Same
  <2> QED
    BY <1>1, <2>1, <2>2, <2>4
<1>8. CASE Stall(h)
  <2>1. UNCHANGED <<pc, call, got, wires>> /\ stalled \subseteq stalled'
    BY <1>8 DEF Stall, svars
  <2> QED
    BY <1>1, <2>1 DEF Same, Idles, Stays, wires
<1>9. CASE ReadGarbage(h)
  <2>1. UNCHANGED <<call, got, inward, stalled>> /\ lost[h]
    BY <1>9 DEF ReadGarbage
  <2>2. c \in stalled
    BY <2>1 DEF ConnInv, HostOk
  <2>3. CASE outward[c] # << >> /\ Taken(h) /\ UNCHANGED <<pc, host>>
    BY <1>1, <1>4, <2>1, <2>2, <2>3 DEF Skips, Same, Stays
  <2>4. CASE End(h)
    BY <1>1, <1>2, <2>1, <2>4 DEF Quits, Same
  <2>5. CASE UNCHANGED <<outward, pc, host>>
    BY <1>1, <2>1, <2>5 DEF Idles, Stays, Same
  <2> QED
    BY <1>9, <2>3, <2>4, <2>5 DEF ReadGarbage
<1>10. CASE ReadEof(h) \/ TimesOut(h) \/ Killed(h)
  <2>1. End(h) /\ UNCHANGED <<call, got, inward, stalled>>
    BY <1>10 DEF ReadEof, TimesOut, Killed
  <2> QED
    BY <1>1, <1>2, <2>1 DEF Quits, Same
<1>11. CASE Listen(h) \/ AwaitReply(h)
  <2>1. /\ outward[c] # << >> /\ pc[h] \in {"listen", "reply"} /\ UNCHANGED stalled
    BY <1>11 DEF Listen, AwaitReply, Arrived
  <2>2. PICK f : /\ Received(h, f)
                 /\ \/ pc[h] = "listen" /\ Hears(h, f)
                    \/ pc[h] = "listen" /\ f.type = "Send" /\ NextCall(h)
                    \/ pc[h] = "reply" /\ f.type = "RpcReply" /\ NextCall(h)
                    \/ pc[h] = "reply" /\ f.type = "RpcReply" /\ End(h) /\ UNCHANGED <<call, inward>>
                    \/ /\ pc[h] = "reply" /\ f.type # "RpcReply"
                       /\ Taken(h) /\ UNCHANGED <<pc, call, host, inward>>
    BY <1>11 DEF Listen, AwaitReply, Awaited
  <2>3. /\ Reads(c) /\ f = Head(outward[c]) /\ f \in Frames
        /\ \A d \in Conns : d # c => got'[d] = got[d]
    BY <1>3, <2>1, <2>2
  <2>4. CASE pc[h] = "listen" /\ Hears(h, f)
    <3>1. /\ Taken(h) /\ UNCHANGED <<pc, call, host>>
          /\ SendFrame(h, Frame("Post", f.n)) \/ UNCHANGED inward
      BY <2>4 DEF Hears
    <3>2. /\ inward'[c] = inward[c] \/ Sends(c, "Post")
          /\ \A d \in Conns : d # c => inward'[d] = inward[d]
      BY <1>5, <2>3, <3>1 DEF FrameTypes, Frames
    <3>3. Takes(h, c) /\ \A d \in Conns : d # c => Same(d)
      BY <1>4, <2>1, <2>3, <2>4, <3>1, <3>2 DEF Takes, Same
    <3> QED
      BY <1>1, <2>1, <3>1, <3>3
  <2>5. ASSUME \/ pc[h] = "listen" /\ f.type = "Send"
               \/ pc[h] = "reply" /\ f.type = "RpcReply",
               End(h), UNCHANGED <<call, inward>>
        PROVE  /\ Finishes(h, c) /\ \A d \in Conns : d # c => Same(d)
               /\ \A g \in Hosts : g # h => pc'[g] = pc[g] /\ call'[g] = call[g]
    BY <1>2, <2>3, <2>5 DEF Finishes, Goes, Same
  <2>6. CASE /\ \/ pc[h] = "listen" /\ f.type = "Send"
                \/ pc[h] = "reply" /\ f.type = "RpcReply"
             /\ NextCall(h)
    <3>1. CASE /\ call' = [call EXCEPT ![h] = call[h] + 1]
               /\ SendFrame(h, Frame("RpcCall", call[h] + 1))
               /\ Goto(h, "reply") /\ Taken(h) /\ UNCHANGED host
      <4>1. call'[h] = call[h] + 1 /\ call[h] \in Nat /\ \A g \in Hosts : g # h => call'[g] = call[g]
        BY <3>1 DEF HostType
      <4>2. pc'[h] = "reply" /\ \A g \in Hosts : g # h => pc'[g] = pc[g]
        BY <1>6, <3>1 DEF Held
      <4>3. /\ inward'[c] = Append(inward[c], Frame("RpcCall", call[h] + 1))
            /\ \A d \in Conns : d # c => inward'[d] = inward[d]
        BY <1>5, <3>1, <4>1 DEF FrameTypes
      <4>4. Asks(h, c) /\ \A d \in Conns : d # c => Same(d)
        BY <1>4, <2>1, <2>3, <2>6, <3>1, <4>1, <4>2, <4>3 DEF Asks, Goes, Same
      <4> QED
        BY <1>1, <2>1, <4>1, <4>2, <4>4
    <3>2. CASE End(h) /\ UNCHANGED <<call, inward>>
      BY <1>1, <2>1, <2>5, <2>6, <3>2
    <3> QED
      BY <2>1, <2>6, <3>1, <3>2, CallsOn
  <2>7. CASE pc[h] = "reply" /\ f.type = "RpcReply" /\ End(h) /\ UNCHANGED <<call, inward>>
    BY <1>1, <2>1, <2>5, <2>7
  <2>8. CASE /\ pc[h] = "reply" /\ f.type # "RpcReply"
             /\ Taken(h) /\ UNCHANGED <<pc, call, host, inward>>
    <3>1. Takes(h, c) /\ \A d \in Conns : d # c => Same(d)
      BY <1>4, <2>1, <2>3, <2>8 DEF Takes, Same
    <3> QED
      BY <1>1, <2>1, <2>8, <3>1
  <2> QED
    BY <2>2, <2>4, <2>6, <2>7, <2>8
<1> QED
  BY <1>7, <1>8, <1>9, <1>10, <1>11

\* A host that waits for something has its end open, and hears Hello first.
OpenInv == \A h \in Hosts : pc[h] \in {"hello", "listen", "reply"} => host[conn[h]]
HelloInv == \A c \in Conns : got[c] # << >> => Head(got[c]) = Hello
HearInv == OpenInv /\ HelloInv /\ StreamInv

LEMMA HeadOfAppend ==
  ASSUME NEW s \in Seq(Frames), NEW f \in Frames
  PROVE  Head(Append(s, f)) = IF s = << >> THEN f ELSE Head(s)
<1>1. /\ Append(s, f) \in Seq(Frames) /\ Append(s, f) # << >> /\ Len(s) \in Nat
      /\ Append(s, f)[Len(s) + 1] = f /\ \A i \in 1 .. Len(s) : Append(s, f)[i] = s[i]
  BY AppendProperties, LenProperties
<1>2. Head(Append(s, f)) = Append(s, f)[1]
  BY <1>1, HeadTailProperties
<1>3. CASE s = << >>
  BY <1>3
<1>4. CASE s # << >>
  <2>1. Len(s) > 0 /\ Head(s) = s[1]
    BY <1>1, <1>4, EmptySeq, HeadTailProperties
  <2> QED
    BY <1>1, <1>2, <1>4, <2>1
<1> QED
  BY <1>3, <1>4

LEMMA AgentHears ==
  ASSUME SessionType, SessionType', FreshInv, HearInv, UNCHANGED <<hostVars, got, stalled>>,
         \/ Accept \/ SetOutbound \/ WriteHello \/ ReadInbound \/ ReadFails \/ JobAnswered
         \/ Evaluated \/ Emit \/ \E c \in Conns : Pump(c)
  PROVE  HearInv'
<1>1. UNCHANGED host
  BY DEF Accept, SetOutbound, WriteHello, ReadInbound, ReadFails, JobAnswered, Evaluated, Emit, Pump, wires
<1>2. StreamInv'
  BY AgentStream DEF HearInv
<1>3. OpenInv' /\ HelloInv'
  BY <1>1 DEF HearInv, OpenInv, HelloInv, hostVars
<1> QED
  BY <1>2, <1>3 DEF HearInv

LEMMA ListensHears ==
  ASSUME SessionType, SessionType', ConnInv, FreshInv, HearInv, NEW h \in Hosts,
         \/ HelloArrives(h) \/ Stall(h) \/ ReadGarbage(h) \/ ReadEof(h)
         \/ Listen(h) \/ AwaitReply(h) \/ TimesOut(h) \/ Killed(h)
  PROVE  HearInv'
<1> PICK c \in Conns : c = conn[h]
  <2>1. pc[h] \in Held
    BY DEF HelloArrives, Stall, ReadGarbage, ReadEof, Listen, AwaitReply, TimesOut, Killed, Listens, Held
  <2> QED
    BY <2>1, HeldConn DEF ConnInv
<1>1. /\ UNCHANGED <<agentVars, agent, chan, pump, helloAt, emitted, conn>>
      /\ stalled \subseteq stalled' /\ pc[h] \in {"hello", "listen", "reply"}
      /\ \A d \in Conns : d # c => Same(d)
      /\ \A g \in Hosts : g # h => pc'[g] = pc[g] /\ call'[g] = call[g]
      /\ \/ Idles(h, c) \/ Skips(h, c) \/ Quits(h, c) \/ Takes(h, c) \/ Asks(h, c)
         \/ Finishes(h, c)
  BY ListenShape
<1>2. host[c]
  BY <1>1 DEF HearInv, OpenInv
<1>3. \A g \in Hosts : g # h => conn[g] # c
  BY ConnsDiffer DEF ConnInv
<1>4. pc'[h] = "done" \/ host'[c] = host[c]
  BY <1>1 DEF Idles, Same, Skips, Quits, Takes, Asks, Finishes
<1>5. OpenInv'
  <2> SUFFICES ASSUME NEW g \in Hosts, pc'[g] \in {"hello", "listen", "reply"} PROVE host'[conn'[g]]
    BY DEF OpenInv
  <2>1. CASE g = h
    BY <1>1, <1>2, <1>4, <2>1
  <2>2. CASE g # h
    <3>1. pc[g] \in {"hello", "listen", "reply"} /\ conn'[g] = conn[g] /\ conn[g] # c
      BY <1>1, <1>3, <2>2
    <3>2. conn[g] \in Conns
      BY <3>1, HeldConn DEF ConnInv, Held
    <3> QED
      BY <1>1, <3>1, <3>2 DEF HearInv, OpenInv, Same
  <2> QED
    BY <2>1, <2>2
<1>6. HelloInv'
  <2> SUFFICES ASSUME NEW d \in Conns, got'[d] # << >> PROVE Head(got'[d]) = Hello
    BY DEF HelloInv
  <2>1. CASE got'[d] = got[d]
    BY <2>1 DEF HearInv, HelloInv
  <2>2. CASE got'[d] # got[d]
    <3>1. d = c
      BY <1>1, <2>2 DEF Same
    <3>2. Reads(c) /\ (pc[h] \in {"listen", "reply"} \/ Head(outward[c]) = Hello)
      BY <1>1, <2>2, <3>1 DEF Idles, Same, Skips, Quits, Takes, Asks, Finishes, Goes
    <3>3. Head(outward[c]) \in Frames /\ got[c] \in Seq(Frames)
      BY <3>2, HeadTailProperties DEF Reads, SessionType, WireType
    <3>4. Head(got'[c]) = IF got[c] = << >> THEN Head(outward[c]) ELSE Head(got[c])
      BY <3>2, <3>3, HeadOfAppend DEF Reads
    <3>5. pc[h] \in {"listen", "reply"} => got[c] # << >>
      BY DEF ConnInv, HostOk
    <3>6. pc[h] = "hello" => got[c] = << >>
      BY DEF ConnInv, HostOk
    <3> QED
      BY <1>1, <3>1, <3>2, <3>4, <3>5, <3>6 DEF HearInv, HelloInv
  <2> QED
    BY <2>1, <2>2
<1>7. StreamInv'
  <2>1. UNCHANGED <<sink, emitted, pump, chan, helloAt>>
    BY <1>1 DEF agentVars
  <2>2. \A d \in Conns : d # c => StreamOk(d)'
    BY <1>1, <2>1, StreamSame DEF Same, HearInv, StreamInv
  <2>3. StreamOk(c)
    BY DEF HearInv, StreamInv
  <2>4. outward[c] # << >> => pump[c] # "none"
    BY DEF FreshInv
  <2>5. ASSUME Idles(h, c) PROVE StreamOk(c)'
    BY <1>1, <2>1, <2>3, <2>5, StreamSame DEF Idles, Same
  <2>6. ASSUME Skips(h, c) PROVE StreamOk(c)'
    <3>1. UNCHANGED got
      <4>1. \A d \in Conns : got'[d] = got[d]
        BY <1>1, <2>6 DEF Skips, Same
      <4> QED
        BY <4>1 DEF SessionType, WireType
    <3> QED
      BY <2>1, <2>3, <2>6, <3>1, StreamSkips DEF Skips
  <2>7. ASSUME Quits(h, c) PROVE StreamOk(c)'
    BY <1>1, <2>1, <2>3, <2>7, StreamCut DEF Quits, Drops
  <2>8. ASSUME Takes(h, c) \/ Asks(h, c), UNCHANGED host PROVE StreamOk(c)'
    BY <1>2, <2>1, <2>3, <2>4, <2>8, StreamReads DEF Takes, Asks, Reads
  <2>9. ASSUME Finishes(h, c) PROVE StreamOk(c)'
    BY <1>2, <2>1, <2>3, <2>4, <2>9, StreamReads DEF Finishes, Reads, Drops
  <2>10. (Takes(h, c) \/ Asks(h, c)) => UNCHANGED host
    <3>1. ASSUME Takes(h, c) \/ Asks(h, c) PROVE \A d \in Conns : host'[d] = host[d]
      BY <1>1, <3>1 DEF Takes, Asks, Same
    <3> QED
      BY <3>1 DEF SessionType, WireType
  <2>11. StreamOk(c)'
    BY <1>1, <2>5, <2>6, <2>7, <2>8, <2>9, <2>10
  <2> QED
    BY <2>2, <2>11 DEF StreamInv
<1> QED
  BY <1>5, <1>6, <1>7 DEF HearInv

LEMMA StartsHears ==
  ASSUME SessionType, SessionType', ConnInv, ConnInv', FreshInv, HearInv, NEW h \in Hosts,
         RestartPackage(h) \/ Inject(h) \/ Forward(h) \/ ConnectFails(h)
  PROVE  HearInv'
<1>1. UNCHANGED <<got, stalled, host, outward, helloAt, emitted>>
  BY DEF RestartPackage, Inject, Forward, ConnectFails, AgentDies, svars, wires
<1>2. /\ pc'[h] \in Early \cup {"connect", "done"}
      /\ \A g \in Hosts : g # h => pc'[g] = pc[g] /\ conn'[g] = conn[g]
  <2>1. CASE RestartPackage(h) \/ Inject(h)
    BY <2>1, GotoFacts DEF RestartPackage, Inject, Early, SessionType
  <2>2. CASE Forward(h)
    BY <2>2, GotoFacts DEF Forward, Early, Held, SessionType, HostType
  <2>3. CASE ConnectFails(h)
    BY <2>3, NextAttemptFacts DEF ConnectFails, Held, SessionType, ConnInv
  <2> QED
    BY <2>1, <2>2, <2>3
<1>3. OpenInv' /\ HelloInv'
  BY <1>1, <1>2 DEF HearInv, OpenInv, HelloInv, Early
<1>4. StreamInv'
  <2>1. CASE RestartPackage(h)
    <3>1. /\ sink' = NoConn /\ \A c \in Conns : chan'[c] = << >>
          /\ \A c \in Conns : pump[c] = "none" => pump'[c] = "none"
      BY <2>1 DEF RestartPackage, AgentDies
    <3>2. NoConn \notin Conns
      BY SessionAssumption DEF Conns
    <3> QED
      BY <1>1, <3>1, <3>2, StreamDies DEF HearInv, StreamInv
  <2>2. CASE Inject(h) \/ Forward(h) \/ ConnectFails(h)
    <3>1. UNCHANGED <<sink, chan, pump>>
      BY <2>2 DEF Inject, Forward, ConnectFails, svars, wires, agentVars
    <3> QED
      BY <1>1, <3>1, StreamSame DEF HearInv, StreamInv
  <2> QED
    BY <2>1, <2>2
<1> QED
  BY <1>3, <1>4 DEF HearInv

LEMMA ConnectsHears ==
  ASSUME SessionType, SessionType', ConnInv, FreshInv, HearInv, NEW h \in Hosts,
         Connect(h) \/ HelloFails(h)
  PROVE  HearInv'
<1>1. pc[h] \in Held /\ UNCHANGED <<got, stalled, helloAt, emitted, sink, chan, pump>>
  BY DEF Connect, HelloFails, Held, agentVars
<1> PICK c \in Conns : c = conn[h]
  BY <1>1, HeldConn DEF ConnInv
<1>2. \A g \in Hosts : g # h => conn[g] # c
  BY ConnsDiffer DEF ConnInv
<1>3. \A g \in Hosts : pc[g] \in {"hello", "listen", "reply"} => conn[g] \in Conns
  BY HeldConn DEF ConnInv, Held
<1>4. CASE Connect(h)
  <2>1. /\ pc[h] = "connect" /\ UNCHANGED <<outward, conn>> /\ host'[c] = TRUE
        /\ \A d \in Conns : d # c => host'[d] = host[d]
        /\ \A g \in Hosts : g # h => pc'[g] = pc[g]
    BY <1>4, GotoFacts DEF Connect, SessionType, WireType, Held
  <2>2. Blank(c)
    <3>1. HostOf(c) = h
      BY <1>1, HeldConn DEF ConnInv
    <3> QED
      BY <2>1, <3>1 DEF FreshInv, Unused
  <2>3. OpenInv' /\ HelloInv'
    BY <1>1, <1>2, <1>3, <2>1 DEF HearInv, OpenInv, HelloInv
  <2>4. StreamOk(c)'
    BY <1>1, <2>1, <2>2, StreamBlank DEF Blank
  <2>5. \A d \in Conns : d # c => StreamOk(d)'
    BY <1>1, <2>1, StreamSame DEF HearInv, StreamInv
  <2> QED
    BY <2>3, <2>4, <2>5 DEF HearInv, StreamInv
<1>5. CASE HelloFails(h)
  <2>1. /\ outward'[c] = << >> /\ host'[c] = FALSE
        /\ \A d \in Conns : d # c => host'[d] = host[d] /\ outward'[d] = outward[d]
    BY <1>5, HangUpFacts DEF HelloFails, SessionType
  <2>2. /\ pc'[h] \in {"connect", "done"}
        /\ \A g \in Hosts : g # h => pc'[g] = pc[g] /\ conn'[g] = conn[g]
    BY <1>1, <1>5, NextAttemptFacts DEF HelloFails, SessionType, ConnInv
  <2>3. OpenInv' /\ HelloInv'
    BY <1>1, <1>2, <1>3, <2>1, <2>2 DEF HearInv, OpenInv, HelloInv
  <2>4. StreamOk(c)'
    BY <1>1, <2>1, StreamCut DEF HearInv, StreamInv
  <2>5. \A d \in Conns : d # c => StreamOk(d)'
    BY <1>1, <2>1, StreamSame DEF HearInv, StreamInv
  <2> QED
    BY <2>3, <2>4, <2>5 DEF HearInv, StreamInv
<1> QED
  BY <1>4, <1>5

-----------------------------------------------------------------------------
\* Calls and their replies.

\* Where the number of a call is: on the way to the agent, with the worker, in the
\* channel, on the way to the host, and heard.
Asked(c) == Numbers(inward[c], "RpcCall")
Worked(c) == IF session = c /\ waiting.type = "RpcCall" THEN {waiting.n} ELSE {}
Ready(c) == Numbers(chan[c], "RpcReply")
Coming(c) == Numbers(outward[c], "RpcReply")
Had(c) == Numbers(got[c], "RpcReply")
InHand(c) == Asked(c) \cup Worked(c) \cup Ready(c) \cup Coming(c)
Alone(A, B) == A = {} \/ B = {}
Steps(c) ==
  /\ Rising(inward[c], "RpcCall") /\ Rising(chan[c], "RpcReply") /\ Rising(outward[c], "RpcReply")
  /\ Alone(Asked(c), Worked(c)) /\ Alone(Asked(c), Ready(c)) /\ Alone(Asked(c), Coming(c))
  /\ Alone(Worked(c), Ready(c)) /\ Alone(Worked(c), Coming(c)) /\ Alone(Ready(c), Coming(c))
\* Only the last call is under way, and in one place.
OneCall(c, k) == k > 0 /\ Had(c) = 1 .. k - 1 /\ InHand(c) \subseteq {k} /\ Steps(c)
NoCalls(c) == InHand(c) = {} /\ Had(c) = {}
CallOk(c) ==
  LET h == HostOf(c) IN
  /\ Rising(got[c], "RpcReply")
  /\ conn[h] = c /\ pc[h] = "reply" => OneCall(c, call[h])
  /\ conn[h] = c /\ pc[h] = "done" => \E k \in 0 .. call[h] : Had(c) = 1 .. k
  /\ ~ (conn[h] = c /\ pc[h] \in {"reply", "done"}) => NoCalls(c)
\* What hosts send, and what the agent waits for.
KindInv ==
  /\ \A c \in Conns : \A t \in FrameTypes \ {"ScriptLoad", "Post", "RpcCall"} :
       Numbers(inward[c], t) = {}
  /\ waiting.type \in {"none", "ScriptLoad", "RpcCall"}
  /\ at = "wait" => waiting.type # "none"
CallInv == KindInv /\ \A c \in Conns : CallOk(c)

LEMMA RisingEmpty ==
  ASSUME NEW s, NEW t, Numbers(s, t) = {}
  PROVE  Rising(s, t)
BY DEF Numbers, Rising

\* A frame of another type at the end, or from the front.
LEMMA NumbersOtherTail ==
  ASSUME NEW s \in Seq(Frames), s # << >>, NEW t, Head(s).type # t
  PROVE  Numbers(Tail(s), t) = Numbers(s, t) /\ (Rising(s, t) => Rising(Tail(s), t))
<1>1. Numbers(s, t) = Numbers(Tail(s), t) \cup (IF Head(s).type = t THEN {Head(s).n} ELSE {})
  BY NumbersTail
<1>2. Rising(s, t) => Rising(Tail(s), t)
  BY NumbersTail
<1> QED
  BY <1>1, <1>2

LEMMA NumbersShrink ==
  ASSUME NEW s \in Seq(Frames), NEW u, NEW t,
         u \in {s, << >>} \/ (s # << >> /\ u = Tail(s))
  PROVE  Numbers(u, t) \subseteq Numbers(s, t) /\ (Rising(s, t) => Rising(u, t))
<1>1. CASE u = s
  BY <1>1
<1>2. CASE u = << >>
  BY <1>2, NumbersEmpty
<1>3. CASE s # << >> /\ u = Tail(s)
  BY <1>3, NumbersTail
<1> QED
  BY <1>1, <1>2, <1>3

\* The only frame of its type, taken from the front.
LEMMA NumbersOnly ==
  ASSUME NEW s \in Seq(Frames), s # << >>, NEW t, NEW k \in Nat, Rising(s, t),
         Numbers(s, t) \subseteq {k}, Head(s).type = t
  PROVE  Head(s).n = k /\ Numbers(Tail(s), t) = {} /\ Numbers(s, t) = {k} /\ Rising(Tail(s), t)
<1>1. /\ Numbers(s, t) = Numbers(Tail(s), t) \cup {Head(s).n}
      /\ \A m \in Numbers(Tail(s), t) : Head(s).n < m
      /\ Rising(Tail(s), t)
  BY NumbersTail
<1>2. Head(s).n = k
  BY <1>1
<1>3. \A m \in Numbers(Tail(s), t) : m = k /\ k < m
  BY <1>1, <1>2
<1>4. Numbers(Tail(s), t) = {}
  BY <1>3
<1> QED
  BY <1>1, <1>2, <1>4

LEMMA NumbersFirst ==
  ASSUME NEW s \in Seq(Frames), NEW f \in Frames, NEW t, NEW k \in Nat,
         f.type = t, f.n = k, Numbers(s, t) = {}
  PROVE  Numbers(Append(s, f), t) = {k} /\ Rising(Append(s, f), t)
<1>1. Numbers(Append(s, f), t) = Numbers(s, t) \cup {f.n}
  BY NumbersAppend
<1>2. Rising(Append(s, f), t)
  BY NumbersAppend, RisingEmpty
<1> QED
  BY <1>1, <1>2

\* Nothing new on c.
Fewer(c) ==
  /\ Asked(c)' \subseteq Asked(c) /\ Worked(c)' \subseteq Worked(c)
  /\ Ready(c)' \subseteq Ready(c) /\ Coming(c)' \subseteq Coming(c)
  /\ Rising(inward[c], "RpcCall") => Rising(inward[c], "RpcCall")'
  /\ Rising(chan[c], "RpcReply") => Rising(chan[c], "RpcReply")'
  /\ Rising(outward[c], "RpcReply") => Rising(outward[c], "RpcReply")'

LEMMA FewerCalls ==
  ASSUME NEW c \in Conns, CallOk(c), got'[c] = got[c], Fewer(c),
         NEW h \in Hosts, h = HostOf(c), pc'[h] = pc[h], conn'[h] = conn[h], call'[h] = call[h]
  PROVE  CallOk(c)'
<1>1. Had(c)' = Had(c)
  BY DEF Had
<1>2. ASSUME NEW k, OneCall(c, k) PROVE OneCall(c, k)'
  <2>1. Steps(c)'
    BY <1>2 DEF OneCall, Steps, Alone, Fewer
  <2>2. InHand(c)' \subseteq {k}
    BY <1>2 DEF OneCall, InHand, Fewer
  <2> QED
    BY <1>1, <1>2, <2>1, <2>2 DEF OneCall
<1>3. NoCalls(c) => NoCalls(c)'
  BY <1>1 DEF NoCalls, InHand, Fewer
<1> QED
  BY <1>1, <1>2, <1>3 DEF CallOk

LEMMA CallShrinks ==
  ASSUME NEW c \in Conns, CallOk(c), got'[c] = got[c], UNCHANGED <<pc, conn, call>>, Fewer(c)
  PROVE  CallOk(c)'
<1>1. HostOf(c) \in Hosts
  BY DEF Conns, HostOf
<1> QED
  BY <1>1, FewerCalls

\* A connection that no call was made on.
LEMMA CallIdle ==
  ASSUME NEW c \in Conns, NoCalls(c), got'[c] = got[c], Fewer(c), HostType',
         ~ (conn'[HostOf(c)] = c /\ pc'[HostOf(c)] = "reply")
  PROVE  CallOk(c)'
<1>1. NoCalls(c)'
  BY DEF NoCalls, Had, InHand, Fewer
<1>2. Rising(got[c], "RpcReply")'
  BY RisingEmpty DEF NoCalls, Had
<1>3. call'[HostOf(c)] \in Nat
  <2>1. HostOf(c) \in Hosts
    BY DEF Conns, HostOf
  <2> QED
    BY <2>1 DEF HostType
<1>4. \E k \in 0 .. call'[HostOf(c)] : Had(c)' = 1 .. k
  <2>1. 0 \in 0 .. call'[HostOf(c)] /\ 1 .. 0 = {}
    BY <1>3
  <2> QED
    BY <1>1, <2>1 DEF NoCalls
<1> QED
  BY <1>1, <1>2, <1>4 DEF CallOk

\* A step of the agent that moves a call on.
LEMMA CallMoves ==
  ASSUME NEW c \in Conns, CallOk(c), UNCHANGED <<pc, conn, call, got>>,
         \A k \in Nat : InHand(c) \subseteq {k} /\ Steps(c) => InHand(c)' \subseteq {k} /\ Steps(c)',
         InHand(c) = {} => InHand(c)' = {},
         HostType
  PROVE  CallOk(c)'
<1>1. Had(c)' = Had(c) /\ Rising(got[c], "RpcReply")' = Rising(got[c], "RpcReply")
  BY DEF Had
<1>2. ASSUME NEW k \in Nat, OneCall(c, k) PROVE OneCall(c, k)'
  BY <1>1, <1>2 DEF OneCall
<1>3. NoCalls(c) => NoCalls(c)'
  BY <1>1 DEF NoCalls
<1>4. call'[HostOf(c)] = call[HostOf(c)] /\ call[HostOf(c)] \in Nat
  <2>1. HostOf(c) \in Hosts
    BY DEF Conns, HostOf
  <2> QED
    BY <2>1 DEF HostType
<1> QED
  BY <1>1, <1>2, <1>3, <1>4 DEF CallOk

LEMMA CallTypes ==
  ASSUME SessionType, NEW c \in Conns
  PROVE  inward[c] \in Seq(Frames) /\ outward[c] \in Seq(Frames) /\ chan[c] \in Seq(Frames)
         /\ got[c] \in Seq(Frames)
BY DEF SessionType, WireType

\* The pump of c: a reply goes from the channel to the host, or is lost.
LEMMA PumpCalls ==
  ASSUME SessionType, NEW c \in Conns, CallOk(c), Pump(c), UNCHANGED <<hostVars, got>>
  PROVE  CallOk(c)'
<1>1. /\ UNCHANGED <<pc, conn, call, inward, session, waiting>> /\ HostType
      /\ Asked(c)' = Asked(c) /\ Worked(c)' = Worked(c)
      /\ Rising(inward[c], "RpcCall")' = Rising(inward[c], "RpcCall")
  BY DEF Pump, agentVars, hostVars, Asked, Worked, SessionType
<1>2. CASE outward'[c] = outward[c]
  <2>1. Coming(c)' = Coming(c) /\ (Rising(outward[c], "RpcReply") => Rising(outward[c], "RpcReply")')
    BY <1>2 DEF Coming
  <2>2. chan'[c] \in {chan[c], << >>} \/ (chan[c] # << >> /\ chan'[c] = Tail(chan[c]))
    BY <1>2 DEF Pump, SessionType, WireType
  <2>3. Ready(c)' \subseteq Ready(c) /\ (Rising(chan[c], "RpcReply") => Rising(chan[c], "RpcReply")')
    BY <2>2, CallTypes, NumbersShrink DEF Ready
  <2> QED
    BY <1>1, <2>1, <2>3, CallShrinks DEF Fewer
<1>3. CASE /\ chan[c] # << >> /\ chan'[c] = Tail(chan[c])
           /\ outward'[c] = Append(outward[c], Head(chan[c]))
  <2> PICK s \in Seq(Frames), o \in Seq(Frames), f \in Frames :
        s = chan[c] /\ o = outward[c] /\ f = Head(s)
    BY <1>3, CallTypes, HeadTailProperties
  <2>1. CASE f.type # "RpcReply"
    <3>1. Ready(c)' = Ready(c) /\ (Rising(chan[c], "RpcReply") => Rising(chan[c], "RpcReply")')
      BY <1>3, <2>1, NumbersOtherTail DEF Ready
    <3>2. Coming(c)' = Coming(c) /\ (Rising(outward[c], "RpcReply") => Rising(outward[c], "RpcReply")')
      BY <1>3, <2>1, NumbersOther DEF Coming
    <3> QED
      BY <1>1, <3>1, <3>2, CallShrinks DEF Fewer
  <2>2. CASE f.type = "RpcReply"
    <3>1. f.n \in Ready(c)
      <4>1. Numbers(s, "RpcReply") = Numbers(Tail(s), "RpcReply") \cup {f.n}
        BY <1>3, <2>2, NumbersTail
      <4> QED
        BY <4>1 DEF Ready
    <3>2. ASSUME NEW k \in Nat, InHand(c) \subseteq {k}, Steps(c)
          PROVE  InHand(c)' \subseteq {k} /\ Steps(c)'
      <4>1. /\ Rising(s, "RpcReply") /\ Numbers(s, "RpcReply") \subseteq {k}
            /\ Asked(c) = {} /\ Worked(c) = {} /\ Coming(c) = {}
        BY <3>1, <3>2 DEF Steps, InHand, Ready, Alone
      <4>t. s # << >> /\ f.n = k /\ Numbers(Tail(s), "RpcReply") = {} /\ Rising(Tail(s), "RpcReply")
        BY <1>3, <2>2, <4>1, NumbersOnly
      <4>a. Numbers(Append(o, f), "RpcReply") = {k} /\ Rising(Append(o, f), "RpcReply")
        <5>1. Numbers(o, "RpcReply") = {}
          BY <4>1 DEF Coming
        <5>2. f.type = "RpcReply" /\ f.n = k /\ o \in Seq(Frames) /\ f \in Frames /\ k \in Nat
          BY <2>2, <4>t
        <5>3. Numbers(Append(o, f), "RpcReply") = Numbers(o, "RpcReply") \cup {f.n}
          BY <5>2, NumbersAppend
        <5>4. Rising(Append(o, f), "RpcReply")
          BY <5>1, <5>2, NumbersFirst
        <5> QED
          BY <5>1, <5>2, <5>3, <5>4
      <4>2. Ready(c)' = {} /\ Rising(chan[c], "RpcReply")'
        BY <1>3, <4>t DEF Ready
      <4>3. Coming(c)' = {k} /\ Rising(outward[c], "RpcReply")'
        BY <1>3, <4>a DEF Coming
      <4> QED
        BY <1>1, <3>2, <4>1, <4>2, <4>3 DEF Steps, InHand, Alone
    <3>3. InHand(c) # {}
      BY <3>1 DEF InHand
    <3> QED
      BY <1>1, <3>2, <3>3, CallMoves DEF hostVars
  <2> QED
    BY <2>1, <2>2
<1>4. outward'[c] = outward[c] \/ (chan[c] # << >> /\ chan'[c] = Tail(chan[c])
                                    /\ outward'[c] = Append(outward[c], Head(chan[c])))
  BY DEF Pump, WriteTo, SessionType, WireType
<1> QED
  BY <1>2, <1>3, <1>4

\* The worker takes a call off the wire.
LEMMA TakesCall ==
  ASSUME SessionType, FreshInv, KindInv, NEW c \in Conns, c = session, CallOk(c), ReadInbound,
         UNCHANGED <<hostVars, got>>
  PROVE  CallOk(c)'
<1>1. /\ at = "read" /\ waiting = None /\ inward[c] # << >> /\ inward'[c] = Tail(inward[c])
      /\ UNCHANGED <<session, chan, outward, pc, conn, call, got>> /\ HostType
  BY DEF ReadInbound, FreshInv, AtInv, SessionType, WireType, hostVars
<1>2. Worked(c) = {}
  BY <1>1, NamedFrames DEF Worked
<1>3. /\ Ready(c)' = Ready(c) /\ Coming(c)' = Coming(c)
      /\ Rising(chan[c], "RpcReply")' = Rising(chan[c], "RpcReply")
      /\ Rising(outward[c], "RpcReply")' = Rising(outward[c], "RpcReply")
  BY <1>1 DEF Ready, Coming
<1> PICK s \in Seq(Frames), f \in Frames : s = inward[c] /\ f = Head(s)
  BY <1>1, CallTypes, HeadTailProperties
<1>4. waiting' = IF f.type = "Post" THEN waiting ELSE f
  BY <1>1 DEF ReadInbound
<1>5. CASE f.type # "RpcCall"
  <2>1. Asked(c)' = Asked(c) /\ (Rising(inward[c], "RpcCall") => Rising(inward[c], "RpcCall")')
    BY <1>1, <1>5, NumbersOtherTail DEF Asked
  <2>2. Worked(c)' = {}
    BY <1>1, <1>4, <1>5, NamedFrames DEF Worked
  <2> QED
    BY <1>1, <1>2, <1>3, <2>1, <2>2, CallShrinks DEF Fewer
<1>6. CASE f.type = "RpcCall"
  <2>1. f.n \in Asked(c)
    <3>1. Numbers(s, "RpcCall") = Numbers(Tail(s), "RpcCall") \cup {f.n}
      BY <1>1, <1>6, NumbersTail
    <3> QED
      BY <3>1 DEF Asked
  <2>2. ASSUME NEW k \in Nat, InHand(c) \subseteq {k}, Steps(c)
        PROVE  InHand(c)' \subseteq {k} /\ Steps(c)'
    <3>1. /\ Rising(s, "RpcCall") /\ Numbers(s, "RpcCall") \subseteq {k}
          /\ Ready(c) = {} /\ Coming(c) = {}
      BY <2>1, <2>2 DEF Steps, InHand, Asked, Alone
    <3>t. f.n = k /\ Numbers(Tail(s), "RpcCall") = {} /\ Rising(Tail(s), "RpcCall")
      BY <1>1, <1>6, <3>1, NumbersOnly
    <3>2. f.n = k /\ Asked(c)' = {} /\ Rising(inward[c], "RpcCall")'
      BY <1>1, <3>t DEF Asked
    <3>3. Worked(c)' = {k}
      BY <1>1, <1>4, <1>6, <3>2 DEF Worked
    <3> QED
      BY <1>3, <2>2, <3>1, <3>2, <3>3 DEF Steps, InHand, Alone
  <2>3. InHand(c) # {}
    BY <2>1 DEF InHand
  <2> QED
    BY <1>1, <2>2, <2>3, CallMoves
<1> QED
  BY <1>5, <1>6

\* The worker answers.
LEMMA AnswersCall ==
  ASSUME SessionType, FreshInv, KindInv, NEW c \in Conns, c = session, CallOk(c), JobAnswered,
         UNCHANGED <<hostVars, got>>
  PROVE  CallOk(c)'
<1>1. /\ at = "wait" /\ UNCHANGED <<inward, outward, pc, conn, call, got>> /\ HostType
      /\ waiting' = None /\ waiting \in Frames /\ waiting.type \in {"ScriptLoad", "RpcCall"}
      /\ waiting.n \in Nat
  BY DEF JobAnswered, EndSession, hostVars, SessionType, AgentType, KindInv, Frames
<1>2. Worked(c)' = {}
  BY <1>1, NamedFrames DEF Worked
<1>3. /\ Asked(c)' = Asked(c) /\ Coming(c)' = Coming(c)
      /\ Rising(inward[c], "RpcCall")' = Rising(inward[c], "RpcCall")
      /\ Rising(outward[c], "RpcReply")' = Rising(outward[c], "RpcReply")
  BY <1>1 DEF Asked, Coming
<1>4. CASE chan'[c] = chan[c]
  <2>1. Ready(c)' = Ready(c) /\ (Rising(chan[c], "RpcReply") => Rising(chan[c], "RpcReply")')
    BY <1>4 DEF Ready
  <2> QED
    BY <1>1, <1>2, <1>3, <2>1, CallShrinks DEF Fewer
<1>5. CASE chan'[c] = Append(chan[c], InboundAnswer(waiting))
  <2> PICK s \in Seq(Frames), f \in Frames : s = chan[c] /\ f = InboundAnswer(waiting)
    BY <1>1, CallTypes, FrameTypesOK DEF InboundAnswer, FrameTypes
  <2>1. CASE waiting.type = "ScriptLoad"
    <3>1. f.type # "RpcReply"
      BY <2>1, FrameTypesOK DEF InboundAnswer, FrameTypes
    <3>2. Ready(c)' = Ready(c) /\ (Rising(chan[c], "RpcReply") => Rising(chan[c], "RpcReply")')
      BY <1>5, <3>1, NumbersOther DEF Ready
    <3> QED
      BY <1>1, <1>2, <1>3, <3>2, CallShrinks DEF Fewer
  <2>2. CASE waiting.type = "RpcCall"
    <3>1. f.type = "RpcReply" /\ f.n = waiting.n
      BY <1>1, <2>2, FrameTypesOK DEF InboundAnswer, FrameTypes
    <3>2. Worked(c) = {f.n}
      BY <2>2, <3>1 DEF Worked
    <3>3. ASSUME NEW k \in Nat, InHand(c) \subseteq {k}, Steps(c)
          PROVE  InHand(c)' \subseteq {k} /\ Steps(c)'
      <4>1. f.n = k /\ Asked(c) = {} /\ Ready(c) = {} /\ Coming(c) = {}
        BY <3>2, <3>3 DEF Steps, InHand, Alone
      <4>a. Numbers(Append(s, f), "RpcReply") = {k} /\ Rising(Append(s, f), "RpcReply")
        <5>1. Numbers(s, "RpcReply") = {}
          BY <4>1 DEF Ready
        <5> QED
          BY <3>1, <4>1, <5>1, NumbersFirst
      <4>2. Ready(c)' = {k} /\ Rising(chan[c], "RpcReply")'
        BY <1>5, <4>a DEF Ready
      <4> QED
        BY <1>2, <1>3, <3>3, <4>1, <4>2 DEF Steps, InHand, Alone
    <3>4. InHand(c) # {}
      BY <3>2 DEF InHand
    <3> QED
      BY <1>1, <3>3, <3>4, CallMoves
  <2> QED
    BY <1>1, <2>1, <2>2
<1>6. chan'[c] = chan[c] \/ chan'[c] = Append(chan[c], InboundAnswer(waiting))
  <2>1. InboundAnswer(waiting) \in Frames
    BY <1>1, FrameTypesOK DEF InboundAnswer, FrameTypes
  <2> QED
    BY <2>1, SendOnFacts DEF JobAnswered, SessionType
<1> QED
  BY <1>4, <1>5, <1>6

LEMMA FewerSame ==
  ASSUME NEW c, inward'[c] = inward[c], outward'[c] = outward[c], chan'[c] = chan[c],
         Worked(c)' \subseteq Worked(c)
  PROVE  Fewer(c)
BY DEF Fewer, Asked, Ready, Coming

LEMMA KindTaken ==
  ASSUME SessionType, SessionType', KindInv, NEW c \in Conns, inward[c] # << >>,
         inward'[c] = Tail(inward[c]), \A d \in Conns : d # c => inward'[d] = inward[d],
         waiting' = waiting \/ (waiting' = Head(inward[c]) /\ waiting'.type # "Post"),
         at' = "wait" => waiting' = Head(inward[c])
  PROVE  KindInv'
<1> PICK s \in Seq(Frames), f \in Frames : s = inward[c] /\ f = Head(s)
  BY CallTypes, HeadTailProperties
<1>1. f.type \in FrameTypes /\ f.n \in Numbers(s, f.type)
  <2>1. Numbers(s, f.type) = Numbers(Tail(s), f.type) \cup {f.n}
    BY NumbersTail
  <2> QED
    BY <2>1 DEF Frames
<1>2. f.type \in {"ScriptLoad", "Post", "RpcCall"}
  BY <1>1 DEF KindInv
<1>3. \A t : Numbers(Tail(s), t) \subseteq Numbers(s, t)
  BY NumbersShrink
<1>4. \A d \in Conns : \A t \in FrameTypes \ {"ScriptLoad", "Post", "RpcCall"} :
        Numbers(inward'[d], t) = {}
  <2> TAKE d \in Conns
  <2> TAKE t \in FrameTypes \ {"ScriptLoad", "Post", "RpcCall"}
  <2>1. Numbers(inward[d], t) = {}
    BY DEF KindInv
  <2>2. CASE d = c
    BY <1>3, <2>1, <2>2
  <2>3. CASE d # c
    BY <2>1, <2>3
  <2> QED
    BY <2>2, <2>3
<1>5. /\ waiting'.type \in {"none", "ScriptLoad", "RpcCall"}
      /\ at' = "wait" => waiting'.type # "none"
  <2>1. CASE waiting' = f /\ f.type # "Post"
    BY <1>2, <2>1
  <2>2. CASE waiting' = waiting /\ (at' = "wait" => waiting' = f)
    BY <1>2, <2>2 DEF KindInv
  <2> QED
    BY <2>1, <2>2
<1> QED
  BY <1>4, <1>5 DEF KindInv

\* A host sends ScriptLoad, Post or RpcCall.
LEMMA KindSent ==
  ASSUME SessionType, SessionType', KindInv, NEW c \in Conns, UNCHANGED <<waiting, at>>,
         \A d \in Conns : d # c => inward'[d] = inward[d],
         \/ inward'[c] = inward[c]
         \/ \E f \in Frames : /\ f.type \in {"ScriptLoad", "Post", "RpcCall"}
                              /\ inward'[c] = Append(inward[c], f)
  PROVE  KindInv'
<1>1. \A d \in Conns : \A t \in FrameTypes \ {"ScriptLoad", "Post", "RpcCall"} :
        Numbers(inward'[d], t) = {}
  <2> TAKE d \in Conns
  <2> TAKE t \in FrameTypes \ {"ScriptLoad", "Post", "RpcCall"}
  <2>1. Numbers(inward[d], t) = {} /\ inward[d] \in Seq(Frames)
    BY CallTypes DEF KindInv
  <2>2. CASE inward'[d] = inward[d]
    BY <2>1, <2>2
  <2>3. ASSUME NEW f \in Frames, f.type \in {"ScriptLoad", "Post", "RpcCall"},
               inward'[d] = Append(inward[d], f)
        PROVE  Numbers(inward'[d], t) = {}
    <3>1. Numbers(Append(inward[d], f), t) = Numbers(inward[d], t)
      BY <2>1, <2>3, NumbersOther
    <3> QED
      BY <2>1, <2>3, <3>1
  <2> QED
    BY <2>2, <2>3
<1> QED
  BY <1>1 DEF KindInv

LEMMA AgentCalls ==
  ASSUME SessionType, SessionType', FreshInv, CallInv, UNCHANGED <<hostVars, got, stalled>>,
         \/ Accept \/ SetOutbound \/ WriteHello \/ ReadInbound \/ ReadFails \/ JobAnswered
         \/ Evaluated \/ Emit \/ \E c \in Conns : Pump(c)
  PROVE  CallInv'
<1>A. AtInv /\ KindInv /\ \A c \in Conns : CallOk(c)
  BY DEF FreshInv, CallInv
<1>H. UNCHANGED <<pc, conn, call, got>>
  BY DEF hostVars
<1>N. None.type = "none"
  BY NamedFrames
<1>1. CASE /\ UNCHANGED inward /\ waiting' \in {waiting, None}
           /\ at' = "wait" => at = "wait" /\ waiting' = waiting
           /\ \A c \in Conns : Fewer(c)
  <2>1. KindInv'
    BY <1>1, <1>A, <1>N DEF KindInv
  <2> QED
    BY <1>1, <1>A, <1>H, <2>1, CallShrinks DEF CallInv
<1>2. ASSUME UNCHANGED <<inward, outward, chan>>,
             waiting' = None \/ (waiting' = waiting /\ session' = session),
             at' = "wait" => at = "wait" /\ waiting' = waiting
      PROVE  CallInv'
  <2>1. \A c : Worked(c)' \subseteq Worked(c)
    BY <1>2, <1>N DEF Worked
  <2>2. \A c \in Conns : Fewer(c)
    BY <1>2, <2>1, FewerSame
  <2> QED
    BY <1>1, <1>2, <2>2
<1>3. CASE Accept \/ SetOutbound \/ ReadFails \/ Evaluated
  BY <1>2, <1>3, <1>A DEF Accept, SetOutbound, ReadFails, EndSession, Evaluated, AtInv, wires
<1>4. CASE WriteHello
  <2>1. /\ at = "hello" /\ session \in Conns /\ UNCHANGED <<inward, chan>> /\ waiting = None
        /\ at' # "wait"
    BY <1>4, <1>A DEF WriteHello, AtInv, SessionType, AgentType, EndSession
  <2>2. CASE UNCHANGED outward
    BY <1>2, <1>4, <2>1, <2>2 DEF WriteHello, EndSession
  <2>3. CASE WriteTo(session, Hello) /\ UNCHANGED <<session, waiting>>
    <3> PICK c \in Conns : c = session
      BY <2>1
    <3>1. /\ \A d \in Conns : d # c => outward'[d] = outward[d]
          /\ outward'[c] \in {outward[c], Append(outward[c], Hello)}
      BY <2>1, <2>3, WriteToFacts, NamedFrames DEF SessionType
    <3>2. \A d : Worked(d)' = Worked(d)
      BY <2>3 DEF Worked
    <3>3. \A d \in Conns : d # c => Fewer(d)
      BY <2>1, <3>1, <3>2, FewerSame
    <3>4. Coming(c)' = Coming(c) /\ (Rising(outward[c], "RpcReply") => Rising(outward[c], "RpcReply")')
      <4>1. CASE outward'[c] = outward[c]
        BY <4>1 DEF Coming
      <4>2. CASE outward'[c] = Append(outward[c], Hello)
        <5>1. outward[c] \in Seq(Frames) /\ Hello \in Frames /\ Hello.type # "RpcReply"
          BY CallTypes, NamedFrames
        <5>2. /\ Numbers(Append(outward[c], Hello), "RpcReply") = Numbers(outward[c], "RpcReply")
              /\ Rising(outward[c], "RpcReply") => Rising(Append(outward[c], Hello), "RpcReply")
          BY <5>1, NumbersOther
        <5> QED
          BY <4>2, <5>2 DEF Coming
      <4> QED
        BY <3>1, <4>1, <4>2
    <3>5. Fewer(c)
      BY <2>1, <3>2, <3>4 DEF Fewer, Asked, Ready
    <3> QED
      BY <1>1, <2>1, <2>3, <3>3, <3>5
  <2> QED
    BY <1>4, <2>2, <2>3 DEF WriteHello
<1>5. CASE ReadInbound
  <2> PICK c \in Conns : c = session
    BY <1>5, <1>A DEF ReadInbound, AtInv, SessionType, AgentType
  <2>1. /\ at = "read" /\ inward[c] # << >> /\ inward'[c] = Tail(inward[c]) /\ waiting = None
        /\ \A d \in Conns : d # c => inward'[d] = inward[d]
        /\ UNCHANGED <<session, chan, outward>>
    BY <1>5, <1>A DEF ReadInbound, AtInv, SessionType, WireType
  <2>2. /\ waiting' = waiting \/ (waiting' = Head(inward[c]) /\ waiting'.type # "Post")
        /\ at' = "wait" => waiting' = Head(inward[c])
    BY <1>5, <2>1 DEF ReadInbound
  <2>3. KindInv'
    BY <1>A, <2>1, <2>2, KindTaken
  <2>4. \A d \in Conns : d # c => Worked(d)' = Worked(d)
    BY <2>1 DEF Worked
  <2>5. \A d \in Conns : d # c => CallOk(d)'
    BY <1>A, <1>H, <2>1, <2>4, FewerSame, CallShrinks
  <2>6. CallOk(c)'
    BY <1>5, <1>A, TakesCall
  <2> QED
    BY <2>3, <2>5, <2>6 DEF CallInv
<1>6. CASE JobAnswered
  <2> PICK c \in Conns : c = session
    BY <1>6, <1>A DEF JobAnswered, AtInv, SessionType, AgentType
  <2>1. waiting' = None /\ at' # "wait" /\ UNCHANGED <<inward, outward>>
    BY <1>6 DEF JobAnswered, EndSession
  <2>2. \A d \in Conns : d # c => chan'[d] = chan[d]
    <3>1. InboundAnswer(waiting) \in Frames
      BY FrameTypesOK DEF InboundAnswer, SessionType, AgentType, Frames, FrameTypes
    <3> QED
      BY <1>6, <3>1, SendOnFacts DEF JobAnswered, SessionType
  <2>3. KindInv'
    BY <1>A, <1>N, <2>1 DEF KindInv
  <2>4. \A d \in Conns : Worked(d)' \subseteq Worked(d)
    BY <1>N, <2>1 DEF Worked
  <2>5. \A d \in Conns : d # c => CallOk(d)'
    BY <1>A, <1>H, <2>1, <2>2, <2>4, FewerSame, CallShrinks
  <2>6. CallOk(c)'
    BY <1>6, <1>A, AnswersCall
  <2> QED
    BY <2>3, <2>5, <2>6 DEF CallInv
<1>7. CASE Emit
  <2>1. /\ UNCHANGED <<agentVars, inward, outward>> /\ sink \in Conns
        /\ SendOn(sink, Frame("Send", emitted + 1)) /\ emitted \in Nat
    BY <1>7 DEF Emit, SessionType, AgentType
  <2> PICK c \in Conns, f \in Frames : c = sink /\ f = Frame("Send", emitted + 1)
    BY <2>1, FrameTypesOK DEF FrameTypes
  <2>2. f.type # "RpcReply"
    BY <2>1, FrameTypesOK DEF FrameTypes
  <2>3. /\ \A d \in Conns : d # c => chan'[d] = chan[d]
        /\ chan'[c] \in {chan[c], Append(chan[c], f)}
    BY <2>1, SendOnFacts DEF SessionType
  <2>4. \A d : Worked(d)' = Worked(d)
    BY <2>1 DEF Worked, agentVars
  <2>5. \A d \in Conns : d # c => Fewer(d)
    BY <2>1, <2>3, <2>4, FewerSame
  <2>6. Ready(c)' = Ready(c) /\ (Rising(chan[c], "RpcReply") => Rising(chan[c], "RpcReply")')
    <3>1. CASE chan'[c] = chan[c]
      BY <3>1 DEF Ready
    <3>2. CASE chan'[c] = Append(chan[c], f)
      BY <2>2, <3>2, CallTypes, NumbersOther DEF Ready
    <3> QED
      BY <2>3, <3>1, <3>2
  <2>7. Fewer(c)
    BY <2>1, <2>4, <2>6 DEF Fewer, Asked, Coming
  <2> QED
    BY <1>1, <2>1, <2>5, <2>7 DEF agentVars
<1>8. ASSUME NEW c \in Conns, Pump(c) PROVE CallInv'
  <2>1. UNCHANGED <<agentVars, inward>>
    BY <1>8 DEF Pump
  <2>2. KindInv'
    BY <1>A, <2>1 DEF KindInv, agentVars
  <2>3. \A d \in Conns : Worked(d)' = Worked(d)
    BY <2>1 DEF Worked, agentVars
  <2>4. \A d \in Conns : d # c => chan'[d] = chan[d] /\ outward'[d] = outward[d]
    <3>1. chan[c] # << >> => Head(chan[c]) \in Frames
      BY CallTypes, HeadTailProperties
    <3> QED
      BY <1>8, <3>1, WriteToFacts DEF Pump, SessionType, WireType
  <2>5. \A d \in Conns : d # c => CallOk(d)'
    BY <1>A, <1>H, <2>1, <2>3, <2>4, FewerSame, CallShrinks
  <2>6. CallOk(c)'
    BY <1>8, <1>A, PumpCalls
  <2> QED
    BY <2>2, <2>5, <2>6 DEF CallInv
<1> QED
  BY <1>3, <1>4, <1>5, <1>6, <1>7, <1>8

\* Before the first call nothing is under way, and it stays so.
LEMMA StartsCalls ==
  ASSUME SessionType, SessionType', ConnInv, CallInv, NEW h \in Hosts,
         \/ RestartPackage(h) \/ Inject(h) \/ Forward(h) \/ Connect(h) \/ ConnectFails(h)
         \/ HelloFails(h)
  PROVE  CallInv'
<1>1. /\ UNCHANGED <<inward, got, call>>
      /\ pc[h] \in Early \cup {"connect", "hello"}
      /\ UNCHANGED <<session, waiting>> \/ waiting' = None
      /\ UNCHANGED <<at, waiting>> \/ (waiting' = None /\ at' = "accept")
  BY DEF RestartPackage, Inject, InjectAt, Forward, Connect, ConnectFails, HelloFails, AgentDies,
         svars, wires, agentVars, Early
<1>2. /\ pc'[h] # "reply"
      /\ \A g \in Hosts : g # h => pc'[g] = pc[g] /\ conn'[g] = conn[g]
  <2>1. CASE RestartPackage(h) \/ Inject(h)
    BY <2>1, GotoFacts DEF RestartPackage, Inject, Early, SessionType
  <2>2. CASE Forward(h)
    BY <2>2, GotoFacts DEF Forward, Early, Held, SessionType, HostType
  <2>3. CASE ConnectFails(h) \/ HelloFails(h)
    BY <2>3, NextAttemptFacts DEF ConnectFails, HelloFails, Held, SessionType, ConnInv
  <2>4. CASE Connect(h)
    BY <2>4, GotoFacts DEF Connect, Held, SessionType, HostType
  <2> QED
    BY <2>1, <2>2, <2>3, <2>4
<1>3. /\ \A c \in Conns : chan'[c] \in {chan[c], << >>} /\ outward'[c] \in {outward[c], << >>}
  <2>1. CASE RestartPackage(h)
    BY <2>1 DEF RestartPackage, AgentDies
  <2>2. CASE Inject(h) \/ Forward(h) \/ Connect(h) \/ ConnectFails(h)
    BY <2>2 DEF Inject, Forward, Connect, ConnectFails, svars, wires
  <2>3. CASE HelloFails(h)
    <3>1. conn[h] \in Conns
      BY <2>3, HeldConn DEF HelloFails, Held, ConnInv
    <3> QED
      BY <2>3, <3>1, HangUpFacts DEF HelloFails, SessionType
  <2> QED
    BY <2>1, <2>2, <2>3
<1>4. \A c \in Conns : Fewer(c)
  <2> TAKE c \in Conns
  <2>1. Worked(c)' \subseteq Worked(c)
    BY <1>1, NamedFrames DEF Worked
  <2>2. /\ Ready(c)' \subseteq Ready(c)
        /\ Rising(chan[c], "RpcReply") => Rising(chan[c], "RpcReply")'
    BY <1>3, CallTypes, NumbersShrink DEF Ready
  <2>3. /\ Coming(c)' \subseteq Coming(c)
        /\ Rising(outward[c], "RpcReply") => Rising(outward[c], "RpcReply")'
    BY <1>3, CallTypes, NumbersShrink DEF Coming
  <2> QED
    BY <1>1, <2>1, <2>2, <2>3 DEF Fewer, Asked
<1>5. KindInv'
  BY <1>1, NamedFrames DEF CallInv, KindInv
<1>6. ASSUME NEW c \in Conns PROVE CallOk(c)'
  <2>1. CallOk(c) /\ HostOf(c) \in Hosts
    BY DEF CallInv, Conns, HostOf
  <2>2. CASE HostOf(c) # h
    BY <1>1, <1>2, <1>4, <2>1, <2>2, FewerCalls
  <2>3. CASE HostOf(c) = h
    <3>1. NoCalls(c)
      BY <1>1, <2>1, <2>3 DEF CallOk, Early
    <3> QED
      BY <1>1, <1>2, <1>4, <2>3, <3>1, CallIdle DEF SessionType
  <2> QED
    BY <2>2, <2>3
<1> QED
  BY <1>5, <1>6 DEF CallInv

\* A frame that is no reply is heard.
LEMMA HadOther ==
  ASSUME SessionType, NEW c \in Conns, Reads(c), Head(outward[c]).type # "RpcReply"
  PROVE  Had(c)' = Had(c) /\ (Rising(got[c], "RpcReply") => Rising(got[c], "RpcReply")')
<1>1. Head(outward[c]) \in Frames
  BY CallTypes, HeadTailProperties DEF Reads
<1>2. /\ Numbers(Append(got[c], Head(outward[c])), "RpcReply") = Numbers(got[c], "RpcReply")
      /\ Rising(got[c], "RpcReply") => Rising(Append(got[c], Head(outward[c])), "RpcReply")
  BY <1>1, CallTypes, NumbersOther
<1> QED
  BY <1>2 DEF Had, Reads

LEMMA ComingOther ==
  ASSUME SessionType, NEW c \in Conns, outward[c] # << >>, Head(outward[c]).type # "RpcReply",
         outward'[c] \in {Tail(outward[c]), << >>}
  PROVE  /\ Coming(c)' \subseteq Coming(c)
         /\ Rising(outward[c], "RpcReply") => Rising(outward[c], "RpcReply")'
BY CallTypes, NumbersShrink DEF Coming

\* The reply that is awaited is heard, and was all that was under way.
LEMMA HearsReply ==
  ASSUME SessionType, NEW c \in Conns, NEW k \in Nat, OneCall(c, k), Rising(got[c], "RpcReply"),
         Reads(c), Head(outward[c]).type = "RpcReply", outward'[c] \in {Tail(outward[c]), << >>}
  PROVE  /\ Had(c)' = 1 .. k /\ Rising(got[c], "RpcReply")'
         /\ Coming(c)' = {} /\ Asked(c) = {} /\ Worked(c) = {} /\ Ready(c) = {}
<1> PICK s \in Seq(Frames), f \in Frames, g \in Seq(Frames) :
      s = outward[c] /\ f = Head(s) /\ g = got[c]
  BY CallTypes, HeadTailProperties DEF Reads
<1>1. s # << >> /\ f.type = "RpcReply" /\ got'[c] = Append(g, f)
  BY DEF Reads
<1>2. Numbers(s, "RpcReply") \subseteq {k} /\ Rising(s, "RpcReply")
  BY DEF OneCall, InHand, Coming, Steps
<1>3. /\ f.n = k /\ Numbers(Tail(s), "RpcReply") = {}
      /\ Numbers(s, "RpcReply") = {k}
  BY <1>1, <1>2, NumbersOnly
<1>4. Coming(c) = {k}
  BY <1>3 DEF Coming
<1>5. Asked(c) = {} /\ Worked(c) = {} /\ Ready(c) = {}
  BY <1>4 DEF OneCall, Steps, Alone
<1>6. Coming(c)' = {}
  BY <1>3, NumbersEmpty DEF Coming
<1>7. Numbers(g, "RpcReply") = 1 .. k - 1 /\ k > 0
  BY DEF OneCall, Had
<1>8. Numbers(Append(g, f), "RpcReply") = Numbers(g, "RpcReply") \cup {f.n}
  BY <1>1, NumbersAppend
<1>9. Rising(Append(g, f), "RpcReply")
  <2>1. \A m \in Numbers(g, "RpcReply") : m < f.n
    BY <1>3, <1>7
  <2> QED
    BY <2>1, NumbersAppend
<1>10. 1 .. k = (1 .. k - 1) \cup {k}
  BY <1>7
<1>11. Had(c)' = 1 .. k
  BY <1>1, <1>3, <1>7, <1>8, <1>10 DEF Had
<1> QED
  BY <1>1, <1>5, <1>6, <1>9, <1>11

LEMMA ListensCalls ==
  ASSUME SessionType, SessionType', ConnInv, CallInv, NEW h \in Hosts,
         \/ HelloArrives(h) \/ Stall(h) \/ ReadGarbage(h) \/ ReadEof(h)
         \/ Listen(h) \/ AwaitReply(h) \/ TimesOut(h) \/ Killed(h)
  PROVE  CallInv'
<1> PICK c \in Conns : c = conn[h] /\ HostOf(c) = h
  <2>1. pc[h] \in Held
    BY DEF HelloArrives, Stall, ReadGarbage, ReadEof, Listen, AwaitReply, TimesOut, Killed, Listens, Held
  <2> QED
    BY <2>1, HeldConn DEF ConnInv
<1>1. /\ UNCHANGED <<agentVars, agent, chan, pump, helloAt, emitted, conn>>
      /\ pc[h] \in {"hello", "listen", "reply"}
      /\ \A d \in Conns : d # c => Same(d)
      /\ \A g \in Hosts : g # h => pc'[g] = pc[g] /\ call'[g] = call[g]
      /\ \/ Idles(h, c) \/ Skips(h, c) \/ Quits(h, c) \/ Takes(h, c) \/ Asks(h, c)
         \/ Finishes(h, c)
  BY ListenShape
<1>2. /\ \A d : Worked(d)' = Worked(d)
      /\ \A d : Ready(d)' = Ready(d)
      /\ \A d : Rising(chan[d], "RpcReply")' = Rising(chan[d], "RpcReply")
      /\ UNCHANGED <<waiting, at>>
  BY <1>1 DEF Worked, Ready, agentVars
<1>3. call[h] \in Nat /\ call'[h] \in Nat
  BY DEF SessionType, HostType
<1>4. CallOk(c) /\ KindInv
  BY DEF CallInv
<1>5. ASSUME NEW d \in Conns, d # c PROVE CallOk(d)'
  <2>1. CallOk(d) /\ HostOf(d) \in Hosts /\ Same(d)
    BY <1>1, <1>5 DEF CallInv, Conns, HostOf
  <2>2. Fewer(d)
    BY <1>1, <1>2, <2>1, FewerSame DEF Same
  <2>3. CASE HostOf(d) # h
    BY <1>1, <2>1, <2>2, <2>3, FewerCalls DEF Same
  <2>4. CASE HostOf(d) = h
    <3>1. NoCalls(d)
      BY <1>5, <2>1, <2>4 DEF CallOk
    <3> QED
      BY <1>1, <1>5, <2>1, <2>2, <2>4, <3>1, CallIdle DEF Same, SessionType
  <2> QED
    BY <2>3, <2>4
<1>6. /\ Rising(got[c], "RpcReply")
      /\ pc[h] = "reply" => OneCall(c, call[h])
      /\ pc[h] # "reply" => NoCalls(c)
  BY <1>1, <1>4 DEF CallOk
<1>7. ASSUME Idles(h, c) \/ Skips(h, c)
      PROVE  CallOk(c)' /\ KindInv'
  <2>1. /\ Stays(h) /\ got'[c] = got[c] /\ inward'[c] = inward[c]
        /\ outward'[c] = outward[c] \/ (outward[c] # << >> /\ outward'[c] = Tail(outward[c]))
    BY <1>7 DEF Idles, Skips, Same
  <2>2. /\ Coming(c)' \subseteq Coming(c)
        /\ Rising(outward[c], "RpcReply") => Rising(outward[c], "RpcReply")'
    BY <2>1, CallTypes, NumbersShrink DEF Coming
  <2>3. Fewer(c)
    BY <1>2, <2>1, <2>2 DEF Fewer, Asked
  <2>4. KindInv'
    BY <1>1, <1>2, <1>4, <2>1, KindSent DEF Same
  <2> QED
    BY <1>1, <1>4, <2>1, <2>3, <2>4, FewerCalls DEF Stays
<1>8. ASSUME Quits(h, c) PROVE CallOk(c)' /\ KindInv'
  <2>1. Had(c)' = Had(c) /\ Rising(got[c], "RpcReply")'
    BY <1>6, <1>8 DEF Quits, Had
  <2>2. \E k \in 0 .. call'[h] : Had(c)' = 1 .. k
    <3>1. CASE pc[h] = "reply"
      <4>1. call[h] > 0 /\ Had(c) = 1 .. call[h] - 1
        BY <1>6, <3>1 DEF OneCall
      <4>2. call[h] - 1 \in 0 .. call'[h]
        BY <1>3, <1>8, <4>1 DEF Quits
      <4> QED
        BY <2>1, <4>1, <4>2
    <3>2. CASE pc[h] # "reply"
      <4>1. Had(c) = {} /\ 1 .. 0 = {} /\ 0 \in 0 .. call'[h]
        BY <1>3, <1>6, <3>2 DEF NoCalls
      <4> QED
        BY <2>1, <4>1
    <3> QED
      BY <3>1, <3>2
  <2>3. KindInv'
    BY <1>1, <1>2, <1>4, <1>8, KindSent DEF Quits, Same
  <2> QED
    BY <1>1, <1>8, <2>1, <2>2, <2>3 DEF CallOk, Quits
<1>9. ASSUME Takes(h, c) PROVE CallOk(c)' /\ KindInv'
  <2>1. Head(outward[c]).type # "RpcReply"
    <3>1. CASE pc[h] = "hello"
      BY <1>9, <3>1, NamedFrames DEF Takes
    <3>2. CASE pc[h] = "reply"
      BY <1>9, <3>2 DEF Takes
    <3>3. ASSUME pc[h] = "listen", Head(outward[c]).type = "RpcReply" PROVE FALSE
      <4>1. Coming(c) = {} /\ outward[c] # << >>
        BY <1>6, <1>9, <3>3 DEF NoCalls, InHand, Takes, Reads
      <4>2. Numbers(outward[c], "RpcReply")
              = Numbers(Tail(outward[c]), "RpcReply") \cup {Head(outward[c]).n}
        BY <3>3, <4>1, CallTypes, NumbersTail
      <4> QED
        BY <4>1, <4>2 DEF Coming
    <3> QED
      BY <1>1, <3>1, <3>2, <3>3
  <2>2. Had(c)' = Had(c) /\ Rising(got[c], "RpcReply")'
    BY <1>6, <1>9, <2>1, HadOther DEF Takes
  <2>3. /\ Coming(c)' \subseteq Coming(c)
        /\ Rising(outward[c], "RpcReply") => Rising(outward[c], "RpcReply")'
    BY <1>9, <2>1, ComingOther DEF Takes, Reads
  <2>4. \/ inward'[c] = inward[c]
        \/ \E f \in Frames : /\ f.type \in {"ScriptLoad", "Post"}
                             /\ inward'[c] = Append(inward[c], f)
    BY <1>9, FrameTypesOK DEF Takes, Sends, FrameTypes
  <2>5. Asked(c)' = Asked(c) /\ (Rising(inward[c], "RpcCall") => Rising(inward[c], "RpcCall")')
    <3>1. ASSUME NEW f \in Frames, f.type \in {"ScriptLoad", "Post"}, inward'[c] = Append(inward[c], f)
          PROVE  Asked(c)' = Asked(c) /\ (Rising(inward[c], "RpcCall") => Rising(inward[c], "RpcCall")')
      BY <3>1, CallTypes, NumbersOther DEF Asked
    <3> QED
      BY <2>4, <3>1 DEF Asked
  <2>6. KindInv'
    <3>1. \/ inward'[c] = inward[c]
          \/ \E f \in Frames : /\ f.type \in {"ScriptLoad", "Post", "RpcCall"}
                               /\ inward'[c] = Append(inward[c], f)
      BY <2>4
    <3> QED
      BY <1>1, <1>2, <1>4, <3>1, KindSent DEF Same
  <2>7. CASE pc[h] # "reply"
    <3>1. NoCalls(c)'
      BY <1>2, <1>6, <2>2, <2>3, <2>5, <2>7 DEF NoCalls, InHand
    <3>2. pc'[h] = "listen"
      BY <1>9, <2>7 DEF Takes
    <3> QED
      BY <2>2, <2>6, <3>1, <3>2 DEF CallOk
  <2>8. CASE pc[h] = "reply"
    <3>1. pc'[h] = "reply" /\ call'[h] = call[h]
      BY <1>9, <2>8 DEF Takes
    <3>2. OneCall(c, call[h]) /\ Steps(c) /\ InHand(c) \subseteq {call[h]}
      BY <1>6, <2>8 DEF OneCall
    <3>3. Steps(c)'
      BY <1>2, <2>3, <2>5, <3>2 DEF Steps, Alone
    <3>4. InHand(c)' \subseteq {call[h]}
      BY <1>2, <2>3, <2>5, <3>2 DEF InHand
    <3>5. Had(c)' = 1 .. call[h] - 1 /\ call[h] > 0
      BY <2>2, <3>2 DEF OneCall
    <3>6. OneCall(c, call[h])'
      BY <3>1, <3>3, <3>4, <3>5 DEF OneCall
    <3> QED
      BY <1>1, <2>2, <2>6, <3>1, <3>6 DEF CallOk
  <2> QED
    BY <2>7, <2>8
<1>10. ASSUME Asks(h, c) \/ Finishes(h, c)
       PROVE  /\ \E k \in {call[h]} : Had(c)' = 1 .. k
              /\ Rising(got[c], "RpcReply")' /\ Coming(c)' = {}
              /\ Asked(c) = {} /\ Worked(c) = {} /\ Ready(c) = {}
  <2>1. /\ Reads(c) /\ Goes(h, c) /\ outward'[c] \in {Tail(outward[c]), << >>}
    BY <1>10 DEF Asks, Finishes, Drops
  <2>2. CASE pc[h] = "reply" /\ Head(outward[c]).type = "RpcReply"
    BY <1>3, <1>6, <2>1, <2>2, HearsReply
  <2>3. CASE pc[h] = "listen" /\ Head(outward[c]).type = "Send"
    <3>1. NoCalls(c) /\ call[h] = 0
      BY <1>6, <2>3 DEF ConnInv, HostOk
    <3>2. Had(c)' = Had(c) /\ Rising(got[c], "RpcReply")'
      BY <1>6, <2>1, <2>3, HadOther
    <3>3. Coming(c)' \subseteq Coming(c)
      BY <2>1, <2>3, ComingOther DEF Reads
    <3> QED
      BY <3>1, <3>2, <3>3 DEF NoCalls, InHand
  <2> QED
    BY <2>1, <2>2, <2>3 DEF Goes
<1>11. ASSUME Asks(h, c) PROVE CallOk(c)' /\ KindInv'
  <2> PICK f \in Frames : f = Frame("RpcCall", call[h] + 1) /\ f.type = "RpcCall" /\ f.n = call[h] + 1
    BY <1>3, FrameTypesOK DEF FrameTypes
  <2>1. /\ inward'[c] = Append(inward[c], f) /\ pc'[h] = "reply" /\ call'[h] = call[h] + 1
    BY <1>11 DEF Asks
  <2>2. KindInv'
    BY <1>1, <1>2, <1>4, <2>1, KindSent DEF Same
  <2>3. Asked(c)' = {call[h] + 1} /\ Rising(inward[c], "RpcCall")'
    <3>1. inward[c] \in Seq(Frames) /\ Numbers(inward[c], "RpcCall") = {} /\ call[h] + 1 \in Nat
      BY <1>3, <1>10, <1>11, CallTypes DEF Asked
    <3> PICK k \in Nat, i \in Seq(Frames) : k = call[h] + 1 /\ i = inward[c]
      BY <3>1
    <3>2. Numbers(i, "RpcCall") = {} /\ f.type = "RpcCall" /\ f.n = k
      BY <3>1
    <3>3. Numbers(Append(i, f), "RpcCall") = Numbers(i, "RpcCall") \cup {f.n}
      BY <3>2, NumbersAppend
    <3>4. Rising(Append(i, f), "RpcCall")
      BY <3>2, NumbersFirst
    <3> QED
      BY <2>1, <3>2, <3>3, <3>4 DEF Asked
  <2>4. Worked(c)' = {} /\ Ready(c)' = {} /\ Coming(c)' = {}
    BY <1>2, <1>10, <1>11
  <2>5. Rising(chan[c], "RpcReply")' /\ Rising(outward[c], "RpcReply")'
    BY <2>4, RisingEmpty DEF Ready, Coming
  <2>6. Steps(c)' /\ InHand(c)' \subseteq {call[h] + 1}
    BY <2>3, <2>4, <2>5 DEF Steps, InHand, Alone
  <2>7. Had(c)' = 1 .. (call[h] + 1) - 1
    BY <1>3, <1>10, <1>11
  <2>8. OneCall(c, call[h])'
    BY <1>3, <2>1, <2>6, <2>7 DEF OneCall
  <2> QED
    BY <1>1, <1>10, <1>11, <2>1, <2>2, <2>8 DEF CallOk
<1>12. ASSUME Finishes(h, c) PROVE CallOk(c)' /\ KindInv'
  <2>1. inward'[c] = inward[c] /\ pc'[h] = "done" /\ call'[h] = call[h]
    BY <1>12 DEF Finishes
  <2>2. KindInv'
    BY <1>1, <1>2, <1>4, <2>1, KindSent DEF Same
  <2>3. call[h] \in 0 .. call'[h] /\ Had(c)' = 1 .. call[h] /\ Rising(got[c], "RpcReply")'
    BY <1>3, <1>10, <1>12, <2>1
  <2> QED
    BY <1>1, <2>1, <2>2, <2>3 DEF CallOk
<1> QED
  BY <1>1, <1>5, <1>7, <1>8, <1>9, <1>11, <1>12 DEF CallInv

-----------------------------------------------------------------------------
\* Together.

\* The inductive invariant: types, which host has which connection, nothing on a
\* connection before it is accepted, the numbers of what scripts emitted and those
\* of calls wherever they are between the host and the worker.
SessionInv == SessionType /\ ConnInv /\ FreshInv /\ HearInv /\ CallInv

LEMMA InitSession == Init => SessionInv
<1> SUFFICES ASSUME Init PROVE SessionInv
  OBVIOUS
<1> USE DEF Init, SessionInit
<1>0. NoConn \notin Conns
  BY SessionAssumption DEF Conns
<1>1. SessionType
  <2>1. AgentType
    BY EmptyFrames, NamedFrames DEF AgentType
  <2>2. WireType
    BY EmptyFrames DEF WireType
  <2>3. HostType
    BY DEF HostType, Early
  <2> QED
    BY <2>1, <2>2, <2>3 DEF SessionType
<1>2. ConnInv
  BY DEF ConnInv, ConnOfPlace, HostOk, Early, Held
<1>3. FreshInv
  <2>1. \A c \in Conns : Blank(c)
    BY <1>0 DEF Blank
  <2>2. AtInv
    BY DEF AtInv
  <2>3. DOMAIN backlog = {}
    OBVIOUS
  <2>4. QueueInv
    BY <2>3 DEF QueueInv
  <2> QED
    BY <1>0, <2>1, <2>2, <2>3, <2>4 DEF FreshInv
<1>4. HearInv
  <2>1. \A c \in Conns : Heard(c) = {} /\ Written(c) = {} /\ Queued(c) = {} /\ Sent(c) = {}
    BY NumbersEmpty DEF Heard, Written, Queued, Sent
  <2>2. StreamInv
    BY <2>1, NumbersEmpty DEF StreamInv, StreamOk, InStep, Below, Full, Whole
  <2> QED
    BY <2>2 DEF HearInv, OpenInv, HelloInv
<1>5. CallInv
  <2>1. \A c \in Conns : Asked(c) = {} /\ Worked(c) = {} /\ Ready(c) = {} /\ Coming(c) = {} /\ Had(c) = {}
    BY NumbersEmpty, NamedFrames DEF Asked, Worked, Ready, Coming, Had
  <2>2. \A c \in Conns : HostOf(c) \in Hosts
    BY DEF Conns, HostOf
  <2>3. KindInv
    BY NumbersEmpty, NamedFrames DEF KindInv
  <2>4. \A c \in Conns : CallOk(c)
    BY <2>1, <2>2, NumbersEmpty DEF CallOk, NoCalls, InHand
  <2> QED
    BY <2>3, <2>4 DEF CallInv
<1> QED
  BY <1>1, <1>2, <1>3, <1>4, <1>5 DEF SessionInv

LEMMA AgentKeeps ==
  ASSUME SessionInv, UNCHANGED <<hostVars, got, stalled>>,
         \/ Accept \/ SetOutbound \/ WriteHello \/ ReadInbound \/ ReadFails \/ JobAnswered
         \/ Evaluated \/ Emit \/ \E c \in Conns : Pump(c)
  PROVE  SessionInv'
<1> USE DEF SessionInv
<1>1. session \in Conns \/ at \in {"accept"}
  BY DEF FreshInv, AtInv, SessionType, AgentType
<1>2. SessionType'
  BY <1>1, AgentTypes
<1> QED
  BY <1>2, AgentConn, AgentFresh, AgentHears, AgentCalls

LEMMA HostKeeps ==
  ASSUME SessionInv, NEW h \in Hosts, HostStep(h) \/ Stall(h) \/ Killed(h)
  PROVE  SessionInv'
<1> USE DEF SessionInv
<1>1. CASE RestartPackage(h) \/ Inject(h) \/ Forward(h)
  <2>1. SessionType'
    BY <1>1, BeforeTypes DEF ConnInv
  <2>2. ConnInv' /\ FreshInv'
    BY <1>1, <2>1, StartsFresh
  <2>3. HearInv'
    BY <1>1, <2>1, <2>2, StartsHears
  <2> QED
    BY <1>1, <2>1, <2>2, <2>3, StartsCalls
<1>2. CASE Connect(h)
  <2>1. SessionType'
    BY <1>2, BeforeTypes DEF ConnInv
  <2> QED
    BY <1>2, <2>1, ConnectFresh, ConnectsHears, StartsCalls
<1>3. CASE ConnectFails(h) \/ HelloFails(h)
  <2>1. SessionType'
    BY <1>3, BeforeTypes DEF ConnInv
  <2>2. ConnInv' /\ FreshInv'
    BY <1>3, <2>1, FailsFresh
  <2>3. HearInv'
    BY <1>3, <2>1, <2>2, StartsHears, ConnectsHears
  <2> QED
    BY <1>3, <2>1, <2>2, <2>3, StartsCalls
<1>4. CASE \/ HelloArrives(h) \/ Stall(h) \/ ReadGarbage(h) \/ ReadEof(h)
           \/ Listen(h) \/ AwaitReply(h) \/ TimesOut(h) \/ Killed(h)
  <2>1. SessionType'
    BY <1>4, ListenTypes DEF ConnInv
  <2> QED
    BY <1>4, <2>1, ListensFresh, ListensHears, ListensCalls
<1> QED
  BY <1>1, <1>2, <1>3, <1>4 DEF HostStep

LEMMA IdleKeeps == SessionInv /\ UNCHANGED vars => SessionInv'
<1> SUFFICES ASSUME SessionInv, UNCHANGED vars PROVE SessionInv'
  OBVIOUS
<1>1. /\ UNCHANGED <<up, at, session, sink, waiting, script, emitted, backlog>>
      /\ UNCHANGED <<host, agent, inward, outward, chan, pump, helloAt, pid, port>>
      /\ UNCHANGED <<cmd, pc, conn, lost, call, got, stalled>>
  BY DEF vars, svars, agentVars, wires, hostVars
<1>2. SessionType'
  BY <1>1 DEF SessionInv, SessionType, AgentType, WireType, HostType
<1>3. ConnInv'
  BY <1>1 DEF SessionInv, ConnInv, ConnOfPlace, HostOk
<1>4. FreshInv'
  BY <1>1 DEF SessionInv, FreshInv, QueueInv, AtInv, Blank, Unused
<1>5. StreamInv'
  BY <1>1 DEF SessionInv, HearInv, StreamInv, StreamOk, InStep, Whole, Heard, Written, Queued, Sent
<1>6. HearInv'
  BY <1>1, <1>5 DEF SessionInv, HearInv, OpenInv, HelloInv
<1>7. \A c \in Conns : Asked(c)' = Asked(c) /\ Worked(c)' = Worked(c) /\ Ready(c)' = Ready(c)
                       /\ Coming(c)' = Coming(c) /\ Had(c)' = Had(c)
  BY <1>1 DEF Asked, Worked, Ready, Coming, Had
<1>8. CallInv'
  BY <1>1, <1>7 DEF SessionInv, CallInv, KindInv, CallOk, OneCall, NoCalls, InHand, Steps
<1> QED
  BY <1>2, <1>3, <1>4, <1>6, <1>8 DEF SessionInv

LEMMA NextSession == SessionInv /\ [Next]_vars => SessionInv'
<1> SUFFICES ASSUME SessionInv, [Next]_vars PROVE SessionInv'
  OBVIOUS
<1>1. ASSUME Agent(AgentStep) \/ Agent(Evaluated) \/ Agent(Emit) PROVE SessionInv'
  <2>1. /\ UNCHANGED <<hostVars, got, stalled>>
        /\ \/ Accept \/ SetOutbound \/ WriteHello \/ ReadInbound \/ ReadFails \/ JobAnswered
           \/ Evaluated \/ Emit \/ \E c \in Conns : Pump(c)
    BY <1>1 DEF Agent, AgentStep
  <2> QED
    BY <2>1, AgentKeeps
<1>2. ASSUME NEW h \in Hosts, HostStep(h) \/ Stall(h) \/ Killed(h) PROVE SessionInv'
  BY <1>2, HostKeeps
<1>3. CASE UNCHANGED vars
  BY <1>3, IdleKeeps
<1> QED
  BY <1>1, <1>2, <1>3 DEF Next, Progress

\* SessionInv holds of run_agent_sessions, its writer threads, the job queue and
\* the commands of the hosts, whatever restarts, hang-ups and timeouts occur.
THEOREM SessionInvariance == Spec => []SessionInv
<1> QED
  BY InitSession, NextSession, PTL DEF Spec

LEMMA HeardFromInv == SessionInv => HearsInOrder
<1> SUFFICES ASSUME SessionInv, NEW c \in Conns
             PROVE  /\ got[c] # << >> => Head(got[c]) = Hello
                    /\ Rising(got[c], "Send")
                    /\ c \notin stalled =>
                         \A m \in Heard(c) :
                           /\ helloAt[c] + 1 .. m \subseteq Heard(c)
                           /\ \A l \in Heard(c) : l .. m \subseteq Heard(c)
  BY DEF HearsInOrder
<1> QED
  BY DEF SessionInv, HearInv, HelloInv, StreamInv, StreamOk, InStep, Full

\* A host hears Hello first, then what its session's script emitted in order; and
\* nothing is missing in between unless a read timed out inside a frame, which
\* drops what read_exact had read of it.
THEOREM HeardInOrder == Spec => []HearsInOrder
<1> QED
  BY SessionInvariance, HeardFromInv, PTL

LEMMA RepliesFromInv == SessionInv => RepliesMatchCalls
<1> SUFFICES ASSUME SessionInv, NEW c \in Conns
             PROVE  /\ Rising(got[c], "RpcReply")
                    /\ \E k \in 0 .. call[HostOf(c)] : Numbers(got[c], "RpcReply") = 1 .. k
  BY DEF RepliesMatchCalls
<1>1. CallOk(c) /\ call[HostOf(c)] \in Nat
  BY DEF SessionInv, CallInv, Conns, HostOf, SessionType, HostType
<1>2. CASE OneCall(c, call[HostOf(c)])
  <2>1. call[HostOf(c)] - 1 \in 0 .. call[HostOf(c)]
    BY <1>1, <1>2 DEF OneCall
  <2> QED
    BY <1>1, <1>2, <2>1 DEF OneCall, Had, CallOk
<1>3. CASE NoCalls(c)
  <2>1. 0 \in 0 .. call[HostOf(c)] /\ 1 .. 0 = {}
    BY <1>1
  <2> QED
    BY <1>1, <1>3, <2>1 DEF NoCalls, Had, CallOk
<1> QED
  BY <1>1, <1>2, <1>3 DEF CallOk, Had

\* The replies a host reads are those of its calls, each once and in order: no
\* answer of a timed-out or hung-up host's call reaches another's RpcCall.
THEOREM RepliesMatch == Spec => []RepliesMatchCalls
<1> QED
  BY SessionInvariance, RepliesFromInv, PTL
=============================================================================
