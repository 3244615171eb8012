---------------------------- MODULE WpaCtlProofs ----------------------------
(***************************************************************************)
(* Proofs about the wpa_supplicant control channel, for any number of      *)
(* goroutines, operations and events, with sockets that may fail and       *)
(* replies that may come late or never.                                    *)
(***************************************************************************)
EXTENDS WpaCtl, TLAPS

\* What an operation does after a command is a command or the end.
LEMMA ThenType ==
    ASSUME NEW c, NEW ok
    PROVE  Then(c, ok) \in Commands \cup {"End"}
BY DEF Then, ConnectThen, APStartThen, GroupStartThen, Commands

\* So is what an event handler starts with.
LEMMA OnEventType ==
    ASSUME NEW e
    PROVE  OnEvent(e) \in Commands \cup {"End"}
BY DEF OnEvent, Commands

\* sendCommandTO always picks one of the two sockets.
LEMMA ConnForType ==
    ASSUME NEW c
    PROVE  ConnFor(c) \in Conns
BY DEF ConnFor, Conns

\* The readers and the callers are goroutines.
LEMMA ThreadFacts == /\ Callers \subseteq Threads /\ Conns \subseteq Threads
                     /\ Dialer \in Threads /\ "main" \in Conns /\ "p2p" \in Conns
                     /\ "End" \notin Commands /\ "SCAN_RESULTS" \in Commands
BY WpaAssumption DEF WpaAssumption, Threads, Conns, Commands

\* The two results of sendCommandTO that carry no reply.
LEMMA AnswerFacts == NoAnswer \in Answer /\ Failed \in Answer
BY DEF NoAnswer, Failed, Answer

\* A goroutine that has read a message still has its socket and its reply.
LEMMA OverwriteType ==
    ASSUME spawned \in SUBSET Responder, NEW c \in Conns, NEW n \in Nat
    PROVE  Overwrite(c, n) \in SUBSET Responder
BY DEF Overwrite, Responder

\* The initial state is well typed.
LEMMA TypeInit == Init => TypeOK
<1> SUFFICES ASSUME Init
             PROVE  TypeOK
  OBVIOUS
<1>1. CtlType
  BY DEF Init, CtlType
<1>2. CallType
  BY DEF Init, CallType, Answer, NoAnswer
<1>3. WireType
  BY DEF Init, WireType
<1>4. EffectType
  BY WpaAssumption DEF WpaAssumption, Init, EffectType, Answer, NoAnswer
<1> QED
  BY <1>1, <1>2, <1>3, <1>4 DEF TypeOK

\* Every step keeps the types of the sockets.
LEMMA CtlTypeNext == TypeOK /\ [Next]_vars => CtlType'
<1> SUFFICES ASSUME TypeOK, [Next]_vars
             PROVE  CtlType'
  OBVIOUS
<1> USE DEF TypeOK, CtlType
<1>1. CASE SocketFails
  BY <1>1 DEF SocketFails
<1>2. ASSUME NEW t \in Threads, Redial(t)
      PROVE  CtlType'
  BY <1>2 DEF Redial
<1>3. ASSUME NEW t \in Threads, Attach(t)
      PROVE  CtlType'
  BY <1>3 DEF Attach
<1>4. ASSUME NEW t \in Threads, WriteFails(t)
      PROVE  CtlType'
  BY <1>4 DEF WriteFails
<1>5. CASE UNCHANGED ctlVars
  BY <1>5 DEF ctlVars
<1> QED
  BY <1>1, <1>2, <1>3, <1>4, <1>5
  DEF Next, Lock, Write, Receive, Timeout, Return, Begin, Supplicant,
      SendEvent, ReadReply, ReadEvent, Deliver, OnCommandResponse, vars

\* Every step keeps the types of what the goroutines hold.
LEMMA CallTypeNext == TypeOK /\ [Next]_vars => CallType'
<1> SUFFICES ASSUME TypeOK, [Next]_vars
             PROVE  CallType'
  OBVIOUS
<1> USE DEF TypeOK, CallType
<1>0. ASSUME NEW t \in Threads, Attach(t)
      PROVE  CallType'
  BY <1>0 DEF Attach
<1>1. ASSUME NEW t \in Threads, Redial(t)
      PROVE  CallType'
  BY <1>1 DEF Redial
<1>2. ASSUME NEW t \in Threads, Lock(t)
      PROVE  CallType'
  BY <1>2 DEF Lock
<1>3. ASSUME NEW t \in Threads, Write(t)
      PROVE  CallType'
  <2>1. id' \in [Threads -> Nat]
    BY <1>3 DEF Write, WireType
  <2>2. answer' \in [Threads -> Answer]
    <3>1. \/ UNCHANGED answer
          \/ answer' = [answer EXCEPT ![t] = NoAnswer]
      BY <1>3, Zenon DEF Write
    <3> QED
      BY <3>1, AnswerFacts
  <2> QED
    BY <1>3, <2>1, <2>2 DEF Write
<1>4. ASSUME NEW t \in Threads, WriteFails(t)
      PROVE  CallType'
  BY <1>4 DEF WriteFails
<1>5. ASSUME NEW t \in Threads, Receive(t)
      PROVE  CallType'
  <2>1. Head(currentCommandResponse) \in Response
    BY <1>5 DEF Receive, WireType
  <2> QED
    BY <1>5, <2>1 DEF Receive, Answer, Response, Number
<1>6. ASSUME NEW t \in Threads, Timeout(t)
      PROVE  CallType'
  BY <1>6 DEF Timeout, Answer, Failed
<1>7. ASSUME NEW t \in Threads, Return(t)
      PROVE  CallType'
  BY <1>7, ThenType DEF Return, Answer, NoAnswer
<1>8. ASSUME NEW t \in Callers, Begin(t)
      PROVE  CallType'
  BY <1>8, ThreadFacts, WpaAssumption DEF Begin, WpaAssumption
<1>9. ASSUME NEW c \in Conns, ReadEvent(c)
      PROVE  CallType'
  BY <1>9, OnEventType, ThreadFacts DEF ReadEvent
<1>10. CASE UNCHANGED callVars
  BY <1>10 DEF callVars
<1> QED
  BY <1>0, <1>1, <1>2, <1>3, <1>4, <1>5, <1>6, <1>7, <1>8, <1>9, <1>10
  DEF Next, SocketFails, Supplicant, SendEvent, ReadReply, Deliver,
      OnCommandResponse, vars

\* Every step keeps the types of the messages.
LEMMA WireTypeNext == TypeOK /\ [Next]_vars => WireType'
<1> SUFFICES ASSUME TypeOK, [Next]_vars
             PROVE  WireType'
  OBVIOUS
<1> USE DEF TypeOK, WireType
<1>1. ASSUME NEW t \in Threads, Lock(t)
      PROVE  WireType'
  <2>1. \/ UNCHANGED currentCommandResponse
        \/ currentCommandResponse' = <<>>
    BY <1>1, Zenon DEF Lock
  <2>2. currentCommandResponse' \in Seq(Response)
    <3>1. CASE UNCHANGED currentCommandResponse
      BY <3>1
    <3>2. CASE currentCommandResponse' = <<>>
      BY <3>2
    <3> QED
      BY <2>1, <3>1, <3>2
  <2> QED
    BY <1>1, <2>2 DEF Lock
<1>2. ASSUME NEW t \in Threads, Write(t)
      PROVE  WireType'
  <2>1. cmd[t] \in Commands /\ Len(sent) + 1 \in Number
    BY <1>2 DEF Write, CallType, Number
  <2>2. sent' \in Seq(Commands)
    BY <1>2, <2>1 DEF Write
  <2>3. req' \in [Conns -> Seq(Number)]
    BY <1>2, <2>1, ConnForType DEF Write
  <2>4. abandoned' \in SUBSET Nat
    BY <1>2, <2>1 DEF Write, Number
  <2> QED
    BY <1>2, <2>2, <2>3, <2>4 DEF Write
<1>3. ASSUME NEW t \in Threads, Receive(t)
      PROVE  WireType'
  <2>1. currentCommandResponse' \in Seq(Response)
    BY <1>3 DEF Receive
  <2>2. abandoned' \in SUBSET Nat
    BY <1>3 DEF Receive, CallType
  <2> QED
    BY <1>3, <2>1, <2>2 DEF Receive
<1>4. ASSUME NEW t \in Threads, Timeout(t)
      PROVE  WireType'
  BY <1>4 DEF Timeout, CallType
<1>5. ASSUME NEW c \in Conns, Supplicant(c)
      PROVE  WireType'
  <2>1. Reply(Head(req[c])) \in Message
    BY <1>5 DEF Supplicant, Reply, Message
  <2> QED
    BY <1>5, <2>1 DEF Supplicant
<1>6. ASSUME NEW c \in Conns, SendEvent(c)
      PROVE  WireType'
  <2>1. \A e \in Events : Event(e) \in Message
    BY WpaAssumption DEF WpaAssumption, Event, Message
  <2> QED
    BY <1>6, <2>1 DEF SendEvent
<1>7. ASSUME NEW c \in Conns, ReadReply(c)
      PROVE  WireType'
  <2>1. Head(stream[c]) \in Message
    BY <1>7 DEF ReadReply
  <2>2. /\ Head(stream[c]).id \in Nat
        /\ [id |-> Head(stream[c]).id, conn |-> c, text |-> Head(stream[c]).id]
              \in Responder
    BY <1>7, <2>1 DEF ReadReply, Message, Responder, Number, EventTypes
  <2>3. stream' \in [Conns -> Seq(Message)]
    BY <1>7 DEF ReadReply
  <2>4. spawned' \in SUBSET Responder
    BY <1>7, <2>2, OverwriteType DEF ReadReply
  <2> QED
    BY <1>7, <2>3, <2>4 DEF ReadReply
<1>8. ASSUME NEW c \in Conns, ReadEvent(c)
      PROVE  WireType'
  <2>1. Overwrite(c, 0) \in SUBSET Responder
    BY OverwriteType
  <2> QED
    BY <1>8, <2>1 DEF ReadEvent
<1>9. CASE Deliver
  <2>1. PICK s \in spawned : OnCommandResponse(s)
    BY <1>9 DEF Deliver
  <2>2. [id |-> s.id, text |-> s.text] \in Response
    BY DEF Responder, Response
  <2> QED
    BY <2>1, <2>2 DEF OnCommandResponse
<1>10. CASE UNCHANGED wireVars
  BY <1>10 DEF wireVars
<1> QED
  BY <1>1, <1>2, <1>3, <1>4, <1>5, <1>6, <1>7, <1>8, <1>9, <1>10
  DEF Next, SocketFails, Redial, Attach, WriteFails, Return, Begin, vars

\* Every step keeps the types of the effects of commands and of the bounds.
LEMMA EffectTypeNext == TypeOK /\ [Next]_vars => EffectType'
<1> SUFFICES ASSUME TypeOK, [Next]_vars
             PROVE  EffectType'
  OBVIOUS
<1> USE DEF TypeOK, EffectType
<1>1. ASSUME NEW t \in Threads, Return(t)
      PROVE  EffectType'
  BY <1>1 DEF Return, CallType, boundVars
<1>2. ASSUME NEW t \in Callers, Begin(t)
      PROVE  EffectType'
  BY <1>2 DEF Begin
<1>3. ASSUME NEW c \in Conns, SendEvent(c)
      PROVE  EffectType'
  BY <1>3 DEF SendEvent, effectVars
<1>4. ASSUME NEW c \in Conns, ReadEvent(c)
      PROVE  EffectType'
  BY <1>4 DEF ReadEvent, boundVars
<1>5. CASE UNCHANGED <<effectVars, boundVars>>
  BY <1>5 DEF effectVars, boundVars
<1> QED
  BY <1>1, <1>2, <1>3, <1>4, <1>5
  DEF Next, SocketFails, Redial, Attach, Lock, Write, WriteFails, Receive, Timeout,
      Supplicant, ReadReply, Deliver, OnCommandResponse, vars

\* Every variable keeps its type along every behaviour.
THEOREM TypeCorrect == Spec => []TypeOK
<1>1. TypeOK /\ [Next]_vars => TypeOK'
  BY CtlTypeNext, CallTypeNext, WireTypeNext, EffectTypeNext DEF TypeOK
<1> QED BY TypeInit, <1>1, PTL DEF Spec

-----------------------------------------------------------------------------
\* Mutual exclusion is inductive: a step of one goroutine that releases or
\* takes cmdMutex leaves no other goroutine inside sendCommandTO.
LEMMA OneCommandNext == TypeOK /\ OneCommand /\ [Next]_vars => OneCommand'
<1> SUFFICES ASSUME TypeOK, OneCommand, [Next]_vars
             PROVE  OneCommand'
  OBVIOUS
<1> USE DEF OneCommand, InCommand
<1>0. pc \in [Threads -> {"idle", "lock", "write", "wait", "return", "redial",
                         "attach"}]
  BY DEF TypeOK, CallType
<1>1. None \notin Threads
  BY WpaAssumption DEF WpaAssumption
<1>2. ASSUME NEW t \in Threads, Redial(t)
      PROVE  OneCommand'
  BY <1>0, <1>1, <1>2 DEF Redial
<1>12. ASSUME NEW t \in Threads, Attach(t)
       PROVE  OneCommand'
  BY <1>0, <1>1, <1>12 DEF Attach
<1>3. ASSUME NEW t \in Threads, Lock(t)
      PROVE  OneCommand'
  BY <1>0, <1>1, <1>3 DEF Lock, CanLock
<1>4. ASSUME NEW t \in Threads, Write(t)
      PROVE  OneCommand'
  <2>1. cmdMutex = t
    BY <1>4 DEF Write
  <2>2. \/ pc' = [pc EXCEPT ![t] = "return"]
        \/ pc' = [pc EXCEPT ![t] = "wait"] /\ UNCHANGED cmdMutex
    BY <1>4, Zenon DEF Write
  <2> QED
    BY <1>0, <2>1, <2>2
<1>5. ASSUME NEW t \in Threads, WriteFails(t)
      PROVE  OneCommand'
  BY <1>0, <1>5 DEF WriteFails
<1>6. ASSUME NEW t \in Threads, Receive(t)
      PROVE  OneCommand'
  BY <1>0, <1>6 DEF Receive
<1>7. ASSUME NEW t \in Threads, Timeout(t)
      PROVE  OneCommand'
  BY <1>0, <1>7 DEF Timeout
<1>8. ASSUME NEW t \in Threads, Return(t)
      PROVE  OneCommand'
  BY <1>0, <1>8 DEF Return
<1>9. ASSUME NEW t \in Callers, Begin(t)
      PROVE  OneCommand'
  BY <1>0, <1>9, ThreadFacts DEF Begin
<1>10. ASSUME NEW c \in Conns, ReadEvent(c)
       PROVE  OneCommand'
  BY <1>0, <1>10, ThreadFacts DEF ReadEvent
<1>11. CASE UNCHANGED <<pc, cmdMutex>>
  BY <1>11
<1> QED
  BY <1>2, <1>3, <1>4, <1>5, <1>6, <1>7, <1>8, <1>9, <1>10, <1>11, <1>12
  DEF Next, SocketFails, Supplicant, SendEvent, ReadReply, Deliver,
      OnCommandResponse, vars, callVars

\* A goroutine that is inside sendCommandTO holds cmdMutex: at most one command
\* is active, whatever the interleaving of callers, event handlers, late
\* replies, time limits and failing sockets.
THEOREM OneCommandHolds == Spec => []OneCommand
<1>1. Init => OneCommand
  BY DEF Init, OneCommand, InCommand
<1> QED
  BY <1>1, OneCommandNext, TypeCorrect, PTL DEF Spec

\* A step that changes the channel under a waiting goroutine only appends.
LEMMA ChannelStep ==
    ASSUME TypeOK, OneCommand, [Next]_vars,
           NEW t \in Threads, pc[t] = "wait", pc'[t] = "wait"
    PROVE  /\ Len(currentCommandResponse') >= Len(currentCommandResponse)
           /\ \A i \in DOMAIN currentCommandResponse :
                 currentCommandResponse'[i] = currentCommandResponse[i]
<1> DEFINE q == currentCommandResponse
<1>0. /\ pc \in [Threads -> {"idle", "lock", "write", "wait", "return", "redial",
                         "attach"}]
      /\ q \in Seq(Response)
      /\ spawned \in SUBSET Responder
      /\ cmdMutex = t /\ None # t
  BY WpaAssumption
  DEF WpaAssumption, TypeOK, CallType, WireType, OneCommand, InCommand
<1>1. ASSUME NEW u \in Threads, Lock(u)
      PROVE  FALSE
  BY <1>0, <1>1 DEF Lock, CanLock
<1>2. ASSUME NEW u \in Threads, Receive(u)
      PROVE  FALSE
  BY <1>0, <1>2 DEF Receive, OneCommand, InCommand
<1>3. CASE Deliver
  <2>1. PICK s \in spawned : OnCommandResponse(s)
    BY <1>3 DEF Deliver
  <2>2. [id |-> s.id, text |-> s.text] \in Response
    BY <1>0 DEF Responder, Response
  <2>3. q' = q \/ q' = Append(q, [id |-> s.id, text |-> s.text])
    BY <2>1 DEF OnCommandResponse
  <2> QED
    BY <1>0, <2>2, <2>3
<1>4. CASE UNCHANGED q
  BY <1>0, <1>4
<1> QED
  BY <1>1, <1>2, <1>3, <1>4
  DEF Next, SocketFails, Redial, Attach, Write, WriteFails, Timeout, Return, Begin,
      Supplicant, SendEvent, ReadReply, ReadEvent, vars, wireVars

\* The channel a goroutine waits on is never emptied or replaced by another
\* goroutine: only its own reply, or late ones, are added at its end.
THEOREM ChannelStableHolds == Spec => ChannelStable
<1> DEFINE A == \A t \in Threads : pc[t] = "wait" /\ pc'[t] = "wait" =>
                  /\ Len(currentCommandResponse') >= Len(currentCommandResponse)
                  /\ \A i \in DOMAIN currentCommandResponse :
                        currentCommandResponse'[i] = currentCommandResponse[i]
<1>1. TypeOK /\ OneCommand /\ [Next]_vars => [A]_vars
  BY ChannelStep
<1>2. ChannelStable <=> [][A]_vars
  BY DEF ChannelStable
<1> QED
  BY <1>1, <1>2, TypeCorrect, OneCommandHolds, PTL DEF Spec
-----------------------------------------------------------------------------
(* Where a reply is, from the write of its command until it is returned *)

\* x is in the sequence s, and at most once.
Has(s, x) == \E i \in DOMAIN s : s[i] = x
Once(s, x) == \A i, j \in DOMAIN s : s[i] = x /\ s[j] = x => i = j

\* The number n is among those of the sequence s of responses, and at most once.
Carries(s, n) == \E i \in DOMAIN s : s[i].id = n
CarriesOnce(s, n) == \A i, j \in DOMAIN s : s[i].id = n /\ s[j].id = n => i = j

\* The places of a reply: sockets, onCommandResponse goroutines and the channel.
Places == {"req main", "req p2p", "stream main", "stream p2p", "spawned", "channel"}
ReqOf(c) == IF c = "main" THEN "req main" ELSE "req p2p"
StreamOf(c) == IF c = "main" THEN "stream main" ELSE "stream p2p"

Held(n) == \E s \in spawned : s.id = n

\* The reply to command n is at place p.
At(p, n) ==
    \/ p = "req main" /\ Has(req["main"], n)
    \/ p = "req p2p" /\ Has(req["p2p"], n)
    \/ p = "stream main" /\ Has(stream["main"], Reply(n))
    \/ p = "stream p2p" /\ Has(stream["p2p"], Reply(n))
    \/ p = "spawned" /\ Held(n)
    \/ p = "channel" /\ Carries(currentCommandResponse, n)

\* A number is in one place.
OnePlace ==
    \A n \in Nat : \A p, q \in Places : At(p, n) /\ At(q, n) => p = q

\* And it is there once.
NoRepeat ==
    \A n \in Nat :
        /\ \A c \in Conns : Once(req[c], n) /\ Once(stream[c], Reply(n))
        /\ \A s, u \in spawned : s.id = n /\ u.id = n => s = u
        /\ CarriesOnce(currentCommandResponse, n)

\* Numbers are those of commands that were written, and a goroutine that waits
\* wrote the last one.
Numbered ==
    /\ \A n \in Nat, p \in Places : At(p, n) => n >= 1 /\ n <= Len(sent)
    /\ \A t \in Threads : /\ id[t] <= Len(sent) /\ answer[t].id <= Len(sent)
                          /\ pc[t] = "wait" => id[t] = Len(sent) /\ id[t] >= 1

\* A reply under way is the one somebody waits for, or nobody does any more.
Owed ==
    \A n \in Nat, p \in Places :
        At(p, n) => n \in abandoned \/ \E t \in Threads : pc[t] = "wait" /\ id[t] = n

\* What was returned is in no place.
Gone ==
    \A t \in Threads, p \in Places : pc[t] = "return" => ~At(p, answer[t].id)

\* A reply is returned to its own command, or late to another.
Attributed ==
    \A t \in Threads : pc[t] = "return" /\ answer[t].id # 0 =>
        \/ answer[t].id = id[t]
        \/ answer[t].id \in abandoned /\ answer[t].id < id[t]

ReplyInv == OnePlace /\ NoRepeat /\ Numbered /\ Owed /\ Gone /\ Attributed

\* What is left in a sequence without its head.
LEMMA TailHas ==
    ASSUME NEW S, NEW s \in Seq(S), s # <<>>, NEW x
    PROVE  /\ Has(Tail(s), x) => Has(s, x)
           /\ Once(s, x) => Once(Tail(s), x) /\ (x = Head(s) => ~Has(Tail(s), x))
<1>1. /\ Len(s) \in Nat /\ Len(s) >= 1 /\ DOMAIN s = 1 .. Len(s) /\ Head(s) = s[1]
      /\ DOMAIN Tail(s) = 1 .. (Len(s) - 1)
      /\ \A i \in 1 .. (Len(s) - 1) : Tail(s)[i] = s[i + 1]
  OBVIOUS
<1> QED
  BY <1>1 DEF Has, Once

\* What is in a sequence with one more element.
LEMMA AppendHas ==
    ASSUME NEW S, NEW s \in Seq(S), NEW y \in S, NEW x
    PROVE  /\ Has(Append(s, y), x) => Has(s, x) \/ x = y
           /\ Once(s, x) /\ (x = y => ~Has(s, x)) => Once(Append(s, y), x)
<1>1. /\ Len(s) \in Nat /\ DOMAIN s = 1 .. Len(s)
      /\ DOMAIN Append(s, y) = 1 .. (Len(s) + 1)
      /\ \A i \in 1 .. Len(s) : Append(s, y)[i] = s[i]
      /\ Append(s, y)[Len(s) + 1] = y
  OBVIOUS
<1> QED
  BY <1>1 DEF Has, Once

\* The same for the numbers of a sequence of responses.
LEMMA TailCarries ==
    ASSUME NEW S, NEW s \in Seq(S), s # <<>>, NEW n
    PROVE  /\ Carries(Tail(s), n) => Carries(s, n)
           /\ Carries(s, Head(s).id)
           /\ CarriesOnce(s, n) =>
                 CarriesOnce(Tail(s), n) /\ (n = Head(s).id => ~Carries(Tail(s), n))
<1>1. /\ Len(s) \in Nat /\ Len(s) >= 1 /\ DOMAIN s = 1 .. Len(s) /\ Head(s) = s[1]
      /\ DOMAIN Tail(s) = 1 .. (Len(s) - 1)
      /\ \A i \in 1 .. (Len(s) - 1) : Tail(s)[i] = s[i + 1]
  OBVIOUS
<1> QED
  BY <1>1 DEF Carries, CarriesOnce

\* A message is put at the end: it carries its own number and no other.
LEMMA AppendCarries ==
    ASSUME NEW S, NEW s \in Seq(S), NEW y \in S, NEW n
    PROVE  /\ Carries(Append(s, y), n) => Carries(s, n) \/ n = y.id
           /\ CarriesOnce(s, n) /\ (n = y.id => ~Carries(s, n)) =>
                 CarriesOnce(Append(s, y), n)
<1>1. /\ Len(s) \in Nat /\ DOMAIN s = 1 .. Len(s)
      /\ DOMAIN Append(s, y) = 1 .. (Len(s) + 1)
      /\ \A i \in 1 .. Len(s) : Append(s, y)[i] = s[i]
      /\ Append(s, y)[Len(s) + 1] = y
  OBVIOUS
<1> QED
  BY <1>1 DEF Carries, CarriesOnce

\* An empty sequence holds nothing.
LEMMA EmptyHas ==
    \A x : /\ ~Has(<<>>, x) /\ Once(<<>>, x)
           /\ ~Carries(<<>>, x) /\ CarriesOnce(<<>>, x)
BY DEF Has, Once, Carries, CarriesOnce

\* At, place by place.
PlaceTable ==
    /\ \A n : /\ \A c \in Conns : /\ At(ReqOf(c), n) <=> Has(req[c], n)
                                  /\ At(StreamOf(c), n) <=> Has(stream[c], Reply(n))
              /\ At("spawned", n) <=> Held(n)
              /\ At("channel", n) <=> Carries(currentCommandResponse, n)
    /\ \A p \in Places : \/ p \in {"spawned", "channel"}
                         \/ \E c \in Conns : p \in {ReqOf(c), StreamOf(c)}
    /\ \A c \in Conns : ReqOf(c) \in Places /\ StreamOf(c) \in Places
    /\ \A c, d \in Conns : c # d => ReqOf(c) # ReqOf(d) /\ StreamOf(c) # StreamOf(d)
    /\ \A c, d \in Conns : ReqOf(c) # StreamOf(d)
    /\ \A c \in Conns : ReqOf(c) \notin {"spawned", "channel"}
    /\ \A c \in Conns : StreamOf(c) \notin {"spawned", "channel"}
    /\ "spawned" \in Places /\ "channel" \in Places

\* The table holds of the state before and of the state after a step.
LEMMA PlaceFacts == PlaceTable /\ PlaceTable'
<1>1. PlaceTable
  BY DEF PlaceTable, At, Conns, ReqOf, StreamOf, Places
<1>2. PlaceTable'
  BY DEF PlaceTable, At, Conns, ReqOf, StreamOf, Places
<1> QED
  BY <1>1, <1>2

\* Replies are told apart by their numbers, and events are no replies.
LEMMA ReplyFacts ==
    /\ \A n, m : Reply(n) = Reply(m) <=> n = m
    /\ \A e \in EventTypes : \A n : Event(e) # Reply(n)
BY DEF Reply, Event, EventTypes

-----------------------------------------------------------------------------
(* Steps of the messages: no reply appears out of nothing, or in two places *)

\* Along a step the reply to n comes to no new place, or it was under way and
\* is in one place only afterwards.
Conserved(n) ==
    \/ \A p \in Places : At(p, n)' => At(p, n)
    \/ \E p, q \in Places : At(p, n) /\ \A r \in Places : At(r, n)' => r = q

\* A step that conserves replies and leaves the goroutines alone keeps what
\* relates the two.
LEMMA ConservedKeeps ==
    ASSUME OnePlace, Numbered, Owed, Gone, Attributed, TypeOK,
           \A n \in Nat : Conserved(n),
           UNCHANGED <<pc, id, answer, sent, abandoned>>
    PROVE  OnePlace' /\ Numbered' /\ Owed' /\ Gone' /\ Attributed'
<1>1. OnePlace'
  BY DEF OnePlace, Conserved
<1>2. \A n \in Nat, p \in Places : At(p, n)' => \E q \in Places : At(q, n)
  BY DEF Conserved
<1>3. Numbered'
  BY <1>2 DEF Numbered
<1>4. Owed'
  BY <1>2 DEF Owed
<1>5. Gone'
  <2>1. \A t \in Threads : answer[t].id \in Nat
    BY DEF TypeOK, CallType, Answer
  <2> QED
    BY <1>2, <2>1 DEF Gone
<1>6. Attributed'
  BY DEF Attributed
<1> QED
  BY <1>1, <1>3, <1>4, <1>5, <1>6

\* wpa_supplicant takes a command and answers it.
LEMMA SupplicantKeeps ==
    ASSUME TypeOK, ReplyInv, NEW c \in Conns, Supplicant(c)
    PROVE  ReplyInv'
<1> DEFINE h == Head(req[c])
<1>1. /\ req[c] \in Seq(Number) /\ req[c] # <<>> /\ h \in Nat
      /\ stream[c] \in Seq(Message) /\ Reply(h) \in Message
      /\ Has(req[c], h)
  <2>1. req[c] \in Seq(Number) /\ req[c] # <<>> /\ stream[c] \in Seq(Message)
    BY DEF TypeOK, WireType, Supplicant
  <2>2. h \in Number /\ h \in Nat /\ Has(req[c], h)
    BY <2>1 DEF Has, Number
  <2> QED
    BY <2>1, <2>2 DEF Reply, Message
<1>2. /\ req'[c] = Tail(req[c]) /\ stream'[c] = Append(stream[c], Reply(h))
      /\ \A d \in Conns : d # c => req'[d] = req[d] /\ stream'[d] = stream[d]
      /\ UNCHANGED <<spawned, currentCommandResponse>>
  BY DEF Supplicant, TypeOK, WireType
<1>3. \A n \in Nat : /\ Once(req[c], n) /\ Once(stream[c], Reply(n))
                     /\ (n = h => ~Has(stream[c], Reply(n)))
  <2>1. StreamOf(c) # ReqOf(c) /\ At(ReqOf(c), h)
    BY <1>1, PlaceFacts DEF PlaceTable
  <2>2. ~At(StreamOf(c), h)
    BY <1>1, <2>1, PlaceFacts DEF PlaceTable, ReplyInv, OnePlace
  <2> QED
    BY <2>2, PlaceFacts DEF PlaceTable, ReplyInv, NoRepeat
<1>4. \A n \in Nat : /\ Has(req'[c], n) => Has(req[c], n) /\ n # h
                     /\ Once(req'[c], n)
  BY <1>1, <1>2, <1>3, TailHas
<1>5. \A n \in Nat : /\ Has(stream'[c], Reply(n)) => Has(stream[c], Reply(n)) \/ n = h
                     /\ Once(stream'[c], Reply(n))
  BY <1>1, <1>2, <1>3, AppendHas, ReplyFacts
<1>6. ASSUME NEW n \in Nat
      PROVE  Conserved(n)
  <2>1. \A p \in Places : At(p, n)' =>
            IF n = h THEN p = StreamOf(c) \/ (At(p, n) /\ p # ReqOf(c))
            ELSE At(p, n)
    <3>1. ASSUME NEW d \in Conns
          PROVE  /\ At(ReqOf(d), n)' => At(ReqOf(d), n) /\ (n = h => d # c)
                 /\ At(StreamOf(d), n)' => At(StreamOf(d), n) \/ (n = h /\ d = c)
      BY <1>2, <1>4, <1>5, PlaceFacts DEF PlaceTable
    <3>2. /\ At("spawned", n)' => At("spawned", n)
          /\ At("channel", n)' => At("channel", n)
      BY <1>2 DEF At, Held, Carries
    <3> QED
      BY <3>1, <3>2, PlaceFacts DEF PlaceTable
  <2>2. CASE n = h
    <3>1. At(ReqOf(c), n) /\ ReqOf(c) \in Places /\ StreamOf(c) \in Places
      BY <1>1, <2>2, PlaceFacts DEF PlaceTable
    <3>2. \A p \in Places : At(p, n)' => p = StreamOf(c)
      BY <2>1, <2>2, <3>1 DEF ReplyInv, OnePlace
    <3> QED
      BY <3>1, <3>2 DEF Conserved
  <2> QED
    BY <2>1, <2>2 DEF Conserved
<1>7. NoRepeat'
  BY <1>2, <1>4, <1>5 DEF ReplyInv, NoRepeat
<1>8. UNCHANGED <<pc, id, answer, sent, abandoned>>
  BY DEF Supplicant, callVars
<1> QED
  BY <1>6, <1>7, <1>8, ConservedKeeps DEF ReplyInv

\* A socket's next message does not change which replies the goroutines of
\* onCommandResponse hold, only the text some of them find.
LEMMA OverwriteHolds ==
    ASSUME TypeOK, NoRepeat, NEW c \in Conns, NEW x
    PROVE  /\ \A s \in Overwrite(c, x) : s.id \in Nat /\ Held(s.id)
           /\ \A n \in Nat : \A s, u \in Overwrite(c, x) :
                 s.id = n /\ u.id = n => s = u
<1>1. spawned \in SUBSET Responder
  BY DEF TypeOK, WireType
<1>2. \A s \in Overwrite(c, x) : \E r \in spawned :
          /\ s = [r EXCEPT !.text = IF r.conn = c THEN x ELSE @]
          /\ s.id = r.id /\ s.id \in Nat
  BY <1>1 DEF Overwrite, Responder, Number
<1> QED
  BY <1>1, <1>2 DEF NoRepeat, Held

\* The reader passes a reply to a goroutine.
LEMMA ReadReplyKeeps ==
    ASSUME TypeOK, ReplyInv, NEW c \in Conns, ReadReply(c)
    PROVE  ReplyInv'
<1> DEFINE h == Head(stream[c]).id
           new == [id |-> h, conn |-> c, text |-> h]
<1>1. /\ stream[c] \in Seq(Message) /\ stream[c] # <<>> /\ h \in Nat
      /\ Head(stream[c]) = Reply(h) /\ Has(stream[c], Reply(h))
  <2>1. stream[c] \in Seq(Message) /\ stream[c] # <<>> /\ Head(stream[c]).ev = "REPLY"
    BY DEF TypeOK, WireType, ReadReply
  <2>2. Head(stream[c]) \in Message /\ Head(stream[c]) = stream[c][1] /\ 1 \in DOMAIN stream[c]
    BY <2>1
  <2>3. h \in Nat /\ Head(stream[c]) = Reply(h)
    BY <2>1, <2>2 DEF Message, Reply, Number, EventTypes
  <2> QED
    BY <2>1, <2>2, <2>3 DEF Has
<1>2. /\ stream'[c] = Tail(stream[c])
      /\ \A d \in Conns : d # c => stream'[d] = stream[d]
      /\ spawned' = Overwrite(c, h) \cup {new}
      /\ UNCHANGED <<req, currentCommandResponse>>
  BY DEF ReadReply, TypeOK, WireType
<1>3. At(StreamOf(c), h) /\ ~At("spawned", h) /\ ~Held(h)
  <2>1. At(StreamOf(c), h) /\ StreamOf(c) # "spawned"
    BY <1>1, PlaceFacts DEF PlaceTable
  <2> QED
    BY <1>1, <2>1, PlaceFacts DEF PlaceTable, ReplyInv, OnePlace
<1>4. \A n \in Nat : /\ Has(stream'[c], Reply(n)) => Has(stream[c], Reply(n)) /\ n # h
                     /\ Once(stream'[c], Reply(n))
  <2>1. \A n \in Nat : Once(stream[c], Reply(n))
    BY DEF ReplyInv, NoRepeat
  <2> QED
    BY <1>1, <1>2, <2>1, TailHas
<1>5. /\ \A n \in Nat : Held(n)' => Held(n) \/ n = h
      /\ \A n \in Nat : \A s, u \in spawned' : s.id = n /\ u.id = n => s = u
  <2>1. /\ \A s \in Overwrite(c, h) : s.id \in Nat /\ Held(s.id)
        /\ \A n \in Nat : \A s, u \in Overwrite(c, h) : s.id = n /\ u.id = n => s = u
    BY OverwriteHolds DEF ReplyInv
  <2>2. new.id = h
    OBVIOUS
  <2> HIDE DEF new, h
  <2> QED
    BY <1>2, <1>3, <2>1, <2>2 DEF Held
<1> HIDE DEF new, h
<1>6. ASSUME NEW n \in Nat
      PROVE  Conserved(n)
  <2>1. \A p \in Places : At(p, n)' =>
            IF n = h THEN p = "spawned" \/ (At(p, n) /\ p # StreamOf(c))
            ELSE At(p, n)
    <3>1. ASSUME NEW d \in Conns
          PROVE  /\ At(ReqOf(d), n)' => At(ReqOf(d), n) /\ ReqOf(d) # StreamOf(c)
                 /\ At(StreamOf(d), n)' => At(StreamOf(d), n) /\ (n = h => d # c)
      BY <1>2, <1>4, PlaceFacts DEF PlaceTable
    <3>2. /\ At("spawned", n)' => At("spawned", n) \/ n = h
          /\ At("channel", n)' => At("channel", n)
      BY <1>2, <1>5, PlaceFacts DEF PlaceTable
    <3> QED
      BY <3>1, <3>2, PlaceFacts DEF PlaceTable
  <2>2. CASE n = h
    <3>1. StreamOf(c) \in Places /\ "spawned" \in Places
      BY PlaceFacts DEF PlaceTable
    <3>2. \A p \in Places : At(p, n)' => p = "spawned"
      BY <1>3, <2>1, <2>2, <3>1 DEF ReplyInv, OnePlace
    <3> QED
      BY <1>3, <2>2, <3>1, <3>2 DEF Conserved
  <2> QED
    BY <2>1, <2>2 DEF Conserved
<1>7. NoRepeat'
  <2>1. \A n \in Nat, d \in Conns : Once(req[d], n)' /\ Once(stream[d], Reply(n))'
    BY <1>2, <1>4 DEF ReplyInv, NoRepeat
  <2>2. \A n \in Nat : CarriesOnce(currentCommandResponse, n)'
    BY <1>2 DEF ReplyInv, NoRepeat
  <2> QED
    BY <1>5, <2>1, <2>2 DEF NoRepeat
<1>8. UNCHANGED <<pc, id, answer, sent, abandoned>>
  BY DEF ReadReply, callVars
<1> QED
  BY <1>6, <1>7, <1>8, ConservedKeeps DEF ReplyInv

\* wpa_supplicant sends an event: no reply moves.
LEMMA SendEventKeeps ==
    ASSUME TypeOK, ReplyInv, NEW c \in Conns, SendEvent(c)
    PROVE  ReplyInv'
<1>1. PICK e \in Events : stream' = [stream EXCEPT ![c] = Append(@, Event(e))]
  BY DEF SendEvent
<1>2. /\ stream[c] \in Seq(Message) /\ Event(e) \in Message
      /\ stream'[c] = Append(stream[c], Event(e))
      /\ \A d \in Conns : d # c => stream'[d] = stream[d]
      /\ UNCHANGED <<req, spawned, currentCommandResponse>>
      /\ \A n : Reply(n) # Event(e)
  <2>1. Event(e) \in Message /\ e \in EventTypes
    BY WpaAssumption DEF WpaAssumption, Event, Message
  <2> QED
    BY <1>1, <2>1, ReplyFacts DEF SendEvent, TypeOK, WireType
<1>3. \A n \in Nat : /\ Has(stream'[c], Reply(n)) => Has(stream[c], Reply(n))
                     /\ Once(stream[c], Reply(n)) => Once(stream'[c], Reply(n))
  BY <1>2, AppendHas
<1>4. ASSUME NEW n \in Nat
      PROVE  Conserved(n)
  <2>1. ASSUME NEW d \in Conns
        PROVE  /\ At(ReqOf(d), n)' => At(ReqOf(d), n)
               /\ At(StreamOf(d), n)' => At(StreamOf(d), n)
    BY <1>2, <1>3, PlaceFacts DEF PlaceTable
  <2>2. /\ At("spawned", n)' => At("spawned", n)
        /\ At("channel", n)' => At("channel", n)
    BY <1>2 DEF At, Held, Carries
  <2> QED
    BY <2>1, <2>2, PlaceFacts DEF PlaceTable, Conserved
<1>5. NoRepeat'
  BY <1>2, <1>3 DEF ReplyInv, NoRepeat
<1>6. UNCHANGED <<pc, id, answer, sent, abandoned>>
  BY DEF SendEvent, callVars
<1> QED
  BY <1>4, <1>5, <1>6, ConservedKeeps DEF ReplyInv

\* onCommandResponse sends its reply to the channel, or drops it.
LEMMA DeliverKeeps ==
    ASSUME TypeOK, ReplyInv, Deliver
    PROVE  ReplyInv'
<1>1. PICK s \in spawned : OnCommandResponse(s)
  BY DEF Deliver
<1> DEFINE q == currentCommandResponse
           m == [id |-> s.id, text |-> s.text]
<1>2. /\ s.id \in Nat /\ m \in Response /\ m.id = s.id /\ q \in Seq(Response)
      /\ Held(s.id)
  BY DEF TypeOK, WireType, Responder, Response, Held, Number
<1>3. /\ spawned' = spawned \ {s} /\ UNCHANGED <<req, stream>>
      /\ q' = q \/ q' = Append(q, m)
  BY <1>1, Zenon DEF OnCommandResponse
<1> HIDE DEF m
<1>4. At("spawned", s.id) /\ ~Carries(q, s.id)
  <2>1. At("spawned", s.id)
    BY <1>2, PlaceFacts DEF PlaceTable
  <2> QED
    BY <1>2, <2>1, PlaceFacts DEF PlaceTable, ReplyInv, OnePlace
<1>5. \A n \in Nat : /\ Carries(q', n) => Carries(q, n) \/ n = s.id
                     /\ CarriesOnce(q', n)
  <2>1. \A n \in Nat : CarriesOnce(q, n)
    BY DEF ReplyInv, NoRepeat
  <2>2. CASE q' = Append(q, m)
    BY <1>2, <1>4, <2>1, <2>2, AppendCarries
  <2> QED
    BY <1>3, <2>1, <2>2
<1>6. \A n \in Nat : Held(n)' => Held(n) /\ n # s.id
  BY <1>2, <1>3 DEF ReplyInv, NoRepeat, Held
<1>7. ASSUME NEW n \in Nat
      PROVE  Conserved(n)
  <2>1. ASSUME NEW d \in Conns
        PROVE  /\ At(ReqOf(d), n)' => At(ReqOf(d), n)
               /\ At(StreamOf(d), n)' => At(StreamOf(d), n)
    BY <1>3, PlaceFacts DEF PlaceTable
  <2>2. /\ At("spawned", n)' => At("spawned", n) /\ n # s.id
        /\ At("channel", n)' => At("channel", n) \/ n = s.id
    BY <1>5, <1>6, PlaceFacts DEF PlaceTable
  <2>3. CASE n = s.id
    <3>1. "spawned" \in Places /\ "channel" \in Places
      BY PlaceFacts DEF PlaceTable
    <3>2. \A p \in Places : At(p, n)' => p = "channel" \/ (At(p, n) /\ p # "spawned")
      BY <2>1, <2>2, <2>3, PlaceFacts DEF PlaceTable
    <3>3. \A p \in Places : At(p, n)' => p = "channel"
      BY <1>4, <2>3, <3>1, <3>2 DEF ReplyInv, OnePlace
    <3> QED
      BY <1>4, <2>3, <3>1, <3>3 DEF Conserved
  <2>4. CASE n # s.id
    BY <2>1, <2>2, <2>4, PlaceFacts DEF PlaceTable, Conserved
  <2> QED
    BY <2>3, <2>4
<1>8. NoRepeat'
  BY <1>3, <1>5 DEF ReplyInv, NoRepeat
<1>9. UNCHANGED <<pc, id, answer, sent, abandoned>>
  BY <1>1 DEF OnCommandResponse, callVars
<1> QED
  BY <1>7, <1>8, <1>9, ConservedKeeps DEF ReplyInv

-----------------------------------------------------------------------------
(* Steps of the goroutines *)

\* A goroutine stays as it is, or leaves its wait with its command abandoned,
\* and comes to a return only without a reply.
Aside(t) ==
    \/ pc'[t] = pc[t] /\ id'[t] = id[t] /\ answer'[t] = answer[t]
    \/ /\ pc[t] = "wait" => id[t] \in abandoned'
       /\ pc'[t] # "wait"
       /\ pc'[t] = "return" => answer'[t].id = 0
       /\ id'[t] \in {0, id[t]} /\ answer'[t].id \in {0, answer[t].id}

\* A step that brings no reply anywhere and takes no goroutine to a reply.
LEMMA AsideKeeps ==
    ASSUME TypeOK, ReplyInv, NoRepeat',
           \A n \in Nat, p \in Places : At(p, n)' => At(p, n),
           sent' = sent, abandoned \subseteq abandoned',
           \A t \in Threads : Aside(t)
    PROVE  ReplyInv'
<1>0. /\ Len(sent) \in Nat
      /\ \A t \in Threads : id[t] \in Nat /\ answer[t].id \in Nat
  BY DEF TypeOK, WireType, CallType, Answer
<1>1. OnePlace'
  BY DEF ReplyInv, OnePlace
<1>2. Numbered'
  BY <1>0 DEF ReplyInv, Numbered, Aside
<1>3. Owed'
  BY <1>0 DEF ReplyInv, Owed, Aside
<1>4. Gone'
  <2>1. \A p \in Places : ~At(p, 0)
    BY DEF ReplyInv, Numbered
  <2> QED
    BY <1>0, <2>1 DEF ReplyInv, Gone, Aside
<1>5. Attributed'
  BY <1>0 DEF ReplyInv, Attributed, Aside
<1> QED
  BY <1>1, <1>2, <1>3, <1>4, <1>5 DEF ReplyInv

\* The places depend on four variables only.
LEMMA PlacesSame ==
    ASSUME UNCHANGED <<req, stream, spawned, currentCommandResponse>>
    PROVE  /\ \A n, p : At(p, n)' <=> At(p, n)
           /\ NoRepeat => NoRepeat'
BY DEF At, Held, NoRepeat

\* Steps that touch neither messages nor results, of the sockets and of
\* goroutines that start, fail to write or end a command.
LEMMA LocalKeeps ==
    ASSUME TypeOK, ReplyInv,
           \/ SocketFails
           \/ \E t \in Threads : \/ Redial(t) \/ Attach(t) \/ WriteFails(t)
                                 \/ Return(t) \/ Timeout(t)
           \/ \E t \in Callers : Begin(t)
    PROVE  ReplyInv'
<1>0. /\ pc \in [Threads -> {"idle", "lock", "write", "wait", "return", "redial",
                         "attach"}]
      /\ id \in [Threads -> Nat] /\ answer \in [Threads -> Answer]
      /\ Callers \subseteq Threads
      /\ NoAnswer.id = 0 /\ Failed.id = 0
  BY ThreadFacts DEF TypeOK, CallType, NoAnswer, Failed
<1>1. /\ UNCHANGED <<req, stream, spawned, currentCommandResponse, sent>>
      /\ abandoned \subseteq abandoned'
  BY DEF SocketFails, Redial, Attach, WriteFails, Return, Timeout, Begin, wireVars
<1>2. ASSUME NEW u \in Threads
      PROVE  Aside(u)
  <2>1. CASE SocketFails
    BY <2>1 DEF SocketFails, callVars, Aside
  <2>2. ASSUME NEW t \in Threads, Redial(t) \/ Attach(t) \/ WriteFails(t)
        PROVE  Aside(u)
    BY <1>0, <2>2 DEF Redial, Attach, WriteFails, Aside
  <2>3. ASSUME NEW t \in Threads, Return(t)
        PROVE  Aside(u)
    <3>1. /\ id' = [id EXCEPT ![t] = 0] /\ answer' = [answer EXCEPT ![t] = NoAnswer]
          /\ pc[t] = "return"
          /\ \/ pc' = [pc EXCEPT ![t] = "idle"]
             \/ pc' = [pc EXCEPT ![t] = "lock"]
      BY <2>3, Zenon DEF Return
    <3> QED
      BY <1>0, <3>1 DEF Aside
  <2>4. ASSUME NEW t \in Threads, Timeout(t)
        PROVE  Aside(u)
    <3>1. /\ UNCHANGED id /\ answer' = [answer EXCEPT ![t] = Failed]
          /\ pc' = [pc EXCEPT ![t] = "return"] /\ id[t] \in abandoned'
      BY <2>4 DEF Timeout
    <3> QED
      BY <1>0, <3>1 DEF Aside
  <2>5. ASSUME NEW t \in Callers, Begin(t)
        PROVE  Aside(u)
    <3>1. /\ UNCHANGED <<id, answer>> /\ pc[t] = "idle"
          /\ pc' = [pc EXCEPT ![t] = "lock"]
      BY <2>5 DEF Begin
    <3> QED
      BY <1>0, <3>1 DEF Aside
  <2> QED
    BY <2>1, <2>2, <2>3, <2>4, <2>5
<1> QED
  BY <1>1, <1>2, PlacesSame, AsideKeeps DEF ReplyInv

\* A command makes a new channel: what was in the old one is lost.
LEMMA LockKeeps ==
    ASSUME TypeOK, ReplyInv, NEW t \in Threads, Lock(t)
    PROVE  ReplyInv'
<1>0. pc \in [Threads -> {"idle", "lock", "write", "wait", "return", "redial",
                         "attach"}]
  BY DEF TypeOK, CallType
<1>1. /\ UNCHANGED <<req, stream, spawned, sent, abandoned, id, answer>>
      /\ pc[t] = "lock"
      /\ \/ /\ UNCHANGED currentCommandResponse
            /\ pc' = [pc EXCEPT ![t] = "redial"]
         \/ /\ currentCommandResponse' = <<>>
            /\ pc' = [pc EXCEPT ![t] = "write"]
  BY Zenon DEF Lock
<1>2. \A n \in Nat : /\ Carries(currentCommandResponse', n) =>
                            Carries(currentCommandResponse, n)
                     /\ CarriesOnce(currentCommandResponse', n)
  <2>1. \A n \in Nat : CarriesOnce(currentCommandResponse, n)
    BY DEF ReplyInv, NoRepeat
  <2> QED
    BY <1>1, <2>1, EmptyHas
<1>3. \A n \in Nat, p \in Places : At(p, n)' => At(p, n)
  BY <1>1, <1>2 DEF At, Held
<1>4. NoRepeat'
  BY <1>1, <1>2 DEF ReplyInv, NoRepeat
<1>5. \A u \in Threads : Aside(u)
  BY <1>0, <1>1 DEF Aside
<1> QED
  BY <1>1, <1>3, <1>4, <1>5, AsideKeeps

\* The reader drops an event and may start a command.
LEMMA ReadEventKeeps ==
    ASSUME TypeOK, ReplyInv, NEW c \in Conns, ReadEvent(c)
    PROVE  ReplyInv'
<1>0. /\ pc \in [Threads -> {"idle", "lock", "write", "wait", "return", "redial",
                         "attach"}]
      /\ c \in Threads
      /\ stream \in [Conns -> Seq(Message)] /\ stream[c] # <<>>
  BY ThreadFacts DEF TypeOK, CallType, WireType, ReadEvent
<1>1. /\ UNCHANGED <<req, currentCommandResponse, sent, abandoned, id, answer>>
      /\ stream' = [stream EXCEPT ![c] = Tail(@)]
      /\ spawned' = Overwrite(c, 0)
      /\ pc[c] = "idle" /\ (pc' = pc \/ pc' = [pc EXCEPT ![c] = "lock"])
  BY Zenon DEF ReadEvent, CanRead
<1>2. \A d \in Conns, n \in Nat : /\ Has(stream'[d], Reply(n)) => Has(stream[d], Reply(n))
                                  /\ Once(stream'[d], Reply(n))
  <2>1. \A d \in Conns, n \in Nat : Once(stream[d], Reply(n))
    BY DEF ReplyInv, NoRepeat
  <2>2. /\ stream'[c] = Tail(stream[c])
        /\ \A d \in Conns : d # c => stream'[d] = stream[d]
    BY <1>0, <1>1
  <2>3. stream[c] \in Seq(Message)
    BY <1>0
  <2>4. \A n \in Nat : /\ Has(stream'[c], Reply(n)) => Has(stream[c], Reply(n))
                       /\ Once(stream'[c], Reply(n))
    BY <1>0, <2>1, <2>2, <2>3, TailHas
  <2> QED
    BY <2>1, <2>2, <2>4
<1>3. /\ \A n \in Nat : Held(n)' => Held(n)
      /\ \A n \in Nat : \A s, u \in spawned' : s.id = n /\ u.id = n => s = u
  BY <1>1, OverwriteHolds DEF ReplyInv, Held
<1>4. \A n \in Nat, p \in Places : At(p, n)' => At(p, n)
  BY <1>1, <1>2, <1>3 DEF At, Conns
<1>5. NoRepeat'
  BY <1>1, <1>2, <1>3 DEF ReplyInv, NoRepeat
<1>6. \A u \in Threads : Aside(u)
  BY <1>0, <1>1 DEF Aside
<1> QED
  BY <1>1, <1>4, <1>5, <1>6, AsideKeeps

\* The new command is the last one: nobody waits for another, and its number
\* is in no place before.
LEMMA WriteKeeps ==
    ASSUME TypeOK, OneCommand, ReplyInv, NEW t \in Threads, Write(t)
    PROVE  ReplyInv'
<1> DEFINE c == ConnFor(cmd[t])
           n0 == Len(sent) + 1
<1>0. /\ pc \in [Threads -> {"idle", "lock", "write", "wait", "return", "redial",
                         "attach"}]
      /\ id \in [Threads -> Nat] /\ answer \in [Threads -> Answer]
      /\ \A u \in Threads : answer[u].id \in Nat
      /\ sent \in Seq(Commands) /\ Len(sent) \in Nat /\ n0 \in Nat
      /\ req \in [Conns -> Seq(Number)] /\ c \in Conns
      /\ NoAnswer.id = 0 /\ NoAnswer \in Answer
  BY ConnForType, AnswerFacts DEF TypeOK, CallType, WireType, Answer, NoAnswer
<1>1. /\ UNCHANGED <<stream, spawned, currentCommandResponse>>
      /\ pc[t] = "write"
      /\ sent' = Append(sent, cmd[t])
      /\ id' = [id EXCEPT ![t] = n0]
      /\ req' = [req EXCEPT ![c] = Append(@, n0)]
      /\ \/ /\ pc' = [pc EXCEPT ![t] = "return"]
            /\ answer' = [answer EXCEPT ![t] = NoAnswer]
            /\ abandoned' = abandoned \cup {n0}
         \/ /\ pc' = [pc EXCEPT ![t] = "wait"]
            /\ UNCHANGED <<answer, abandoned>>
  BY Zenon DEF Write
<1>2. Len(sent') = n0
  <2>1. cmd[t] \in Commands
    BY <1>1 DEF TypeOK, CallType
  <2> QED
    BY <1>0, <1>1, <2>1
<1> HIDE DEF c
<1>3. ASSUME NEW u \in Threads
      PROVE  pc[u] # "wait"
  BY <1>1 DEF OneCommand, InCommand
<1>4. \A p \in Places : ~At(p, n0)
  BY <1>0 DEF ReplyInv, Numbered
<1>5. \A n \in Nat, d \in Conns : /\ Has(req'[d], n) => Has(req[d], n) \/ (n = n0 /\ d = c)
                                  /\ Once(req'[d], n)
  <2>1. \A n \in Nat, d \in Conns : Once(req[d], n) /\ ~Has(req[d], n0)
    BY <1>4, PlaceFacts DEF PlaceTable, ReplyInv, NoRepeat
  <2>2. /\ req'[c] = Append(req[c], n0)
        /\ \A d \in Conns : d # c => req'[d] = req[d]
    BY <1>0, <1>1
  <2>3. \A n \in Nat : /\ Has(req'[c], n) => Has(req[c], n) \/ n = n0
                       /\ Once(req'[c], n)
    <3>1. req[c] \in Seq(Number) /\ n0 \in Number /\ ~Has(req[c], n0)
      BY <1>0, <1>1, <2>1 DEF Number
    <3> HIDE DEF n0
    <3>2. ASSUME NEW n \in Nat
          PROVE  /\ Has(Append(req[c], n0), n) => Has(req[c], n) \/ n = n0
                 /\ Once(req[c], n) /\ (n = n0 => ~Has(req[c], n)) =>
                       Once(Append(req[c], n0), n)
      BY <3>1, AppendHas, Zenon
    <3> QED
      BY <1>0, <2>1, <2>2, <3>1, <3>2
  <2> QED
    BY <2>1, <2>2, <2>3
<1>6. \A n \in Nat, p \in Places : At(p, n)' => At(p, n) \/ (n = n0 /\ p = ReqOf(c))
  <2>1. ASSUME NEW n \in Nat, NEW d \in Conns
        PROVE  /\ At(ReqOf(d), n)' => At(ReqOf(d), n) \/ (n = n0 /\ d = c)
               /\ At(StreamOf(d), n)' => At(StreamOf(d), n)
    BY <1>1, <1>5, PlaceFacts DEF PlaceTable
  <2>2. \A n \in Nat : /\ At("spawned", n)' => At("spawned", n)
                       /\ At("channel", n)' => At("channel", n)
    BY <1>1 DEF At, Held, Carries
  <2> QED
    BY <2>1, <2>2, PlaceFacts DEF PlaceTable
<1>7. OnePlace'
  BY <1>4, <1>6 DEF ReplyInv, OnePlace
<1>8. NoRepeat'
  BY <1>1, <1>5 DEF ReplyInv, NoRepeat
<1>9. /\ \A u \in Threads : id'[u] <= n0 /\ answer'[u].id <= n0
      /\ id'[t] = n0 /\ n0 >= 1
  BY <1>0, <1>1 DEF ReplyInv, Numbered
<1>10. Numbered'
  <2>1. \A n \in Nat, p \in Places : At(p, n)' => n >= 1 /\ n <= n0
    BY <1>0, <1>6 DEF ReplyInv, Numbered
  <2>2. \A u \in Threads : pc'[u] = "wait" => u = t
    BY <1>0, <1>1, <1>3
  <2> QED
    BY <1>2, <1>9, <2>1, <2>2 DEF Numbered
<1>11. Owed'
  <2>1. n0 \in abandoned' \/ pc'[t] = "wait"
    BY <1>0, <1>1
  <2>2. \A n \in Nat, p \in Places : At(p, n) => n \in abandoned'
    BY <1>1, <1>3 DEF ReplyInv, Owed
  <2> QED
    BY <1>6, <1>9, <2>1, <2>2 DEF Owed
<1>12. ASSUME NEW u \in Threads, pc'[u] = "return"
       PROVE  answer'[u].id = 0 \/
                 (u # t /\ pc[u] = "return" /\ id'[u] = id[u] /\ answer'[u] = answer[u])
  BY <1>0, <1>1, <1>12
<1>13. Gone'
  <2>1. \A u \in Threads : answer[u].id <= Len(sent)
    BY DEF ReplyInv, Numbered
  <2>2. ASSUME NEW u \in Threads, NEW p \in Places, pc'[u] = "return", At(p, answer[u].id)'
        PROVE  FALSE
    <3>1. CASE answer'[u].id = 0
      BY <1>0, <2>2, <3>1, <1>10 DEF Numbered
    <3>2. CASE u # t /\ pc[u] = "return" /\ answer'[u] = answer[u]
      BY <1>0, <1>6, <2>1, <2>2, <3>2 DEF ReplyInv, Gone
    <3> QED
      BY <1>12, <2>2, <3>1, <3>2
  <2> QED
    BY <2>2 DEF Gone
<1>14. Attributed'
  BY <1>1, <1>12 DEF ReplyInv, Attributed
<1> QED
  BY <1>7, <1>8, <1>10, <1>11, <1>13, <1>14 DEF ReplyInv

\* The goroutine that takes a reply from the channel is the only one waiting:
\* the reply is its own or one that was abandoned, and it is in no place after.
LEMMA ReceiveKeeps ==
    ASSUME TypeOK, OneCommand, ReplyInv, NEW t \in Threads, Receive(t)
    PROVE  ReplyInv'
<1> DEFINE q == currentCommandResponse
           h == Head(currentCommandResponse).id
<1>0. /\ pc \in [Threads -> {"idle", "lock", "write", "wait", "return", "redial",
                         "attach"}]
      /\ id \in [Threads -> Nat] /\ answer \in [Threads -> Answer]
      /\ \A u \in Threads : id[u] \in Nat /\ answer[u].id \in Nat
      /\ Len(sent) \in Nat
      /\ q \in Seq(Response) /\ q # <<>> /\ h \in Nat
  <2>1. q \in Seq(Response) /\ q # <<>>
    BY DEF TypeOK, WireType, Receive
  <2>2. Head(q) \in Response
    BY <2>1
  <2>3. h \in Nat
    BY <2>2 DEF Response, Number
  <2> QED
    BY <2>1, <2>3 DEF TypeOK, CallType, WireType, Answer
<1>1. /\ UNCHANGED <<req, stream, spawned, sent, id>>
      /\ pc[t] = "wait"
      /\ answer' = [answer EXCEPT ![t] = [ok |-> TRUE, id |-> h, text |-> Head(q).text]]
      /\ q' = Tail(q)
      /\ abandoned \subseteq abandoned'
      /\ h # id[t] => id[t] \in abandoned'
      /\ pc' = [pc EXCEPT ![t] = "return"]
  BY DEF Receive
<1>2. \A u \in Threads : pc[u] = "wait" => u = t
  BY <1>1 DEF OneCommand, InCommand
<1>3. /\ answer'[t].id = h
      /\ \A u \in Threads : u # t => answer'[u] = answer[u] /\ pc'[u] = pc[u]
      /\ pc'[t] = "return"
  BY <1>0, <1>1
<1>4. At("channel", h)
  BY <1>0, TailCarries, PlaceFacts DEF PlaceTable
<1> HIDE DEF h
<1>5. \A n \in Nat : /\ Carries(q', n) => Carries(q, n) /\ n # h
                     /\ CarriesOnce(q', n)
  <2>1. \A n \in Nat : CarriesOnce(q, n)
    BY DEF ReplyInv, NoRepeat
  <2> QED
    BY <1>0, <1>1, <2>1, TailCarries DEF h
<1>6. \A n \in Nat, p \in Places : At(p, n)' => At(p, n) /\ n # h
  <2>1. \A n \in Nat, p \in Places : At(p, n)' => At(p, n) /\ (p = "channel" => n # h)
    BY <1>1, <1>5 DEF At, Held
  <2> QED
    BY <1>0, <1>4, <2>1, PlaceFacts DEF PlaceTable, ReplyInv, OnePlace
<1>7. OnePlace'
  BY <1>6 DEF ReplyInv, OnePlace
<1>8. NoRepeat'
  BY <1>1, <1>5 DEF ReplyInv, NoRepeat
<1>9. h >= 1 /\ h <= Len(sent) /\ id[t] = Len(sent)
  BY <1>0, <1>1, <1>4, PlaceFacts DEF PlaceTable, ReplyInv, Numbered
<1>10. Numbered'
  <2>1. \A u \in Threads : pc'[u] # "wait"
    BY <1>0, <1>1, <1>2, <1>3
  <2> QED
    BY <1>1, <1>3, <1>6, <1>9, <2>1 DEF ReplyInv, Numbered
<1>11. Owed'
  <2>1. \A n \in Nat, p \in Places : At(p, n) /\ n # h => n \in abandoned'
    <3>1. \A n \in Nat, p \in Places : At(p, n) => n \in abandoned \/ n = id[t]
      BY <1>2 DEF ReplyInv, Owed
    <3> QED
      BY <1>1, <3>1
  <2> QED
    BY <1>6, <2>1 DEF Owed
<1>12. Gone'
  BY <1>0, <1>3, <1>6 DEF ReplyInv, Gone
<1>13. Attributed'
  <2>1. h = id[t] \/ (h \in abandoned /\ h < id[t])
    <3>1. h \in abandoned \/ h = id[t]
      BY <1>0, <1>2, <1>4, PlaceFacts DEF PlaceTable, ReplyInv, Owed
    <3> QED
      BY <1>0, <1>9, <3>1
  <2> QED
    BY <1>1, <1>3, <2>1 DEF ReplyInv, Attributed
<1> QED
  BY <1>7, <1>8, <1>10, <1>11, <1>12, <1>13 DEF ReplyInv

\* No reply has been sent in the initial state.
LEMMA ReplyInit == Init => ReplyInv
<1> SUFFICES ASSUME Init
             PROVE  ReplyInv
  OBVIOUS
<1>1. /\ \A c \in Conns : req[c] = <<>> /\ stream[c] = <<>>
      /\ spawned = {} /\ currentCommandResponse = <<>> /\ sent = <<>>
      /\ \A t \in Threads : id[t] = 0 /\ answer[t].id = 0 /\ pc[t] \notin {"wait", "return"}
  BY DEF Init, NoAnswer
<1>2. \A n, p : ~At(p, n)
  BY <1>1, EmptyHas, ThreadFacts DEF At, Held
<1>3. NoRepeat
  BY <1>1, EmptyHas DEF NoRepeat
<1>4. Numbered
  BY <1>1, <1>2 DEF Numbered
<1> QED
  BY <1>1, <1>2, <1>3, <1>4 DEF ReplyInv, OnePlace, Owed, Gone, Attributed

\* Where replies are, and to whom they are returned, is inductive.
LEMMA ReplyInvNext == TypeOK /\ OneCommand /\ ReplyInv /\ [Next]_vars => ReplyInv'
<1> SUFFICES ASSUME TypeOK, OneCommand, ReplyInv, [Next]_vars
             PROVE  ReplyInv'
  OBVIOUS
<1>1. CASE UNCHANGED vars
  <2>1. /\ UNCHANGED <<req, stream, spawned, currentCommandResponse>>
        /\ UNCHANGED <<pc, id, answer, sent, abandoned>>
    BY <1>1 DEF vars, callVars, wireVars
  <2>2. \A t \in Threads : Aside(t)
    BY <2>1 DEF Aside
  <2> QED
    BY <2>1, <2>2, PlacesSame, AsideKeeps DEF ReplyInv
<1>2. CASE Next
  BY <1>2, LocalKeeps, LockKeeps, WriteKeeps, ReceiveKeeps, SupplicantKeeps,
     SendEventKeeps, ReadReplyKeeps, ReadEventKeeps, DeliverKeeps DEF Next
<1> QED
  BY <1>1, <1>2

\* The numbers of the replies under way are those that are at some place.
LEMMA InFlightPlaces ==
    ASSUME TypeOK, NEW n, n \in InFlight
    PROVE  n \in Nat /\ \E p \in Places : At(p, n)
<1>1. CASE \E c \in Conns : \E i \in DOMAIN req[c] : n = req[c][i]
  <2>1. PICK c \in Conns : \E i \in DOMAIN req[c] : n = req[c][i]
    BY <1>1
  <2>2. req[c] \in Seq(Number)
    BY DEF TypeOK, WireType
  <2>3. n \in Nat /\ Has(req[c], n)
    BY <2>1, <2>2 DEF Has, Number
  <2> QED
    BY <2>3, PlaceFacts DEF PlaceTable
<1>2. CASE \E c \in Conns : \E i \in DOMAIN stream[c] :
                stream[c][i].ev = "REPLY" /\ n = stream[c][i].id
  <2>0. PICK c \in Conns : \E i \in DOMAIN stream[c] :
                stream[c][i].ev = "REPLY" /\ n = stream[c][i].id
    BY <1>2
  <2>1. PICK i \in DOMAIN stream[c] : stream[c][i].ev = "REPLY" /\ n = stream[c][i].id
    BY <2>0
  <2>2. stream[c][i] \in Message
    BY DEF TypeOK, WireType
  <2>3. n \in Nat /\ stream[c][i] = Reply(n)
    BY <2>1, <2>2 DEF Message, Reply, Number, EventTypes
  <2>4. Has(stream[c], Reply(n))
    BY <2>3 DEF Has
  <2> QED
    BY <2>3, <2>4, PlaceFacts DEF PlaceTable
<1>3. CASE \E s \in spawned : n = s.id
  BY <1>3, PlaceFacts DEF PlaceTable, Held, TypeOK, WireType, Responder, Number
<1>4. CASE \E i \in DOMAIN currentCommandResponse : n = currentCommandResponse[i].id
  <2>1. currentCommandResponse \in Seq(Response)
    BY DEF TypeOK, WireType
  <2>2. PICK i \in DOMAIN currentCommandResponse : n = currentCommandResponse[i].id
    BY <1>4
  <2>3. currentCommandResponse[i] \in Response
    BY <2>1
  <2>4. n \in Nat /\ Carries(currentCommandResponse, n)
    BY <2>2, <2>3 DEF Response, Carries, Number
  <2> QED
    BY <2>4, PlaceFacts DEF PlaceTable
<1>5. \/ n \in UNION {{req[c][i] : i \in DOMAIN req[c]} : c \in Conns}
      \/ n \in UNION {{stream[c][i].id : i \in {j \in DOMAIN stream[c] :
                          stream[c][j].ev = "REPLY"}} : c \in Conns}
      \/ n \in {s.id : s \in spawned}
      \/ n \in {currentCommandResponse[i].id : i \in DOMAIN currentCommandResponse}
  BY Zenon DEF InFlight
<1>6. n \in UNION {{req[c][i] : i \in DOMAIN req[c]} : c \in Conns} =>
          \E c \in Conns : \E i \in DOMAIN req[c] : n = req[c][i]
  OBVIOUS
<1>7. n \in UNION {{stream[c][i].id : i \in {j \in DOMAIN stream[c] :
                          stream[c][j].ev = "REPLY"}} : c \in Conns} =>
          \E c \in Conns : \E i \in DOMAIN stream[c] :
              stream[c][i].ev = "REPLY" /\ n = stream[c][i].id
  OBVIOUS
<1> QED
  BY <1>1, <1>2, <1>3, <1>4, <1>5, <1>6, <1>7, Zenon

\* Every variable of the reply path is in step along every behaviour.
THEOREM ReplyInvHolds == Spec => []ReplyInv
BY ReplyInit, ReplyInvNext, TypeCorrect, OneCommandHolds, PTL DEF Spec


-----------------------------------------------------------------------------
(* The order of the messages, and the texts in the buffers *)

\* The replies of a socket come in the order of its commands: those that have
\* been read before those in the stream, and these before those still owed.
Order ==
    \A c \in Conns :
        /\ \A i, j \in DOMAIN req[c] : i < j => req[c][i] < req[c][j]
        /\ \A i, j \in DOMAIN stream[c] :
              i < j /\ stream[c][j].ev = "REPLY" => stream[c][i].id < stream[c][j].id
        /\ \A i \in DOMAIN stream[c], j \in DOMAIN req[c] :
              stream[c][i].id < req[c][j]
        /\ \A s \in spawned : s.conn = c =>
              /\ \A i \in DOMAIN stream[c] :
                    stream[c][i].ev = "REPLY" => s.id < stream[c][i].id
              /\ \A j \in DOMAIN req[c] : s.id < req[c][j]

\* Their numbers are those of commands that were written.
Bounded ==
    /\ \A c \in Conns : /\ \A j \in DOMAIN req[c] : req[c][j] <= Len(sent)
                        /\ \A i \in DOMAIN stream[c] : stream[c][i].id <= Len(sent)
    /\ \A s \in spawned : s.id <= Len(sent)

\* A text is that of an event, or of a reply not older than the one it was
\* read as.
TextOf(m) == m.text = 0 \/ (m.id <= m.text /\ m.text <= Len(sent))

Texts ==
    /\ \A s \in spawned : TextOf(s)
    /\ \A i \in DOMAIN currentCommandResponse : TextOf(currentCommandResponse[i])

\* What was returned is not newer than the command.
Returned ==
    \A t \in Threads : pc[t] = "return" /\ answer[t].id # 0 =>
        answer[t].text = 0 \/ answer[t].text \in answer[t].id .. id[t]

OrderInv == Order /\ Bounded /\ Texts /\ Returned

\* The elements of a sequence without its head.
LEMMA TailAt ==
    ASSUME NEW S, NEW s \in Seq(S), s # <<>>
    PROVE  /\ 1 \in DOMAIN s /\ Head(s) = s[1] /\ DOMAIN s \subseteq Nat \ {0}
           /\ \A i \in DOMAIN Tail(s) :
                 i \in Nat /\ i >= 1 /\ i + 1 \in DOMAIN s /\ Tail(s)[i] = s[i + 1]
OBVIOUS

\* The elements of a sequence with one more.
LEMMA AppendAt ==
    ASSUME NEW S, NEW s \in Seq(S), NEW y \in S
    PROVE  /\ DOMAIN s \subseteq Nat
           /\ \A i \in DOMAIN Append(s, y) :
                 \/ i \in DOMAIN s /\ Append(s, y)[i] = s[i]
                 \/ Append(s, y)[i] = y /\ i \in Nat /\ \A j \in DOMAIN s : j < i
<1>1. /\ Len(s) \in Nat /\ DOMAIN s = 1 .. Len(s)
      /\ DOMAIN Append(s, y) = 1 .. (Len(s) + 1)
      /\ \A i \in 1 .. Len(s) : Append(s, y)[i] = s[i]
      /\ Append(s, y)[Len(s) + 1] = y
  OBVIOUS
<1> QED
  BY <1>1

\* The elements of the messages have their types.
LEMMA WireElements ==
    ASSUME TypeOK
    PROVE  /\ Len(sent) \in Nat
           /\ \A c \in Conns : /\ req[c] \in Seq(Number) /\ stream[c] \in Seq(Message)
                               /\ \A j \in DOMAIN req[c] : req[c][j] \in Nat /\ req[c][j] >= 1
                               /\ \A i \in DOMAIN stream[c] : stream[c][i].id \in Nat
           /\ \A s \in spawned : s.id \in Nat /\ s.text \in Nat /\ s.conn \in Conns
           /\ currentCommandResponse \in Seq(Response)
           /\ \A i \in DOMAIN currentCommandResponse :
                 /\ currentCommandResponse[i].id \in Nat
                 /\ currentCommandResponse[i].text \in Nat
           /\ \A t \in Threads : id[t] \in Nat /\ answer[t].id \in Nat /\ answer[t].text \in Nat
<1>1. Len(sent) \in Nat
  BY DEF TypeOK, WireType
<1>2. ASSUME NEW c \in Conns
      PROVE  /\ req[c] \in Seq(Number) /\ stream[c] \in Seq(Message)
             /\ \A j \in DOMAIN req[c] : req[c][j] \in Nat /\ req[c][j] >= 1
             /\ \A i \in DOMAIN stream[c] : stream[c][i].id \in Nat
  <2>1. req[c] \in Seq(Number) /\ stream[c] \in Seq(Message)
    BY DEF TypeOK, WireType
  <2>2. \A j \in DOMAIN req[c] : req[c][j] \in Nat /\ req[c][j] >= 1
    BY <2>1 DEF Number
  <2>3. \A m \in Message : m.id \in Nat
    BY DEF Message, Number
  <2>4. \A i \in DOMAIN stream[c] : stream[c][i] \in Message
    BY <2>1
  <2> QED
    BY <2>1, <2>2, <2>3, <2>4
<1>3. \A s \in spawned : s.id \in Nat /\ s.text \in Nat /\ s.conn \in Conns
  BY DEF TypeOK, WireType, Responder, Number
<1>4. currentCommandResponse \in Seq(Response)
  BY DEF TypeOK, WireType
<1>5. \A i \in DOMAIN currentCommandResponse :
          currentCommandResponse[i].id \in Nat /\ currentCommandResponse[i].text \in Nat
  <2>1. \A m \in Response : m.id \in Nat /\ m.text \in Nat
    BY DEF Response, Number
  <2>2. \A i \in DOMAIN currentCommandResponse : currentCommandResponse[i] \in Response
    BY <1>4
  <2> QED
    BY <2>1, <2>2
<1>6. \A t \in Threads : id[t] \in Nat /\ answer[t].id \in Nat /\ answer[t].text \in Nat
  BY DEF TypeOK, CallType, Answer
<1> QED
  BY <1>1, <1>2, <1>3, <1>4, <1>5, <1>6

\* wpa_supplicant answers the oldest command.
LEMMA SupplicantOrder ==
    ASSUME TypeOK, OrderInv, NEW c \in Conns, Supplicant(c)
    PROVE  OrderInv'
<1> DEFINE h == req[c][1]
<1>1. /\ req[c] \in Seq(Number) /\ req[c] # <<>> /\ stream[c] \in Seq(Message)
      /\ 1 \in DOMAIN req[c] /\ Head(req[c]) = h /\ h \in Number /\ Reply(h) \in Message
      /\ Reply(h).id = h
  <2>1. req[c] \in Seq(Number) /\ req[c] # <<>> /\ stream[c] \in Seq(Message)
    BY WireElements DEF Supplicant
  <2>2. 1 \in DOMAIN req[c] /\ Head(req[c]) = h /\ h \in Number
    BY <2>1
  <2> QED
    BY <2>1, <2>2 DEF Reply, Message
<1>2. /\ req'[c] = Tail(req[c]) /\ stream'[c] = Append(stream[c], Reply(h))
      /\ \A d \in Conns : d # c => req'[d] = req[d] /\ stream'[d] = stream[d]
      /\ UNCHANGED <<spawned, currentCommandResponse, sent, pc, id, answer>>
  BY <1>1 DEF Supplicant, TypeOK, WireType, callVars
<1> HIDE DEF h
<1>3. /\ \A j \in DOMAIN req'[c] : /\ j \in Nat /\ j >= 1 /\ j + 1 \in DOMAIN req[c]
                                   /\ req'[c][j] = req[c][j + 1]
      /\ \A j \in DOMAIN req'[c] : h < req'[c][j]
  <2>1. \A j \in DOMAIN req'[c] : /\ j \in Nat /\ j >= 1 /\ j + 1 \in DOMAIN req[c]
                                  /\ req'[c][j] = req[c][j + 1]
    BY <1>1, <1>2, TailAt
  <2> QED
    BY <1>1, <2>1 DEF OrderInv, Order, h
<1>4. \A i \in DOMAIN stream'[c] :
          \/ i \in DOMAIN stream[c] /\ i \in Nat /\ stream'[c][i] = stream[c][i]
          \/ stream'[c][i] = Reply(h) /\ i \in Nat /\ \A j \in DOMAIN stream[c] : j < i
  BY <1>1, <1>2, AppendAt
<1>5. /\ \A i \in DOMAIN stream[c] : stream[c][i].id < h
      /\ \A s \in spawned : s.conn = c => s.id < h
      /\ h <= Len(sent)
  BY <1>1 DEF OrderInv, Order, Bounded, h
<1>6. \A i, j \in DOMAIN stream'[c] : i < j => i \in DOMAIN stream[c]
  <2>1. /\ Len(stream[c]) \in Nat /\ DOMAIN stream[c] = 1 .. Len(stream[c])
        /\ DOMAIN stream'[c] = 1 .. (Len(stream[c]) + 1)
    BY <1>1, <1>2
  <2> QED
    BY <2>1
<1>7. Order'
  <2>1. /\ \A i, j \in DOMAIN req'[c] : i < j => req'[c][i] < req'[c][j]
        /\ \A s \in spawned : s.conn = c => \A j \in DOMAIN req'[c] : s.id < req'[c][j]
        /\ \A i \in DOMAIN stream[c], j \in DOMAIN req'[c] : stream[c][i].id < req'[c][j]
    BY <1>3 DEF OrderInv, Order
  <2>2. ASSUME NEW i \in DOMAIN stream'[c], NEW j \in DOMAIN stream'[c],
               i < j, stream'[c][j].ev = "REPLY"
        PROVE  stream'[c][i].id < stream'[c][j].id
    <3>1. CASE j \in DOMAIN stream[c] /\ j \in Nat /\ stream'[c][j] = stream[c][j]
      <4>1. i \in DOMAIN stream[c] /\ stream'[c][i] = stream[c][i]
        BY <1>4, <2>2, <3>1
      <4> QED
        BY <2>2, <3>1, <4>1 DEF OrderInv, Order
    <3>2. CASE stream'[c][j] = Reply(h)
      <4>1. i \in DOMAIN stream[c] /\ stream'[c][i] = stream[c][i]
        BY <1>4, <2>2, <1>6
      <4> QED
        BY <1>1, <1>5, <3>2, <4>1
    <3> QED
      BY <1>4, <3>1, <3>2
  <2>3. \A i \in DOMAIN stream'[c], j \in DOMAIN req'[c] : stream'[c][i].id < req'[c][j]
    BY <1>1, <1>3, <1>4, <2>1
  <2>4. \A s \in spawned : s.conn = c => \A i \in DOMAIN stream'[c] :
            stream'[c][i].ev = "REPLY" => s.id < stream'[c][i].id
    <3>1. \A s \in spawned : s.conn = c => \A i \in DOMAIN stream[c] :
              stream[c][i].ev = "REPLY" => s.id < stream[c][i].id
      BY DEF OrderInv, Order
    <3> QED
      BY <1>1, <1>4, <1>5, <3>1
  <2>5. ASSUME NEW d \in Conns, d # c
        PROVE  /\ \A i, j \in DOMAIN req'[d] : i < j => req'[d][i] < req'[d][j]
               /\ \A i, j \in DOMAIN stream'[d] : i < j /\ stream'[d][j].ev = "REPLY" =>
                     stream'[d][i].id < stream'[d][j].id
               /\ \A i \in DOMAIN stream'[d], j \in DOMAIN req'[d] :
                     stream'[d][i].id < req'[d][j]
               /\ \A s \in spawned : s.conn = d =>
                     /\ \A i \in DOMAIN stream'[d] :
                           stream'[d][i].ev = "REPLY" => s.id < stream'[d][i].id
                     /\ \A j \in DOMAIN req'[d] : s.id < req'[d][j]
    BY <1>2, <2>5 DEF OrderInv, Order
  <2> QED
    BY <1>2, <2>1, <2>2, <2>3, <2>4, <2>5 DEF Order
<1>8. Bounded'
  <2>1. /\ \A j \in DOMAIN req'[c] : req'[c][j] <= Len(sent)
        /\ \A i \in DOMAIN stream'[c] : stream'[c][i].id <= Len(sent)
    BY <1>1, <1>3, <1>4, <1>5 DEF OrderInv, Bounded
  <2>2. \A d \in Conns : d # c =>
            /\ \A j \in DOMAIN req'[d] : req'[d][j] <= Len(sent)
            /\ \A i \in DOMAIN stream'[d] : stream'[d][i].id <= Len(sent)
    BY <1>2 DEF OrderInv, Bounded
  <2> QED
    BY <1>2, <2>1, <2>2 DEF OrderInv, Bounded
<1> QED
  BY <1>2, <1>7, <1>8 DEF OrderInv, Texts, TextOf, Returned

\* An event waits in the stream: it has no number.
LEMMA SendEventOrder ==
    ASSUME TypeOK, OrderInv, NEW c \in Conns, SendEvent(c)
    PROVE  OrderInv'
<1>1. PICK e \in Events : stream' = [stream EXCEPT ![c] = Append(@, Event(e))]
  BY DEF SendEvent
<1>2. Event(e) \in Message /\ Event(e).id = 0 /\ Event(e).ev # "REPLY"
  BY WpaAssumption DEF WpaAssumption, Event, Message, EventTypes
<1>3. /\ stream'[c] = Append(stream[c], Event(e))
      /\ \A d \in Conns : d # c => stream'[d] = stream[d]
      /\ UNCHANGED <<req, spawned, currentCommandResponse, sent, pc, id, answer>>
  BY <1>1 DEF SendEvent, TypeOK, WireType, callVars
<1>4. \A i \in DOMAIN stream'[c] :
          \/ i \in DOMAIN stream[c] /\ stream'[c][i] = stream[c][i]
          \/ stream'[c][i] = Event(e) /\ i \in Nat /\ \A j \in DOMAIN stream[c] : j < i
  BY <1>2, <1>3, WireElements, AppendAt
<1>5. \A i, j \in DOMAIN stream'[c] :
          i < j /\ stream'[c][j].ev = "REPLY" => stream'[c][i].id < stream'[c][j].id
  <2>1. \A i, j \in DOMAIN stream'[c] : i < j /\ stream'[c][j].ev = "REPLY" =>
            i \in DOMAIN stream[c] /\ j \in DOMAIN stream[c]
    <3>1. DOMAIN stream[c] \subseteq Nat
      BY <1>2, WireElements, AppendAt
    <3> QED
      BY <1>2, <1>4, <3>1
  <2> QED
    BY <1>2, <1>4, <2>1 DEF OrderInv, Order
<1>6. Order'
  <2>1. \A i \in DOMAIN stream'[c], j \in DOMAIN req[c] : stream'[c][i].id < req[c][j]
    BY <1>2, <1>4, WireElements DEF OrderInv, Order
  <2>2. \A s \in spawned : s.conn = c => \A i \in DOMAIN stream'[c] :
            stream'[c][i].ev = "REPLY" => s.id < stream'[c][i].id
    BY <1>2, <1>4 DEF OrderInv, Order
  <2>3. ASSUME NEW d \in Conns, d # c
        PROVE  /\ \A i, j \in DOMAIN stream'[d] : i < j /\ stream'[d][j].ev = "REPLY" =>
                     stream'[d][i].id < stream'[d][j].id
               /\ \A i \in DOMAIN stream'[d], j \in DOMAIN req[d] :
                     stream'[d][i].id < req[d][j]
               /\ \A s \in spawned : s.conn = d => \A i \in DOMAIN stream'[d] :
                     stream'[d][i].ev = "REPLY" => s.id < stream'[d][i].id
    BY <1>3, <2>3 DEF OrderInv, Order
  <2>4. \A d \in Conns :
            /\ \A i, j \in DOMAIN req[d] : i < j => req[d][i] < req[d][j]
            /\ \A s \in spawned : s.conn = d =>
                  \A j \in DOMAIN req[d] : s.id < req[d][j]
    BY DEF OrderInv, Order
  <2> QED
    BY <1>3, <1>5, <2>1, <2>2, <2>3, <2>4 DEF Order
<1>7. Bounded'
  <2>1. /\ \A j \in DOMAIN req'[c] : req'[c][j] <= Len(sent)
        /\ \A i \in DOMAIN stream'[c] : stream'[c][i].id <= Len(sent)
    BY <1>2, <1>3, <1>4, WireElements DEF OrderInv, Bounded
  <2>2. \A d \in Conns : d # c =>
            /\ \A j \in DOMAIN req'[d] : req'[d][j] <= Len(sent)
            /\ \A i \in DOMAIN stream'[d] : stream'[d][i].id <= Len(sent)
    BY <1>3 DEF OrderInv, Bounded
  <2> QED
    BY <1>3, <2>1, <2>2 DEF OrderInv, Bounded
<1> QED
  BY <1>3, <1>6, <1>7 DEF OrderInv, Texts, TextOf, Returned

\* The reader takes the first message of a stream, and the goroutines of older
\* replies find its text.
LEMMA ReadOrder ==
    ASSUME TypeOK, OrderInv, NEW c \in Conns, NEW n \in Nat,
           stream[c] # <<>>, stream' = [stream EXCEPT ![c] = Tail(@)],
           UNCHANGED <<req, currentCommandResponse, sent, id, answer>>,
           \A t \in Threads : pc'[t] = "return" => pc[t] = "return",
           \/ n = 0 /\ spawned' = Overwrite(c, 0)
           \/ /\ n = Head(stream[c]).id /\ Head(stream[c]).ev = "REPLY"
              /\ spawned' = Overwrite(c, n) \cup {[id |-> n, conn |-> c, text |-> n]}
    PROVE  OrderInv'
<1>1. /\ stream'[c] = Tail(stream[c])
      /\ \A d \in Conns : d # c => stream'[d] = stream[d]
  BY DEF TypeOK, WireType
<1>2. /\ 1 \in DOMAIN stream[c] /\ Head(stream[c]) = stream[c][1]
      /\ \A i \in DOMAIN stream'[c] : /\ i \in Nat /\ i >= 1 /\ i + 1 \in DOMAIN stream[c]
                                      /\ stream'[c][i] = stream[c][i + 1]
  <2>1. stream[c] \in Seq(Message)
    BY WireElements
  <2>2. /\ 1 \in DOMAIN stream[c] /\ Head(stream[c]) = stream[c][1]
        /\ \A i \in DOMAIN Tail(stream[c]) :
              /\ i \in Nat /\ i >= 1 /\ i + 1 \in DOMAIN stream[c]
              /\ Tail(stream[c])[i] = stream[c][i + 1]
    BY <2>1, TailAt, Zenon
  <2> QED
    BY <1>1, <2>2, Zenon
<1>3. /\ n <= Len(sent)
      /\ n # 0 => /\ \A i \in DOMAIN stream'[c] :
                        stream'[c][i].ev = "REPLY" => n < stream'[c][i].id
                  /\ \A j \in DOMAIN req[c] : n < req[c][j]
                  /\ \A s \in spawned : s.conn = c => s.id < n
  <2>1. n <= Len(sent)
    BY <1>2, WireElements DEF OrderInv, Bounded
  <2>2. ASSUME n # 0, NEW i \in DOMAIN stream'[c], stream'[c][i].ev = "REPLY"
        PROVE  n < stream'[c][i].id
    <3>1. i + 1 \in DOMAIN stream[c] /\ 1 < i + 1 /\ stream'[c][i] = stream[c][i + 1]
      BY <1>2
    <3> QED
      BY <1>2, <2>2, <3>1 DEF OrderInv, Order
  <2>3. n # 0 => /\ \A j \in DOMAIN req[c] : n < req[c][j]
                 /\ \A s \in spawned : s.conn = c => s.id < n
    BY <1>2 DEF OrderInv, Order
  <2> QED
    BY <2>1, <2>2, <2>3
<1>4. \A s \in spawned' :
          \/ n # 0 /\ s.id = n /\ s.conn = c /\ s.text = n
          \/ \E r \in spawned : /\ s.id = r.id /\ s.conn = r.conn
                                /\ s.text = IF r.conn = c THEN n ELSE r.text
  <2>1. \A s \in Overwrite(c, n) :
            \E r \in spawned : /\ s.id = r.id /\ s.conn = r.conn
                               /\ s.text = IF r.conn = c THEN n ELSE r.text
    BY DEF Overwrite, TypeOK, WireType, Responder
  <2>2. Head(stream[c]).ev = "REPLY" => Head(stream[c]).id # 0
    <3>1. stream[c][1] \in Message
      BY <1>2, WireElements
    <3> QED
      BY <1>2, <3>1 DEF Message, Number, EventTypes
  <2> QED
    BY <2>1, <2>2
<1>5. Order'
  <2>1. \A i, j \in DOMAIN stream'[c] :
            i < j /\ stream'[c][j].ev = "REPLY" => stream'[c][i].id < stream'[c][j].id
    BY <1>2 DEF OrderInv, Order
  <2>2. \A i \in DOMAIN stream'[c], j \in DOMAIN req[c] : stream'[c][i].id < req[c][j]
    BY <1>2 DEF OrderInv, Order
  <2>3. \A s \in spawned' : s.conn = c =>
            /\ \A i \in DOMAIN stream'[c] :
                  stream'[c][i].ev = "REPLY" => s.id < stream'[c][i].id
            /\ \A j \in DOMAIN req[c] : s.id < req[c][j]
    BY <1>2, <1>3, <1>4 DEF OrderInv, Order
  <2>4. \A d \in Conns : d # c => \A s \in spawned' : s.conn = d =>
            /\ \A i \in DOMAIN stream[d] :
                  stream[d][i].ev = "REPLY" => s.id < stream[d][i].id
            /\ \A j \in DOMAIN req[d] : s.id < req[d][j]
    BY <1>4 DEF OrderInv, Order
  <2> QED
    BY <1>1, <2>1, <2>2, <2>3, <2>4 DEF OrderInv, Order
<1>6. Bounded'
  BY <1>1, <1>2, <1>3, <1>4 DEF OrderInv, Bounded
<1>7. Texts'
  BY <1>3, <1>4, WireElements DEF OrderInv, Texts, TextOf
<1>8. Returned'
  BY DEF OrderInv, Returned
<1> QED
  BY <1>5, <1>6, <1>7, <1>8 DEF OrderInv

\* A message goes to the channel with the text its goroutine found.
LEMMA DeliverOrder ==
    ASSUME TypeOK, OrderInv, Deliver
    PROVE  OrderInv'
<1>1. PICK s \in spawned : OnCommandResponse(s)
  BY DEF Deliver
<1> DEFINE q == currentCommandResponse
           m == [id |-> s.id, text |-> s.text]
<1>2. m \in Response /\ q \in Seq(Response) /\ m.id = s.id /\ m.text = s.text
  BY DEF TypeOK, WireType, Responder, Response
<1>3. /\ spawned' = spawned \ {s} /\ UNCHANGED <<req, stream, sent, pc, id, answer>>
      /\ q' = q \/ q' = Append(q, m)
  BY <1>1, Zenon DEF OnCommandResponse, callVars
<1> HIDE DEF m
<1>4. \A i \in DOMAIN q' : (i \in DOMAIN q /\ q'[i] = q[i]) \/ q'[i] = m
  BY <1>2, <1>3, AppendAt
<1>5. Order' /\ Bounded' /\ Returned'
  BY <1>3 DEF OrderInv, Order, Bounded, Returned
<1>6. Texts'
  BY <1>2, <1>3, <1>4 DEF OrderInv, Texts, TextOf
<1> QED
  BY <1>5, <1>6 DEF OrderInv

\* The new command is the last one.
LEMMA WriteOrder ==
    ASSUME TypeOK, OrderInv, NEW t \in Threads, Write(t)
    PROVE  OrderInv'
<1> DEFINE c == ConnFor(cmd[t])
           n0 == Len(sent) + 1
<1>1. /\ UNCHANGED <<stream, spawned, currentCommandResponse>>
      /\ pc[t] = "write"
      /\ sent' = Append(sent, cmd[t])
      /\ id' = [id EXCEPT ![t] = n0]
      /\ req' = [req EXCEPT ![c] = Append(@, n0)]
      /\ \/ /\ pc' = [pc EXCEPT ![t] = "return"]
            /\ answer' = [answer EXCEPT ![t] = NoAnswer]
         \/ /\ pc' = [pc EXCEPT ![t] = "wait"]
            /\ UNCHANGED answer
  BY Zenon DEF Write
<1>2. /\ c \in Conns /\ n0 \in Number /\ n0 \in Nat /\ Len(sent') = n0 /\ Len(sent) < n0
      /\ Len(sent) \in Nat
  <2>1. cmd[t] \in Commands
    BY <1>1 DEF TypeOK, CallType
  <2> QED
    BY <1>1, <2>1, ConnForType DEF TypeOK, WireType, Number
<1>3. /\ req'[c] = Append(req[c], n0)
      /\ \A d \in Conns : d # c => req'[d] = req[d]
  BY <1>1, <1>2 DEF TypeOK, WireType
<1> HIDE DEF c, n0
<1>4. /\ DOMAIN req[c] \subseteq Nat
      /\ \A j \in DOMAIN req'[c] :
            \/ j \in DOMAIN req[c] /\ req'[c][j] = req[c][j]
            \/ req'[c][j] = n0 /\ j \in Nat /\ \A i \in DOMAIN req[c] : i < j
  BY <1>2, <1>3, WireElements, AppendAt
<1>5. Order'
  <2>1. /\ \A i \in DOMAIN req[c] : req[c][i] < n0
        /\ \A i \in DOMAIN stream[c] : stream[c][i].id < n0
        /\ \A s \in spawned : s.id < n0
    BY <1>2, WireElements DEF OrderInv, Bounded
  <2>0. /\ \A i, j \in DOMAIN req[c] : i < j => req[c][i] < req[c][j]
        /\ \A i \in DOMAIN stream[c], j \in DOMAIN req[c] : stream[c][i].id < req[c][j]
        /\ \A s \in spawned : s.conn = c => \A j \in DOMAIN req[c] : s.id < req[c][j]
    BY <1>2 DEF OrderInv, Order
  <2>2. ASSUME NEW i \in DOMAIN req'[c], NEW j \in DOMAIN req'[c], i < j
        PROVE  req'[c][i] < req'[c][j]
    <3>1. i \in DOMAIN req[c] /\ req'[c][i] = req[c][i]
      <4>1. /\ Len(req[c]) \in Nat /\ DOMAIN req[c] = 1 .. Len(req[c])
            /\ DOMAIN req'[c] = 1 .. (Len(req[c]) + 1)
            /\ \A k \in 1 .. Len(req[c]) : req'[c][k] = req[c][k]
        BY <1>2, <1>3, WireElements
      <4> QED
        BY <2>2, <4>1
    <3> QED
      BY <1>4, <2>0, <2>1, <2>2, <3>1
  <2>3. \A i \in DOMAIN stream[c], j \in DOMAIN req'[c] : stream[c][i].id < req'[c][j]
    BY <1>4, <2>0, <2>1
  <2>4. \A s \in spawned : s.conn = c => \A j \in DOMAIN req'[c] : s.id < req'[c][j]
    BY <1>4, <2>0, <2>1
  <2> QED
    BY <1>1, <1>3, <2>2, <2>3, <2>4 DEF OrderInv, Order
<1>6. Bounded'
  BY <1>1, <1>2, <1>3, <1>4, WireElements DEF OrderInv, Bounded
<1>7. Texts'
  BY <1>1, <1>2, WireElements DEF OrderInv, Texts, TextOf
<1>8. Returned'
  <2>1. ASSUME NEW u \in Threads, pc'[u] = "return", answer'[u].id # 0
        PROVE  pc[u] = "return" /\ answer'[u] = answer[u] /\ id'[u] = id[u]
    BY <1>1, <2>1 DEF TypeOK, CallType, NoAnswer
  <2> QED
    BY <2>1 DEF OrderInv, Returned
<1> QED
  BY <1>5, <1>6, <1>7, <1>8 DEF OrderInv

\* The goroutine that takes a message waits for the last command.
LEMMA ReceiveOrder ==
    ASSUME TypeOK, OrderInv, Numbered, NEW t \in Threads, Receive(t)
    PROVE  OrderInv'
<1> DEFINE q == currentCommandResponse
<1>1. /\ UNCHANGED <<req, stream, spawned, sent, id>>
      /\ pc[t] = "wait" /\ q # <<>>
      /\ answer' = [answer EXCEPT ![t] = [ok |-> TRUE, id |-> Head(q).id, text |-> Head(q).text]]
      /\ q' = Tail(q)
      /\ pc' = [pc EXCEPT ![t] = "return"]
  BY DEF Receive
<1>2. /\ 1 \in DOMAIN q /\ Head(q) = q[1]
      /\ \A i \in DOMAIN q' : i + 1 \in DOMAIN q /\ q'[i] = q[i + 1]
  BY <1>1, WireElements, TailAt
<1>3. Order' /\ Bounded'
  BY <1>1 DEF OrderInv, Order, Bounded
<1>4. Texts'
  BY <1>1, <1>2 DEF OrderInv, Texts, TextOf
<1>5. /\ answer'[t].id = q[1].id /\ answer'[t].text = q[1].text
      /\ \A u \in Threads : u # t => answer'[u] = answer[u] /\ pc'[u] = pc[u]
  BY <1>1, <1>2 DEF TypeOK, CallType
<1>6. q[1].text = 0 \/ q[1].text \in q[1].id .. id[t]
  <2>1. id[t] = Len(sent)
    BY <1>1 DEF Numbered
  <2>2. TextOf(q[1])
    BY <1>2 DEF OrderInv, Texts
  <2> QED
    BY <1>2, <2>1, <2>2, WireElements DEF TextOf
<1>7. Returned'
  BY <1>1, <1>5, <1>6 DEF OrderInv, Returned
<1> QED
  BY <1>3, <1>4, <1>7 DEF OrderInv

\* Steps that move no message leave order and texts, and return no reply.
LEMMA LocalOrder ==
    ASSUME TypeOK, OrderInv,
           UNCHANGED <<req, stream, spawned, sent>>,
           currentCommandResponse' \in {<<>>, currentCommandResponse},
           \A t \in Threads : pc'[t] = "return" /\ answer'[t].id # 0 =>
               pc[t] = "return" /\ answer'[t] = answer[t] /\ id'[t] = id[t]
    PROVE  OrderInv'
<1>1. Order' /\ Bounded'
  BY DEF OrderInv, Order, Bounded
<1>2. Texts'
  <2>1. CASE currentCommandResponse' = <<>>
    <3>1. DOMAIN <<>> = {}
      OBVIOUS
    <3> QED
      BY <2>1, <3>1 DEF OrderInv, Texts, TextOf
  <2>2. CASE currentCommandResponse' = currentCommandResponse
    BY <2>2 DEF OrderInv, Texts, TextOf
  <2> QED
    BY <2>1, <2>2
<1>3. Returned'
  BY DEF OrderInv, Returned
<1> QED
  BY <1>1, <1>2, <1>3 DEF OrderInv

\* Order and texts are inductive.
LEMMA OrderInvNext ==
    TypeOK /\ ReplyInv /\ OrderInv /\ [Next]_vars => OrderInv'
<1> SUFFICES ASSUME TypeOK, ReplyInv, OrderInv, [Next]_vars
             PROVE  OrderInv'
  OBVIOUS
<1>0. /\ pc \in [Threads -> {"idle", "lock", "write", "wait", "return", "redial",
                         "attach"}]
      /\ id \in [Threads -> Nat] /\ answer \in [Threads -> Answer]
      /\ Callers \subseteq Threads /\ Conns \subseteq Threads
      /\ NoAnswer.id = 0 /\ Failed.id = 0
  BY ThreadFacts DEF TypeOK, CallType, NoAnswer, Failed
<1>1. ASSUME NEW t \in Threads, Lock(t)
      PROVE  OrderInv'
  <2>1. /\ UNCHANGED <<req, stream, spawned, sent, id, answer>>
        /\ currentCommandResponse' \in {<<>>, currentCommandResponse}
        /\ pc' = [pc EXCEPT ![t] = "redial"] \/ pc' = [pc EXCEPT ![t] = "write"]
    BY <1>1, Zenon DEF Lock
  <2> QED
    BY <1>0, <2>1, LocalOrder
<1>2. ASSUME NEW t \in Threads, Redial(t) \/ Attach(t) \/ WriteFails(t)
      PROVE  OrderInv'
  <2>1. /\ UNCHANGED <<req, stream, spawned, sent, currentCommandResponse, id, answer>>
        /\ \A u \in Threads : pc'[u] = "return" => pc[u] = "return"
    BY <1>0, <1>2 DEF Redial, Attach, WriteFails, wireVars
  <2> QED
    BY <2>1, LocalOrder
<1>3. ASSUME NEW t \in Threads, Timeout(t) \/ Return(t)
      PROVE  OrderInv'
  <2>1. UNCHANGED <<req, stream, spawned, sent, currentCommandResponse>>
    BY <1>3 DEF Timeout, Return, wireVars
  <2>2. \/ answer' = [answer EXCEPT ![t] = Failed]
        \/ answer' = [answer EXCEPT ![t] = NoAnswer]
    BY <1>3, Zenon DEF Timeout, Return
  <2>3. \A u \in Threads : u # t => id'[u] = id[u] /\ pc'[u] = pc[u]
    BY <1>0, <1>3 DEF Timeout, Return
  <2> QED
    BY <1>0, <2>1, <2>2, <2>3, LocalOrder
<1>4. ASSUME NEW t \in Callers, Begin(t)
      PROVE  OrderInv'
  <2>1. /\ UNCHANGED <<req, stream, spawned, sent, currentCommandResponse, id, answer>>
        /\ \A u \in Threads : pc'[u] = "return" => pc[u] = "return"
    BY <1>0, <1>4 DEF Begin, wireVars
  <2> QED
    BY <2>1, LocalOrder
<1>5. ASSUME NEW c \in Conns, ReadReply(c)
      PROVE  OrderInv'
  <2>1. Head(stream[c]).id \in Nat
    <3>1. stream[c] # <<>> /\ stream[c] \in Seq(Message)
      BY <1>5, WireElements DEF ReadReply
    <3>2. 1 \in DOMAIN stream[c] /\ Head(stream[c]) = stream[c][1]
      BY <3>1, TailAt
    <3> QED
      BY <3>2, WireElements
  <2> QED
    BY <1>5, <2>1, ReadOrder DEF ReadReply, callVars
<1>6. ASSUME NEW c \in Conns, ReadEvent(c)
      PROVE  OrderInv'
  <2>1. pc' = pc \/ pc' = [pc EXCEPT ![c] = "lock"]
    BY <1>6, Zenon DEF ReadEvent
  <2>2. \A u \in Threads : pc'[u] = "return" => pc[u] = "return"
    BY <1>0, <2>1
  <2> QED
    BY <1>6, <2>2, ReadOrder DEF ReadEvent
<1>7. CASE SocketFails \/ UNCHANGED vars
  <2>1. UNCHANGED <<req, stream, spawned, sent, currentCommandResponse, id, answer, pc>>
    BY <1>7 DEF SocketFails, vars, wireVars, callVars
  <2> QED
    BY <2>1, LocalOrder
<1>8. Numbered
  BY DEF ReplyInv
<1> QED
  BY <1>1, <1>2, <1>3, <1>4, <1>5, <1>6, <1>7, <1>8, WriteOrder, ReceiveOrder,
     SupplicantOrder, SendEventOrder, DeliverOrder DEF Next

\* The messages of a socket keep their order along every behaviour, and a text
\* is never older than the reply it was read as.
THEOREM OrderInvHolds == Spec => []OrderInv
<1>1. Init => OrderInv
  <2> SUFFICES ASSUME Init
               PROVE  OrderInv
    OBVIOUS
  <2>1. /\ \A c \in Conns : req[c] = <<>> /\ stream[c] = <<>>
        /\ spawned = {} /\ currentCommandResponse = <<>>
        /\ \A t \in Threads : pc[t] # "return"
        /\ DOMAIN <<>> = {}
    BY DEF Init
  <2> QED
    BY <2>1 DEF OrderInv, Order, Bounded, Texts, Returned
<1> QED
  BY <1>1, OrderInvNext, TypeCorrect, ReplyInvHolds, PTL DEF Spec

-----------------------------------------------------------------------------
\* sendCommandTO returns the reply to its own command or the late reply to one
\* whose caller has gone, with a text that is not newer than its command: never
\* one another goroutine waits for, whatever is late, dropped or overwritten
\* and however many goroutines there are.
THEOREM AnswerAttributedHolds == Spec => []AnswerAttributed
<1>1. TypeOK /\ ReplyInv /\ OrderInv => AnswerAttributed
  <2> SUFFICES ASSUME TypeOK, ReplyInv, OrderInv, NEW t \in Threads,
                      pc[t] = "return", answer[t].id # 0
               PROVE  \/ answer[t].id = id[t] /\ answer[t].text \in {0, id[t]}
                      \/ /\ answer[t].id \in abandoned /\ answer[t].id < id[t]
                         /\ answer[t].text = 0 \/ answer[t].text \in answer[t].id .. id[t]
    BY DEF AnswerAttributed
  <2>1. answer[t].text = 0 \/ answer[t].text \in answer[t].id .. id[t]
    BY DEF OrderInv, Returned
  <2>2. \/ answer[t].id = id[t]
        \/ answer[t].id \in abandoned /\ answer[t].id < id[t]
    BY DEF ReplyInv, Attributed
  <2> QED
    BY <2>1, <2>2, WireElements
<1> QED
  BY <1>1, TypeCorrect, ReplyInvHolds, OrderInvHolds, PTL

\* A message is returned a second time only through a buffer that was read into
\* before an older reply was copied from it: the reply itself, once returned, is
\* no longer in a socket, in a goroutine of onCommandResponse or in the channel.
THEOREM RepeatOverwritesHolds == Spec => []RepeatOverwrites
<1>1. TypeOK /\ ReplyInv /\ OrderInv => RepeatOverwrites
  <2> SUFFICES ASSUME TypeOK, ReplyInv, OrderInv, NEW t \in Threads,
                      pc[t] = "return", answer[t].id # 0
               PROVE  /\ answer[t].id \notin InFlight
                      /\ \A m \in Read : m.text = answer[t].text /\ m.text # 0 =>
                            m.id < m.text \/ answer[t].id < answer[t].text
    BY DEF RepeatOverwrites
  <2>1. answer[t].id \notin InFlight
    BY InFlightPlaces DEF ReplyInv, Gone
  <2>2. ASSUME NEW m \in Read, m.text = answer[t].text, m.text # 0
        PROVE  m.id < m.text \/ answer[t].id < answer[t].text
    <3>1. m.id \in InFlight
      <4>1. CASE \E s \in spawned : m = [id |-> s.id, text |-> s.text]
        BY <4>1 DEF InFlight
      <4>2. CASE \E i \in DOMAIN currentCommandResponse : m = currentCommandResponse[i]
        BY <4>2 DEF InFlight
      <4> QED
        BY <4>1, <4>2, Zenon DEF Read
    <3>2. m.id # answer[t].id
      BY <2>1, <3>1
    <3>3. /\ m.id \in Nat /\ m.text \in Nat
          /\ TextOf(m)
      <4>1. CASE \E s \in spawned : m = [id |-> s.id, text |-> s.text]
        BY <4>1, WireElements DEF OrderInv, Texts, TextOf
      <4>2. CASE \E i \in DOMAIN currentCommandResponse : m = currentCommandResponse[i]
        BY <4>2, WireElements DEF OrderInv, Texts
      <4> QED
        BY <4>1, <4>2, Zenon DEF Read
    <3>4. m.id <= m.text
      BY <2>2, <3>3 DEF TextOf
    <3>5. answer[t].id <= answer[t].text
      BY <2>2, WireElements DEF OrderInv, Returned
    <3> QED
      BY <2>2, <3>2, <3>3, <3>4, <3>5, WireElements
  <2> QED
    BY <2>1, <2>2
<1> QED
  BY <1>1, TypeCorrect, ReplyInvHolds, OrderInvHolds, PTL
=============================================================================
