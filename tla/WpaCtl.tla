------------------------------- MODULE WpaCtl -------------------------------
(***************************************************************************)
(* The control channel between a WifiInterface and wpa_supplicant          *)
(* (pkg/l2/wpa.go, pkg/l2/wpa_proto.go).                                   *)
(*                                                                         *)
(* A WifiInterface has two datagram sockets, "main" and "p2p".  Goroutines *)
(* send a command under cmdMutex with sendCommandTO and wait, for a        *)
(* limited time, on a channel made for that command.  One goroutine per    *)
(* socket reads the stream (handleWPAStream): it runs the handler of an    *)
(* event itself, and starts a goroutine that passes any other message to   *)
(* the channel in force at that moment (onCommandResponse).                *)
(*                                                                         *)
(* Contents of commands, replies and events are abstracted: a command is   *)
(* known by its name and its number (the order of the writes), a reply by  *)
(* the number of the command it answers, an event by its type.  A reply    *)
(* that has been read keeps that number and, apart from it, the bytes that *)
(* lie in its part of the buffer: those of the next message once that is   *)
(* read into the same buffer.                                              *)
(***************************************************************************)
EXTENDS Naturals, Sequences

CONSTANTS
    Callers,     \* goroutines that call the operations of the interface
    Dialer,      \* the caller that runs DialWPA
    None,        \* no goroutine
    Ops,         \* the operations callers start, named by their first command
    Events,      \* the event types wpa_supplicant sends
    MaxOps,      \* bound: operations started by callers
    MaxEvents,   \* bound: events sent by wpa_supplicant
    MayFail,     \* sockets may fail (wpa_supplicant absent, stopped, restarted)
    Prompt       \* replies come well within a time limit: a command only
                 \* times out when nothing that could answer it is under way

Conns == {"main", "p2p"}
Threads == Callers \cup Conns   \* the reader of a socket has its name
ChanSize == 5                   \* make(chan string, 5)

Commands ==
    {"STATUS", "STATUS_RETRY", "SERV_DISC_REQ", "FIND", "SCAN", "SCAN_RESULTS",
     "GROUP_REMOVE", "SET_POSTFIX", "GROUP_ADD_2437", "GROUP_ADD_PERSISTENT",
     "GROUP_ADD", "ADD_NETWORK", "SET_SSID", "SET_KEY_MGMT", "SET_PSK",
     "SELECT_NETWORK", "RAW", "SERV_DISC_CANCEL", "SERV_DISC_RESP",
     "SERVICE_FLUSH", "SERVICE_ADD"}

EventTypes ==
    {"CONNECTED", "DISCONNECTED", "GROUP_STARTED", "FIND_STOPPED",
     "SCAN_RESULTS", "SERV_DISC_REQ", "OTHER"}

ASSUME WpaAssumption ==
    /\ Dialer \in Callers
    /\ Callers \cap Conns = {}
    /\ None \notin Threads
    /\ Ops \subseteq Commands
    /\ Events \subseteq EventTypes
    /\ MaxOps \in Nat /\ MaxEvents \in Nat
    /\ MayFail \in BOOLEAN /\ Prompt \in BOOLEAN

VARIABLES
    conn,        \* state of each socket: "nil", "open", "broken" (writes fail)
    reading,     \* a socket has a running handleWPAStream
    cmdMutex,    \* the goroutine that holds cmdMutex, or None
    pc,          \* where each goroutine is
    cmd,         \* the command each goroutine is running, or "End"
    id,          \* the number of that command
    answer,      \* what its sendCommandTO returned
    sent,        \* names of the commands written so far, by number
    req,         \* commands on their way to wpa_supplicant, per socket
    stream,      \* messages on their way back, per socket
    spawned,     \* replies held by onCommandResponse goroutines
    currentCommandResponse,  \* contents of the channel in force
    abandoned,   \* commands whose caller returned without an answer
    pendingDisc, \* the answer stored as the ID of the pending discovery
    constatus,   \* a /wifi/constatus message was posted
    scanJobs,    \* sendScanResults goroutines not yet running
    opsLeft, eventsLeft

ctlVars == <<conn, reading>>
callVars == <<cmdMutex, pc, cmd, id, answer>>
wireVars == <<sent, req, stream, spawned, currentCommandResponse, abandoned>>
effectVars == <<pendingDisc, constatus, scanJobs>>
boundVars == <<opsLeft, eventsLeft>>
vars == <<ctlVars, callVars, wireVars, effectVars, boundVars>>

-----------------------------------------------------------------------------
(* Commands *)

\* Commands sent with SendCommandP2P, to the p2p socket when there is one.
IsP2P(c) == c \in {"SERV_DISC_REQ", "FIND", "GROUP_REMOVE", "SET_POSTFIX",
                   "GROUP_ADD_2437", "GROUP_ADD_PERSISTENT", "GROUP_ADD",
                   "SERV_DISC_CANCEL"}

\* The command sent with a time limit of 0: sendCommandTO does not wait.
NoWait(c) == c = "SERV_DISC_CANCEL"

\* The socket sendCommandTO picks.
ConnFor(c) == IF IsP2P(c) /\ conn["p2p"] # "nil" THEN "p2p" ELSE "main"

\* Connect: the errors of its commands are ignored.
ConnectThen(c) ==
    CASE c = "ADD_NETWORK"  -> "SET_SSID"
      [] c = "SET_SSID"     -> "SET_KEY_MGMT"
      [] c = "SET_KEY_MGMT" -> "SET_PSK"
      [] c = "SET_PSK"      -> "SELECT_NETWORK"
      [] OTHER              -> "End"

\* APStart: the group on channel 6 if possible, else persistent, else any.
APStartThen(c, ok) ==
    CASE c = "SET_POSTFIX" /\ ok           -> "GROUP_ADD_2437"
      [] c = "GROUP_ADD_2437" /\ ~ok       -> "GROUP_ADD_PERSISTENT"
      [] c = "GROUP_ADD_PERSISTENT" /\ ~ok -> "GROUP_ADD"
      [] OTHER                             -> "End"

\* OnP2PGroupStart publishes the group.
GroupStartThen(c) == IF c = "SERVICE_FLUSH" THEN "SERVICE_ADD" ELSE "End"

\* The command an operation sends after c, given whether sendCommand returned
\* an error for c; "End" when the operation is over.
Then(c, ok) ==
    CASE c = "STATUS" /\ ~ok       -> "STATUS_RETRY"
      [] c = "SERV_DISC_REQ" /\ ok -> "FIND"
      [] ConnectThen(c) # "End"     -> ConnectThen(c)
      [] APStartThen(c, ok) # "End" -> APStartThen(c, ok)
      [] OTHER                     -> GroupStartThen(c)

\* The first command onEvent sends for an event; "End" when it sends none.
OnEvent(e) ==
    CASE e \in {"CONNECTED", "DISCONNECTED"} -> "STATUS"
      [] e = "GROUP_STARTED"                 -> "SERVICE_FLUSH"
      [] e = "FIND_STOPPED"                  -> "SERV_DISC_CANCEL"
      [] e = "SERV_DISC_REQ"                 -> "SERV_DISC_RESP"
      [] OTHER                               -> "End"

\* The result of sendCommandTO: the number of the reply that was read for it (0
\* for none) and the reply whose text it holds (0 for the text of an event).
Answer == [ok : BOOLEAN, id : Nat, text : Nat]
NoAnswer == [ok |-> TRUE, id |-> 0, text |-> 0]
Failed == [ok |-> FALSE, id |-> 0, text |-> 0]

Reply(n) == [id |-> n, ev |-> "REPLY"]
Event(e) == [id |-> 0, ev |-> e]

-----------------------------------------------------------------------------
Init ==
    /\ conn = [c \in Conns |-> "nil"]
    /\ reading = [c \in Conns |-> FALSE]
    /\ cmdMutex = None
    /\ pc = [t \in Threads |-> IF t = Dialer THEN "redial" ELSE "idle"]
    /\ cmd = [t \in Threads |-> "End"]
    /\ id = [t \in Threads |-> 0]
    /\ answer = [t \in Threads |-> NoAnswer]
    /\ sent = <<>>
    /\ req = [c \in Conns |-> <<>>]
    /\ stream = [c \in Conns |-> <<>>]
    /\ spawned = {}
    /\ currentCommandResponse = <<>>
    /\ abandoned = {}
    /\ pendingDisc = NoAnswer
    /\ constatus = FALSE
    /\ scanJobs = 0
    /\ opsLeft = MaxOps
    /\ eventsLeft = MaxEvents

\* What dialling can leave: the p2p socket is optional; a main socket that
\* cannot be dialled is one whose writes fail.
Dialled(s) == s["p2p"] \in {"nil", "open"} /\ s["main"] \in {"open", "broken"}

\* The outcomes of dialling and of attaching to the p2p socket, once the old
\* sockets are closed; r: it answered ATTACH and LEVEL, and has a reader.
DialOutcome(s, r) ==
    /\ Dialled(s)
    /\ r => s["p2p"] = "open" /\ s["main"] = "open"
    /\ ~MayFail => s["main"] = "open" /\ (s["p2p"] = "open" => r)

\* Redial: cmdMutex is locked and unlocked while the old sockets are closed.
\* A goroutine of DialWPA takes this step once.  The two calls inside
\* sendCommandTO run while their own goroutine holds cmdMutex, which is not
\* reentrant: for them the guard never becomes true.  A main socket that cannot
\* be dialled, or a p2p socket that refuses, ends Redial; open sockets are
\* left that nobody reads.
Redial(t) ==
    /\ pc[t] = "redial"
    /\ cmdMutex = None
    /\ \E s \in [Conns -> {"nil", "open", "broken"}], r \in BOOLEAN :
          /\ DialOutcome(s, r)
          /\ conn' = s
          /\ reading' = [reading EXCEPT !["p2p"] = r]
          /\ pc' = [pc EXCEPT ![t] =
                       IF s["main"] = "open" /\ (r \/ s["p2p"] = "nil")
                       THEN "attach" ELSE "idle"]
    /\ UNCHANGED <<cmdMutex, cmd, id, answer, wireVars, effectVars, boundVars>>

\* The rest of Redial: the main socket is attached while the p2p reader runs.
\* startWPAStream takes the next message for the reply to ATTACH, also when it
\* answers a command of an event handler: unless that is an "OK" too, the
\* socket counts as refused.  Its Read blocks on a socket that went away.
Attach(t) ==
    /\ pc[t] = "attach"
    /\ conn["main"] = "open" \/ stream["main"] # <<>>
    /\ \E r \in BOOLEAN :
          /\ ~MayFail /\ req["main"] = <<>> /\ stream["main"] = <<>> => r
          /\ reading' = [reading EXCEPT !["main"] = r]
    /\ pc' = [pc EXCEPT ![t] = "idle"]
    /\ UNCHANGED <<conn, cmdMutex, cmd, id, answer, wireVars, effectVars,
                   boundVars>>

\* wpa_supplicant goes away: writes to its datagram sockets fail from now on,
\* reads block.
SocketFails ==
    /\ MayFail
    /\ conn["main"] = "open"
    /\ conn' = [c \in Conns |-> IF conn[c] = "open" THEN "broken" ELSE conn[c]]
    /\ UNCHANGED <<reading, callVars, wireVars, effectVars, boundVars>>

\* A caller starts an operation once DialWPA has returned.
Begin(t) ==
    /\ pc[t] = "idle" /\ pc[Dialer] \notin {"redial", "attach"}
    /\ \/ /\ opsLeft > 0
          /\ opsLeft' = opsLeft - 1
          /\ \E c \in Ops : cmd' = [cmd EXCEPT ![t] = c]
          /\ UNCHANGED scanJobs
       \/ /\ scanJobs > 0
          /\ scanJobs' = scanJobs - 1
          /\ cmd' = [cmd EXCEPT ![t] = "SCAN_RESULTS"]
          /\ UNCHANGED opsLeft
    /\ pc' = [pc EXCEPT ![t] = "lock"]
    /\ UNCHANGED <<ctlVars, cmdMutex, id, answer, wireVars, pendingDisc,
                   constatus, eventsLeft>>

-----------------------------------------------------------------------------
(* sendCommandTO *)

\* Mutant of CanLock: the commands are sent without taking cmdMutex.
CanLockMutant == TRUE

\* cmdMutex.Lock does not block.
CanLock == cmdMutex = None

\* Take cmdMutex and make the channel for the reply.
Lock(t) ==
    /\ pc[t] = "lock"
    /\ CanLock
    /\ cmdMutex' = t
    /\ IF conn[ConnFor(cmd[t])] = "nil"
          THEN /\ pc' = [pc EXCEPT ![t] = "redial"]
               /\ UNCHANGED currentCommandResponse
          ELSE /\ pc' = [pc EXCEPT ![t] = "write"]
               /\ currentCommandResponse' = <<>>
    /\ UNCHANGED <<ctlVars, cmd, id, answer, sent, req, stream, spawned,
                   abandoned, effectVars, boundVars>>

\* Mutant of Write: cmdMutex is released once the command is written, and the
\* wait for the reply is outside it.
WriteMutant(t) ==
    LET c == ConnFor(cmd[t])
        n == Len(sent) + 1
    IN  /\ pc[t] = "write"
        /\ conn[c] = "open"
        /\ sent' = Append(sent, cmd[t])
        /\ id' = [id EXCEPT ![t] = n]
        /\ req' = [req EXCEPT ![c] = Append(@, n)]
        /\ cmdMutex' = None
        /\ pc' = [pc EXCEPT ![t] = IF NoWait(cmd[t]) THEN "return" ELSE "wait"]
        /\ abandoned' = IF NoWait(cmd[t]) THEN abandoned \cup {n} ELSE abandoned
        /\ UNCHANGED <<ctlVars, cmd, answer, stream, spawned,
                       currentCommandResponse, effectVars, boundVars>>

\* The write succeeds.  A command without a time limit returns at once.
Write(t) ==
    LET c == ConnFor(cmd[t])
        n == Len(sent) + 1
    IN  /\ pc[t] = "write"
        /\ conn[c] = "open"
        /\ sent' = Append(sent, cmd[t])
        /\ id' = [id EXCEPT ![t] = n]
        /\ req' = [req EXCEPT ![c] = Append(@, n)]
        /\ IF NoWait(cmd[t])
              THEN /\ pc' = [pc EXCEPT ![t] = "return"]
                   /\ cmdMutex' = None
                   /\ answer' = [answer EXCEPT ![t] = NoAnswer]
                   /\ abandoned' = abandoned \cup {n}
              ELSE /\ pc' = [pc EXCEPT ![t] = "wait"]
                   /\ UNCHANGED <<cmdMutex, answer, abandoned>>
        /\ UNCHANGED <<ctlVars, cmd, stream, spawned, currentCommandResponse,
                       effectVars, boundVars>>

\* The write fails: conn is cleared, whichever socket was used, and Redial is
\* called with cmdMutex held.
WriteFails(t) ==
    /\ pc[t] = "write"
    /\ conn[ConnFor(cmd[t])] = "broken"
    /\ conn' = [conn EXCEPT !["main"] = "nil"]
    /\ pc' = [pc EXCEPT ![t] = "redial"]
    /\ UNCHANGED <<reading, cmdMutex, cmd, id, answer, wireVars, effectVars,
                   boundVars>>

\* Mutant of Receive: the message stays in the channel.
ReceiveMutant(t) ==
    /\ pc[t] = "wait"
    /\ currentCommandResponse # <<>>
    /\ answer' = [answer EXCEPT ![t] =
                     [ok |-> TRUE, id |-> Head(currentCommandResponse).id,
                      text |-> Head(currentCommandResponse).text]]
    /\ pc' = [pc EXCEPT ![t] = "return"]
    /\ cmdMutex' = None
    /\ UNCHANGED <<ctlVars, cmd, id, wireVars, effectVars, boundVars>>

\* The first message in the channel is the result.
Receive(t) ==
    /\ pc[t] = "wait"
    /\ currentCommandResponse # <<>>
    /\ LET m == Head(currentCommandResponse)
       IN  answer' = [answer EXCEPT ![t] =
                          [ok |-> TRUE, id |-> m.id, text |-> m.text]]
    /\ currentCommandResponse' = Tail(currentCommandResponse)
    /\ abandoned' = IF Head(currentCommandResponse).id = id[t]
                       THEN abandoned ELSE abandoned \cup {id[t]}
    /\ pc' = [pc EXCEPT ![t] = "return"]
    /\ cmdMutex' = None
    /\ UNCHANGED <<ctlVars, cmd, id, sent, req, stream, spawned, effectVars,
                   boundVars>>

\* The reader of c is in Read, not in the handler of an event.
CanRead(c) == reading[c] /\ pc[c] = "idle"

\* No reply is under way to the channel.
Quiet ==
    /\ spawned = {}
    /\ currentCommandResponse = <<>>
    /\ \A c \in Conns : req[c] = <<>> /\ (CanRead(c) => stream[c] = <<>>)

\* Mutant of Timeout: cmdMutex is not released on this path.
TimeoutMutant(t) ==
    /\ pc[t] = "wait"
    /\ Prompt => Quiet
    /\ answer' = [answer EXCEPT ![t] = Failed]
    /\ abandoned' = abandoned \cup {id[t]}
    /\ pc' = [pc EXCEPT ![t] = "return"]
    /\ UNCHANGED <<ctlVars, cmdMutex, cmd, id, sent, req, stream, spawned,
                   currentCommandResponse, effectVars, boundVars>>

\* The time limit passes first.
Timeout(t) ==
    /\ pc[t] = "wait"
    /\ Prompt => Quiet
    /\ answer' = [answer EXCEPT ![t] = Failed]
    /\ abandoned' = abandoned \cup {id[t]}
    /\ pc' = [pc EXCEPT ![t] = "return"]
    /\ cmdMutex' = None
    /\ UNCHANGED <<ctlVars, cmd, id, sent, req, stream, spawned,
                   currentCommandResponse, effectVars, boundVars>>

\* The operation uses the result, after cmdMutex was released, and goes on
\* with its next command or ends.
Return(t) ==
    LET c == cmd[t]
        ok == answer[t].ok
        next == Then(c, ok)
    IN  /\ pc[t] = "return"
        /\ pendingDisc' = IF c = "SERV_DISC_REQ" /\ ok THEN answer[t]
                          ELSE pendingDisc
        /\ constatus' = (constatus \/ (c \in {"STATUS", "STATUS_RETRY"} /\ ok))
        /\ scanJobs' = IF c = "SERV_DISC_CANCEL" THEN scanJobs + 1
                       ELSE scanJobs
        /\ pc' = [pc EXCEPT ![t] = IF next = "End" THEN "idle" ELSE "lock"]
        /\ cmd' = [cmd EXCEPT ![t] = next]
        /\ id' = [id EXCEPT ![t] = 0]
        /\ answer' = [answer EXCEPT ![t] = NoAnswer]
        /\ UNCHANGED <<ctlVars, cmdMutex, wireVars, boundVars>>

-----------------------------------------------------------------------------
(* The streams *)

\* wpa_supplicant answers the oldest command of a socket.
Supplicant(c) ==
    /\ req[c] # <<>>
    /\ stream' = [stream EXCEPT ![c] = Append(@, Reply(Head(req[c])))]
    /\ req' = [req EXCEPT ![c] = Tail(@)]
    /\ UNCHANGED <<ctlVars, callVars, sent, spawned, currentCommandResponse,
                   abandoned, effectVars, boundVars>>

\* wpa_supplicant sends an event to an attached socket.
SendEvent(c) ==
    /\ reading[c] /\ conn[c] = "open"
    /\ eventsLeft > 0
    /\ eventsLeft' = eventsLeft - 1
    /\ \E e \in Events : stream' = [stream EXCEPT ![c] = Append(@, Event(e))]
    /\ UNCHANGED <<ctlVars, callVars, sent, req, spawned,
                   currentCommandResponse, abandoned, effectVars, opsLeft>>

\* The messages of one socket are read into one buffer: a goroutine that has
\* not copied its reply yet finds the text n of the new message there.
Overwrite(c, n) ==
    {[s EXCEPT !.text = IF s.conn = c THEN n ELSE @] : s \in spawned}

\* Mutant of ReadReply: the message is not looked at for the "<" of an event.
ReadReplyMutant(c) ==
    /\ CanRead(c)
    /\ stream[c] # <<>>
    /\ LET n == Head(stream[c]).id
       IN  spawned' = Overwrite(c, n) \cup {[id |-> n, conn |-> c, text |-> n]}
    /\ stream' = [stream EXCEPT ![c] = Tail(@)]
    /\ UNCHANGED <<ctlVars, callVars, sent, req, currentCommandResponse,
                   abandoned, effectVars, boundVars>>

\* handleWPAStream reads a reply and starts a goroutine for it.
ReadReply(c) ==
    /\ CanRead(c)
    /\ stream[c] # <<>> /\ Head(stream[c]).ev = "REPLY"
    /\ LET n == Head(stream[c]).id
       IN  spawned' = Overwrite(c, n) \cup {[id |-> n, conn |-> c, text |-> n]}
    /\ stream' = [stream EXCEPT ![c] = Tail(@)]
    /\ UNCHANGED <<ctlVars, callVars, sent, req, currentCommandResponse,
                   abandoned, effectVars, boundVars>>

\* handleWPAStream reads an event and runs onEvent in the same goroutine: the
\* stream is not read again before the commands of the handler are done.
ReadEvent(c) ==
    /\ CanRead(c)
    /\ stream[c] # <<>> /\ Head(stream[c]).ev # "REPLY"
    /\ stream' = [stream EXCEPT ![c] = Tail(@)]
    /\ spawned' = Overwrite(c, 0)
    /\ LET e == Head(stream[c]).ev
       IN  /\ scanJobs' = IF e = "SCAN_RESULTS" THEN scanJobs + 1 ELSE scanJobs
           /\ IF OnEvent(e) = "End"
                 THEN UNCHANGED <<pc, cmd>>
                 ELSE /\ pc' = [pc EXCEPT ![c] = "lock"]
                      /\ cmd' = [cmd EXCEPT ![c] = OnEvent(e)]
    /\ UNCHANGED <<ctlVars, cmdMutex, id, answer, sent, req,
                   currentCommandResponse, abandoned, pendingDisc, constatus,
                   boundVars>>

\* onCommandResponse: a send that does not block; a full channel drops.
OnCommandResponse(s) ==
    /\ s \in spawned
    /\ spawned' = spawned \ {s}
    /\ currentCommandResponse' =
          IF Len(currentCommandResponse) < ChanSize
          THEN Append(currentCommandResponse, [id |-> s.id, text |-> s.text])
          ELSE currentCommandResponse
    /\ UNCHANGED <<ctlVars, callVars, sent, req, stream, abandoned, effectVars,
                   boundVars>>

Deliver == \E s \in spawned : OnCommandResponse(s)

Next ==
    \/ SocketFails
    \/ \E t \in Threads : \/ Redial(t) \/ Attach(t) \/ Lock(t)
                          \/ Write(t) \/ WriteFails(t)
                          \/ Receive(t) \/ Timeout(t) \/ Return(t)
    \/ \E t \in Callers : Begin(t)
    \/ \E c \in Conns : \/ Supplicant(c) \/ SendEvent(c)
                        \/ ReadReply(c) \/ ReadEvent(c)
    \/ Deliver

Spec == Init /\ [][Next]_vars

\* Goroutines are scheduled and timers fire.  sync.Mutex hands the lock to a
\* goroutine that has waited long enough, hence strong fairness of Lock.
\* Nothing is assumed of wpa_supplicant or of who starts operations.
Fairness ==
    /\ \A t \in Threads : /\ SF_vars(Lock(t))
                          /\ WF_vars(Redial(t) \/ Attach(t))
                          /\ WF_vars(Write(t) \/ WriteFails(t))
                          /\ WF_vars(Receive(t) \/ Timeout(t))
                          /\ WF_vars(Return(t))
    /\ \A c \in Conns : WF_vars(ReadReply(c) \/ ReadEvent(c))
    /\ WF_vars(Deliver)

FairSpec == Spec /\ Fairness

-----------------------------------------------------------------------------
(* Properties *)

\* The parts of the type invariant, by group of variables.
CtlType ==
    /\ conn \in [Conns -> {"nil", "open", "broken"}]
    /\ reading \in [Conns -> BOOLEAN]

CallType ==
    /\ cmdMutex \in Threads \cup {None}
    /\ pc \in [Threads -> {"idle", "lock", "write", "wait", "return", "redial",
                       "attach"}]
    /\ cmd \in [Threads -> Commands \cup {"End"}]
    /\ id \in [Threads -> Nat]
    /\ answer \in [Threads -> Answer]
    /\ \A t \in Threads : pc[t] \in {"lock", "write", "wait", "return"} =>
                              cmd[t] \in Commands

\* Replies have the number of a command, events have none; what a goroutine of
\* onCommandResponse was started for is a reply.
Number == Nat \ {0}
Message == [id : Number, ev : {"REPLY"}] \cup [id : {0}, ev : EventTypes]
Responder == [id : Number, conn : Conns, text : Nat]
Response == [id : Number, text : Nat]

WireType ==
    /\ sent \in Seq(Commands)
    /\ req \in [Conns -> Seq(Number)]
    /\ stream \in [Conns -> Seq(Message)]
    /\ spawned \in SUBSET Responder
    /\ currentCommandResponse \in Seq(Response)
    /\ abandoned \in SUBSET Nat

EffectType ==
    /\ pendingDisc \in Answer
    /\ constatus \in BOOLEAN
    /\ scanJobs \in Nat
    /\ opsLeft \in Nat /\ eventsLeft \in Nat

TypeOK == CtlType /\ CallType /\ WireType /\ EffectType

\* Goroutines between the Lock and the deferred Unlock of sendCommandTO.
InCommand(t) == pc[t] \in {"write", "wait"}

\* cmdMutex is held exactly while a command is active: a goroutine that has
\* made the response channel or written a command, and not returned from
\* sendCommandTO yet, is the holder (so at most one command is active).
OneCommand == \A t \in Threads : InCommand(t) => cmdMutex = t

\* The numbers of the commands whose reply has not been taken or dropped yet.
InFlight ==
    (UNION {{req[c][i] : i \in DOMAIN req[c]} : c \in Conns})
    \cup (UNION {{stream[c][i].id : i \in {j \in DOMAIN stream[c] :
                                        stream[c][j].ev = "REPLY"}} : c \in Conns})
    \cup {s.id : s \in spawned}
    \cup {currentCommandResponse[i].id : i \in DOMAIN currentCommandResponse}

\* What sendCommandTO returns was read as the reply to its own command, and
\* holds its text or that of an event read after it; or it was read as the late
\* reply to a command whose caller had gone before, and holds the text of that
\* one or of one between the two.  It is never the reply, nor the text, for a
\* command that another goroutine still waits for.
AnswerAttributed ==
    \A t \in Threads : pc[t] = "return" /\ answer[t].id # 0 =>
        \/ answer[t].id = id[t] /\ answer[t].text \in {0, id[t]}
        \/ /\ answer[t].id \in abandoned /\ answer[t].id < id[t]
           /\ answer[t].text = 0 \/ answer[t].text \in answer[t].id .. id[t]

\* The replies that have been read and not returned.
Read ==
    {[id |-> s.id, text |-> s.text] : s \in spawned}
    \cup {currentCommandResponse[i] : i \in DOMAIN currentCommandResponse}

\* A message is returned twice only through the buffer it was read into: the
\* reply a caller was given is gone from the sockets, from the
\* onCommandResponse goroutines and from the channel, and its text is still
\* under way only if it came there over an older reply that was not copied yet,
\* or had come to the caller that way.
RepeatOverwrites ==
    \A t \in Threads : pc[t] = "return" /\ answer[t].id # 0 =>
        /\ answer[t].id \notin InFlight
        /\ \A m \in Read : m.text = answer[t].text /\ m.text # 0 =>
              m.id < m.text \/ answer[t].id < answer[t].text

\* While a goroutine waits for its reply no other goroutine takes messages
\* from, or replaces, the channel it waits on.
ChannelStable ==
    [][\A t \in Threads : pc[t] = "wait" /\ pc'[t] = "wait" =>
         /\ Len(currentCommandResponse') >= Len(currentCommandResponse)
         /\ \A i \in DOMAIN currentCommandResponse :
               currentCommandResponse'[i] = currentCommandResponse[i]]_vars

\* Every goroutine that asks for cmdMutex to send a command gets to the end of
\* its operation, event handlers run by the stream readers included, although
\* a reader that runs a handler does not read the replies to it.
CommandEnds == \A t \in Threads : pc[t] = "lock" ~> pc[t] = "idle"

\* "Used internally to match commands with responses": the reply a command
\* returns is its own, with the text it was read with and not that of the next
\* message of the stream.
ResponseMatches ==
    \A t \in Threads : pc[t] = "return" /\ answer[t].id # 0 =>
        answer[t].id = id[t] /\ answer[t].text = id[t]

\* The holder of cmdMutex never waits for cmdMutex itself (in Redial).
HolderRuns == \A t \in Threads : pc[t] = "redial" => cmdMutex # t
=============================================================================
