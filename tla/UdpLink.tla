------------------------------- MODULE UdpLink -------------------------------
(***************************************************************************)
(* The network side of the meter (Drivers/wm_wifi.c): the WiFi task that    *)
(* serves the message queue gsUserTaskQueue, the socket receive task that   *)
(* feeds datagrams to Data_Handle, the key-scan timer and the network       *)
(* status callback, all around one heap record, user_sock_u.                *)
(*                                                                         *)
(* Scheduling.  FreeRTOS runs the highest-priority ready task.  The WiFi    *)
(* task (50) outranks the receive task (51), which outranks the timer       *)
(* service task, so the receive task moves only while the WiFi task is      *)
(* blocked and the timer only while both are.  The WiFi task blocks in      *)
(* tls_os_queue_receive, in tls_os_time_delay and inside a socket call      *)
(* (the caller waits for the lwIP thread, which may itself sleep while it   *)
(* posts to a full mailbox); each of these is a value of wpc, and an action *)
(* of the WiFi task runs from one of them to the next.  The receive task    *)
(* can be preempted anywhere, so each of its assignments to the shared      *)
(* record is an action.                                                    *)
(*                                                                         *)
(* lwIP, the WiFi driver and the one-shot provisioning library are external *)
(* and modelled by what this code sees of them.                            *)
(***************************************************************************)
EXTENDS Integers, Sequences, FiniteSets

CONSTANTS
  WIFI_QUEUE_SIZE,  \* capacity of gsUserTaskQueue (4)
  KEY_LONG_COUNT, MaxHold,  \* see KeyScan
  KeyLevels,        \* levels the button may show: {0,1}, or {1} when untouched
  BLINK_ON, BLINK_PERIOD,   \* blink[0] of UserLcdBlinkProc: 5 and 10 scans
  Sockets,          \* socket numbers lwIP can hand out
  Peers,            \* hosts that send datagrams to UDP_LOCAL_PORT
  Kinds,            \* kinds of datagram they send, a subset of AllKinds
  WriteAckLen, ReadAckLen,  \* lengths Write_Ack and Read_Ack give UDPAckLen
  U16, U32,         \* 2^16 and 2^32, or scaled down with the same order
  MboxSize,         \* capacity of the receive mailbox of a socket
  NetEvents,        \* subset of {"disconnect", "addrchange"}: what may happen
                    \* to the network after it first came up
  MayFail,          \* subset of {"alloc", "socket", "send"}: calls that may
                    \* fail for lack of memory
  Pipelined,        \* FALSE: each host waits for the answer to its own request
                    \* before it sends again; several hosts may wait at once
  NULL,             \* the pointer no record has been allocated for
  NoData,           \* the contents of a reply buffer filled by memset
  Nobody            \* remote_ip of a fresh record

AllKinds == {"write", "read", "junk", "empty"}

ASSUME UdpAssumption ==
  /\ WIFI_QUEUE_SIZE \in Nat \ {0}
  /\ KEY_LONG_COUNT \in Nat \ {0}
  /\ MaxHold \in Nat
  /\ KEY_LONG_COUNT <= MaxHold
  /\ KeyLevels \subseteq {0, 1}
  /\ BLINK_ON \in Nat
  /\ BLINK_PERIOD \in Nat
  /\ BLINK_ON <= BLINK_PERIOD
  /\ Sockets \subseteq Nat
  /\ Kinds \subseteq AllKinds
  /\ WriteAckLen \in Nat \ {0}
  /\ ReadAckLen \in Nat \ {0}
  /\ U16 \in Nat \ {0}
  /\ U32 \in Nat \ {0}
  /\ WriteAckLen < U16
  /\ ReadAckLen < U16
  /\ U16 <= U32
  /\ MboxSize \in Nat \ {0}
  /\ NetEvents \subseteq {"disconnect", "addrchange"}
  /\ MayFail \subseteq {"alloc", "socket", "send"}
  /\ Pipelined \in BOOLEAN

Datagrams == [from : Peers, kind : Kinds]
NoSocket  == -1

ASSUME NoDataAssumption == NoData \notin Datagrams

VARIABLES
  queue, wpc, oneshotflag,   \* gsUserTaskQueue and the WiFi task
  call,                      \* arguments of the socket call it waits in
  user_sock_u,               \* NULL or the shared record
  rpc, rsock, rx,            \* receive task: recvfrom's socket and datagram
  ack,                       \* UDPAck and UDPAckLen of wm_datahandle.c
  gsKeyPreStatus, gsKeyCount, held, sent,    \* see KeyScan
  tpc, div_blink,            \* the rest of the timer callback
  gsBlinkStatus, icon,       \* blink mode and segment bit of the WiFi icon
  sockState, mbox,           \* lwIP: sockets and their receive mailboxes
  netif, oneshot,            \* WiFi driver, one-shot provisioning
  fault,                     \* 1 after an access through NULL trapped
  ans, overlap               \* history: the datagram whose answer the record
                             \* holds, and 1 if that answer was copied over one
                             \* that still waited in the queue or in sendto

wifiVars  == <<wpc, oneshotflag, call>>
histVars  == <<ans, overlap>>
rcvVars   == <<rsock, rx, ack, histVars>>
keyVars   == <<gsKeyPreStatus, gsKeyCount, held, sent>>
timerVars == <<keyVars, tpc, div_blink>>
lcdVars   == <<gsBlinkStatus, icon>>
lwipVars  == <<sockState, mbox>>
netVars   == <<netif, oneshot>>
vars == <<queue, wifiVars, user_sock_u, rpc, rcvVars, timerVars, lcdVars,
          lwipVars, netVars, fault>>

KS == INSTANCE KeyScan

Messages == {"MSG_NET_UP", "MSG_NET_DOWN", "MSG_ONESHOT", "MSG_KEY",
             "MSG_SOCKET_ERR", "MSG_SOCKET_SND"}

Sock_U == [socket_num : Sockets \cup {NoSocket}, conn_status : {0, 1},
           sock_tx : Datagrams \cup {NoData}, tx_len : 0..(U32 - 1),
           remote : Peers \cup {Nobody}]

\* What a pending sendto was given, and the bytes it will read.
Replies == [to : Peers \cup {Nobody}, data : Datagrams \cup {NoData}, len : 0..(U32 - 1)]

ASSUME NullAssumption == NULL \notin Sock_U \cup Datagrams \cup Replies

NoCall == [sock |-> NoSocket, to |-> Nobody, len |-> 0]

FreshSock == [socket_num |-> NoSocket, conn_status |-> 0, sock_tx |-> NoData,
              tx_len |-> 0, remote |-> Nobody]
-----------------------------------------------------------------------------
(***************************************************************************)
(* External parts.                                                         *)
(***************************************************************************)
\* Faulty variant: a queue without a limit.
Post_NoLimit(q, msgs) == IF msgs # <<>> THEN Append(q, msgs[1]) ELSE q

\* tls_os_queue_send never waits: a message for a full queue is dropped, and
\* no caller in this code looks at the result.
Post(q, msgs) ==
  IF msgs # <<>> /\ Len(q) < WIFI_QUEUE_SIZE THEN Append(q, msgs[1]) ELSE q

OpenSockets  == {s \in Sockets : sockState[s] # "closed"}
BoundSockets == {s \in Sockets : sockState[s] = "bound"}

\* closesocket(s): frees the number and the port and deletes the mailbox.  A
\* number that is not open is refused without effect.
CloseSocket(s) ==
  IF s \in OpenSockets
  THEN /\ sockState' = [sockState EXCEPT ![s] = "closed"]
       /\ mbox' = [mbox EXCEPT ![s] = <<>>]
  ELSE UNCHANGED lwipVars

\* Deleting the mailbox does not wake a task that waits in it (vQueueDeleteExt
\* frees the queue and nothing else) and the wait has no timeout: a receive
\* task blocked there when the WiFi task closes s never runs again.
AbandonWaiter(s) ==
  rpc' = IF rpc = "wait" /\ rsock = s /\ s \in OpenSockets THEN "stuck" ELSE rpc

\* bind() to UDP_LOCAL_PORT: refused while another socket holds the port.
BindOk(s) == s \in OpenSockets /\ BoundSockets \subseteq {s}

\* alloc_socket hands out the lowest free number.
FreeSocket(s) ==
  /\ s \in Sockets \ OpenSockets
  /\ \A t \in Sockets \ OpenSockets : s <= t

\* ethif->status: the interface flag, cleared some time after a disconnect.
EthifStatus == netif # "down"
-----------------------------------------------------------------------------
(***************************************************************************)
(* The WiFi task.  Every value of wpc is a point where it is blocked; it is *)
(* ready only in "idle" with a message waiting.                            *)
(***************************************************************************)
WifiStates == {"idle", "delay", "socket", "bind", "errclose", "close", "send"}

WifiBlocked == wpc # "idle" \/ queue = <<>>

InQueue(m) == \E i \in DOMAIN queue : queue[i] = m

\* An answer waits in the queue or in sendto.
AnswerPending == InQueue("MSG_SOCKET_SND") \/ wpc = "send"

\* tls_os_queue_receive returned m.
Receive(m) ==
  /\ fault = 0
  /\ wpc = "idle"
  /\ queue # <<>>
  /\ Head(queue) = m
  /\ queue' = Tail(queue)

\* SocketUdp: allocate the record the first time, then call socket().
SocketUdp ==
  \/ /\ user_sock_u # NULL
     /\ wpc' = "socket"
     /\ UNCHANGED user_sock_u
  \/ /\ user_sock_u = NULL
     /\ user_sock_u' = FreshSock
     /\ wpc' = "socket"
  \/ /\ user_sock_u = NULL
     /\ "alloc" \in MayFail
     /\ wpc' = "idle"
     /\ UNCHANGED user_sock_u

\* MSG_NET_UP; oneshot_airkiss_send_reply has no effect on this state.
WifiNetUp ==
  /\ Receive("MSG_NET_UP")
  /\ oneshotflag' = 0
  /\ gsBlinkStatus' = 0
  /\ icon' = 1
  /\ SocketUdp
  /\ UNCHANGED <<call, rpc, rcvVars, timerVars, lwipVars, netVars, fault>>

\* CloseUdpSock does not test user_sock_u.  With the NULL pointer it reads the
\* vector table and writes to ROM: the write traps or is ignored.
WifiNetDown ==
  /\ Receive("MSG_NET_DOWN")
  /\ icon' = 0
  /\ IF user_sock_u = NULL
     THEN fault' \in {0, 1} /\ UNCHANGED <<wpc, call>>
     ELSE /\ wpc' = IF user_sock_u.socket_num >= 0 THEN "close" ELSE "idle"
          /\ call' = [NoCall EXCEPT !.sock = user_sock_u.socket_num]
          /\ UNCHANGED fault
  /\ UNCHANGED <<oneshotflag, user_sock_u, rpc, rcvVars, timerVars,
                 gsBlinkStatus, lwipVars, netVars>>

WifiOneshot ==
  /\ Receive("MSG_ONESHOT")
  /\ oneshot' = 1
  /\ oneshotflag' = 1
  /\ gsBlinkStatus' = 1
  /\ UNCHANGED <<wpc, call, user_sock_u, rpc, rcvVars, timerVars, icon,
                 lwipVars, netif, fault>>

WifiKey ==
  /\ Receive("MSG_KEY")
  /\ UNCHANGED <<wifiVars, user_sock_u, rpc, rcvVars, timerVars, lcdVars,
                 lwipVars, netVars, fault>>

\* sendto() takes the address and the length when it is called; lwIP reads the
\* buffer later, because netbuf_ref does not copy it.
WifiSnd ==
  /\ Receive("MSG_SOCKET_SND")
  /\ IF user_sock_u.tx_len > 0
     THEN /\ wpc' = "send"
          /\ call' = [sock |-> user_sock_u.socket_num, to |-> user_sock_u.remote,
                      len |-> user_sock_u.tx_len]
     ELSE UNCHANGED <<wpc, call>>
  /\ UNCHANGED <<oneshotflag, user_sock_u, rpc, rcvVars, timerVars, lcdVars,
                 lwipVars, netVars, fault>>

\* Faulty variant: what was sent is not taken off tx_len.
WifiSent_Again ==
  /\ fault = 0
  /\ wpc = "send"
  /\ wpc' = "idle"
  /\ call' = NoCall
  /\ \/ /\ call.sock \in OpenSockets
        /\ queue' = Post(queue, IF user_sock_u.tx_len > 0 THEN <<"MSG_SOCKET_SND">>
                                                          ELSE <<>>)
        /\ UNCHANGED user_sock_u
     \/ /\ call.sock \notin OpenSockets \/ "send" \in MayFail
        /\ UNCHANGED <<user_sock_u, queue>>
  /\ UNCHANGED <<oneshotflag, rpc, rcvVars, timerVars, lcdVars, lwipVars,
                 netVars, fault>>

\* sendto() returned: -1, or the length after its conversion to u16_t.
WifiSent ==
  /\ fault = 0
  /\ wpc = "send"
  /\ wpc' = "idle"
  /\ call' = NoCall
  /\ \/ /\ call.sock \in OpenSockets
        /\ LET left == (user_sock_u.tx_len - (call.len % U16)) % U32
           IN  /\ user_sock_u' = [user_sock_u EXCEPT !.tx_len = left]
               /\ queue' = Post(queue, IF left > 0 THEN <<"MSG_SOCKET_SND">>
                                                   ELSE <<>>)
     \/ /\ call.sock \notin OpenSockets \/ "send" \in MayFail
        /\ UNCHANGED <<user_sock_u, queue>>
  /\ UNCHANGED <<oneshotflag, rpc, rcvVars, timerVars, lcdVars, lwipVars,
                 netVars, fault>>

WifiSocketErr ==
  /\ Receive("MSG_SOCKET_ERR")
  /\ wpc' = IF EthifStatus THEN "delay" ELSE "idle"
  /\ UNCHANGED <<oneshotflag, call, user_sock_u, rpc, rcvVars, timerVars,
                 lcdVars, lwipVars, netVars, fault>>

\* tls_os_time_delay(HZ) is over.
WifiRetry ==
  /\ fault = 0
  /\ wpc = "delay"
  /\ SocketUdp
  /\ UNCHANGED <<queue, oneshotflag, call, rpc, rcvVars, timerVars, lcdVars,
                 lwipVars, netVars, fault>>

\* CreateUdpSock: socket() returned.  The number is stored over whatever was
\* there; when it is -1 the error path has no socket to close.
WifiSocketDone ==
  /\ fault = 0
  /\ wpc = "socket"
  /\ \/ \E s \in Sockets :
          /\ FreeSocket(s)
          /\ sockState' = [sockState EXCEPT ![s] = "open"]
          /\ user_sock_u' = [user_sock_u EXCEPT !.socket_num = s]
          /\ call' = [NoCall EXCEPT !.sock = s]
          /\ wpc' = "bind"
          /\ UNCHANGED queue
     \/ /\ OpenSockets = Sockets \/ "socket" \in MayFail
        /\ user_sock_u' = [user_sock_u EXCEPT !.socket_num = NoSocket]
        /\ wpc' = "idle"
        /\ queue' = Post(queue, <<"MSG_SOCKET_ERR">>)
        /\ UNCHANGED <<call, sockState>>
  /\ UNCHANGED <<oneshotflag, rpc, rcvVars, timerVars, lcdVars, mbox, netVars,
                 fault>>

\* CreateUdpSock: bind() succeeded.
WifiBound ==
  /\ fault = 0
  /\ wpc = "bind"
  /\ BindOk(call.sock)
  /\ sockState' = [sockState EXCEPT ![call.sock] = "bound"]
  /\ user_sock_u' = [user_sock_u EXCEPT !.conn_status = 1]
  /\ wpc' = "idle"
  /\ call' = NoCall
  /\ UNCHANGED <<queue, oneshotflag, rpc, rcvVars, timerVars, lcdVars,
                 mbox, netVars, fault>>

\* CreateUdpSock: bind() failed; the error path closes socket_num, which the
\* receive task may have cleared meanwhile.
WifiBindFailed ==
  /\ fault = 0
  /\ wpc = "bind"
  /\ ~BindOk(call.sock)
  /\ IF user_sock_u.socket_num >= 0
     THEN /\ wpc' = "errclose"
          /\ call' = [NoCall EXCEPT !.sock = user_sock_u.socket_num]
          /\ UNCHANGED queue
     ELSE /\ wpc' = "idle"
          /\ call' = NoCall
          /\ queue' = Post(queue, <<"MSG_SOCKET_ERR">>)
  /\ UNCHANGED <<oneshotflag, user_sock_u, rpc, rcvVars, timerVars, lcdVars,
                 lwipVars, netVars, fault>>

\* Faulty variant: the record keeps the number and the status.
WifiClosed_Stale ==
  /\ fault = 0
  /\ wpc \in {"errclose", "close"}
  /\ CloseSocket(call.sock)
  /\ AbandonWaiter(call.sock)
  /\ wpc' = "idle"
  /\ call' = NoCall
  /\ queue' = Post(queue, IF wpc = "errclose" THEN <<"MSG_SOCKET_ERR">> ELSE <<>>)
  /\ UNCHANGED <<user_sock_u, oneshotflag, rcvVars, timerVars, lcdVars, netVars, fault>>

\* closesocket() returned, in CreateUdpSock's error path or in CloseUdpSock.
WifiClosed ==
  /\ fault = 0
  /\ wpc \in {"errclose", "close"}
  /\ CloseSocket(call.sock)
  /\ AbandonWaiter(call.sock)
  /\ user_sock_u' = [user_sock_u EXCEPT !.socket_num = NoSocket,
                                        !.conn_status = 0]
  /\ wpc' = "idle"
  /\ call' = NoCall
  /\ queue' = Post(queue, IF wpc = "errclose" THEN <<"MSG_SOCKET_ERR">> ELSE <<>>)
  /\ UNCHANGED <<oneshotflag, rcvVars, timerVars, lcdVars, netVars, fault>>

WifiStep ==
  \/ WifiNetUp \/ WifiNetDown \/ WifiOneshot \/ WifiKey
  \/ WifiSnd \/ WifiSent \/ WifiSocketErr \/ WifiRetry
  \/ WifiSocketDone \/ WifiBound \/ WifiBindFailed \/ WifiClosed
-----------------------------------------------------------------------------
(***************************************************************************)
(* The receive task, SockRcvTaskProc.  In "poll" it is at the top of its    *)
(* loop or in tls_os_time_delay(HZ/10); in "wait" it is blocked in          *)
(* recvfrom; "stuck" is the blocked task whose mailbox is gone.             *)
(***************************************************************************)
RcvStates == {"poll", "call", "wait", "stuck", "handle", "copy", "len", "addr",
              "post", "err", "errnum", "errconn", "errpost"}

\* The task does not want the processor: it sleeps between polls, inside
\* Data_Handle (a command that writes the EEPROM or the relay waits there) or in
\* recvfrom.
RcvBlocked ==
  \/ rpc \in {"poll", "handle", "stuck"}
  \/ rpc = "wait" /\ mbox[rsock] = <<>>

\* The task gets the processor at p; it leaves alone what belongs to others.
RcvAt(p) ==
  /\ fault = 0
  /\ WifiBlocked
  /\ rpc = p
  /\ UNCHANGED <<wifiVars, timerVars, lcdVars, netVars, fault>>

\* Faulty variant: the pointer is not tested.
RcvPoll_NoTest ==
  /\ RcvAt("poll")
  /\ user_sock_u = NULL \/ user_sock_u.conn_status = 1
  /\ rpc' = "call"
  /\ UNCHANGED <<queue, user_sock_u, rcvVars, lwipVars>>

\* sock_u = user_sock_u is usable.
RcvPoll ==
  /\ RcvAt("poll")
  /\ user_sock_u # NULL
  /\ user_sock_u.conn_status = 1
  /\ rpc' = "call"
  /\ UNCHANGED <<queue, user_sock_u, rcvVars, lwipVars>>

\* recvfrom(socket_num): waits, or returns -1 at once for a closed number.
\* Data_Handle then sees a buffer of zeros and does nothing.
RcvCall ==
  /\ RcvAt("call")
  /\ IF user_sock_u.socket_num \in OpenSockets
     THEN rpc' = "wait" /\ rsock' = user_sock_u.socket_num
     ELSE rpc' = "err" /\ UNCHANGED rsock
  /\ UNCHANGED <<queue, user_sock_u, rx, ack, histVars, lwipVars>>

\* recvfrom returned a datagram; an empty one is ret = 0, the error branch.
RcvDatagram ==
  /\ RcvAt("wait")
  /\ mbox[rsock] # <<>>
  /\ rx' = Head(mbox[rsock])
  /\ mbox' = [mbox EXCEPT ![rsock] = Tail(@)]
  /\ rsock' = NoSocket
  /\ rpc' = IF rx'.kind = "empty" THEN "err" ELSE "handle"
  /\ UNCHANGED <<queue, user_sock_u, ack, histVars, sockState>>

\* Data_Handle: a command it accepts fills UDPAck and sets UDPAckLen, anything
\* else leaves both as they are (module MeterCommand has the details).
RcvHandle ==
  /\ RcvAt("handle")
  /\ ack' = CASE rx.kind = "write" -> [data |-> rx, len |-> WriteAckLen]
              [] rx.kind = "read"  -> [data |-> rx, len |-> ReadAckLen]
              [] OTHER             -> ack
  /\ rpc' = "copy"
  /\ UNCHANGED <<queue, user_sock_u, rsock, rx, histVars, lwipVars>>

\* Nothing keeps the receive task from serving the next datagram while the WiFi
\* task still sleeps over the answer before it.
RcvCopy ==
  /\ RcvAt("copy")
  /\ user_sock_u' = [user_sock_u EXCEPT !.sock_tx = ack.data]
  /\ rpc' = "len"
  /\ ans' = rx
  /\ overlap' = IF AnswerPending THEN 1 ELSE 0
  /\ UNCHANGED <<queue, rsock, rx, ack, lwipVars>>

\* Faulty variants: the answer is announced before the address is stored; the
\* length is not stored.
RcvLen_EarlyPost ==
  /\ RcvAt("len")
  /\ user_sock_u' = [user_sock_u EXCEPT !.tx_len = ack.len]
  /\ queue' = Post(queue, <<"MSG_SOCKET_SND">>)
  /\ rpc' = "addr"
  /\ UNCHANGED <<rcvVars, lwipVars>>

RcvLen_Forgotten ==
  /\ RcvAt("len")
  /\ rpc' = "addr"
  /\ UNCHANGED <<queue, user_sock_u, rcvVars, lwipVars>>

RcvLen ==
  /\ RcvAt("len")
  /\ user_sock_u' = [user_sock_u EXCEPT !.tx_len = ack.len]
  /\ rpc' = "addr"
  /\ UNCHANGED <<queue, rcvVars, lwipVars>>

RcvAddr ==
  /\ RcvAt("addr")
  /\ user_sock_u' = [user_sock_u EXCEPT !.remote = rx.from]
  /\ rpc' = "post"
  /\ UNCHANGED <<queue, rcvVars, lwipVars>>

\* tls_os_queue_send, then memset(UDPAck, 0, UDPAckLen); the length stays.
RcvPost ==
  /\ RcvAt("post")
  /\ queue' = Post(queue, <<"MSG_SOCKET_SND">>)
  /\ ack' = [ack EXCEPT !.data = NoData]
  /\ rpc' = "poll"
  /\ UNCHANGED <<user_sock_u, rsock, rx, histVars, lwipVars>>

\* The error branch closes whatever socket_num is now, which need not be the
\* socket recvfrom failed on.
RcvErrClose ==
  /\ RcvAt("err")
  /\ CloseSocket(user_sock_u.socket_num)
  /\ rpc' = "errnum"
  /\ UNCHANGED <<queue, user_sock_u, rcvVars>>

RcvErrNum ==
  /\ RcvAt("errnum")
  /\ user_sock_u' = [user_sock_u EXCEPT !.socket_num = NoSocket]
  /\ rpc' = "errconn"
  /\ UNCHANGED <<queue, rcvVars, lwipVars>>

RcvErrConn ==
  /\ RcvAt("errconn")
  /\ user_sock_u' = [user_sock_u EXCEPT !.conn_status = 0]
  /\ rpc' = "errpost"
  /\ UNCHANGED <<queue, rcvVars, lwipVars>>

\* Faulty variant: the WiFi task is not told.
RcvErrPost_Silent ==
  /\ RcvAt("errpost")
  /\ rpc' = "poll"
  /\ UNCHANGED <<queue, user_sock_u, rcvVars, lwipVars>>

RcvErrPost ==
  /\ RcvAt("errpost")
  /\ queue' = Post(queue, <<"MSG_SOCKET_ERR">>)
  /\ rpc' = "poll"
  /\ UNCHANGED <<user_sock_u, rcvVars, lwipVars>>

RcvStep ==
  \/ RcvPoll \/ RcvCall \/ RcvDatagram \/ RcvHandle
  \/ RcvCopy \/ RcvLen \/ RcvAddr \/ RcvPost
  \/ RcvErrClose \/ RcvErrNum \/ RcvErrConn \/ RcvErrPost
-----------------------------------------------------------------------------
(***************************************************************************)
(* The timer callback KeyScanTimerProc.  A message it posts wakes the WiFi  *)
(* task at once, so the blink mode is read in a step of its own, and        *)
(* UserLcdBlinkProc can be preempted between that test and the icon.        *)
(***************************************************************************)
TimerAt(p) ==
  /\ fault = 0
  /\ WifiBlocked
  /\ RcvBlocked
  /\ tpc = p
  /\ UNCHANGED <<wifiVars, user_sock_u, rpc, rcvVars, gsBlinkStatus, lwipVars,
                 netVars, fault>>

TimerScan ==
  /\ TimerAt("idle")
  /\ \E level \in KeyLevels :
       /\ KS!Scan(level)
       /\ queue' = Post(queue, KS!KeyMsgs(level))
  /\ tpc' = "check"
  /\ UNCHANGED <<div_blink, icon>>

TimerCheck ==
  /\ TimerAt("check")
  /\ tpc' = IF gsBlinkStatus = 0 THEN "idle" ELSE "blink"
  /\ UNCHANGED <<queue, keyVars, div_blink, icon>>

\* Mode 0 of UserLcdBlinkProc, the only one gsBlinkStatus = 1 selects.
TimerBlink ==
  /\ TimerAt("blink")
  /\ tpc' = "idle"
  /\ div_blink' = IF div_blink + 1 <= BLINK_PERIOD THEN div_blink + 1 ELSE 0
  /\ icon' = CASE div_blink + 1 <= BLINK_ON     -> 1
               [] div_blink + 1 \in (BLINK_ON + 1)..BLINK_PERIOD -> 0
               [] OTHER                         -> icon
  /\ UNCHANGED <<queue, keyVars>>

TimerStep == TimerScan \/ TimerCheck \/ TimerBlink
-----------------------------------------------------------------------------
(***************************************************************************)
(* The environment: the WiFi driver, DHCP, the one-shot library, the hosts. *)
(* Their tasks outrank everything above.                                   *)
(***************************************************************************)
EnvOnly ==
  /\ fault = 0
  /\ UNCHANGED <<wifiVars, user_sock_u, rpc, rcvVars, timerVars, lcdVars,
                 sockState, fault>>

\* UserWlanStatusChangedEvent(NETIF_IP_NET_UP), withheld during one-shot.
ReportNetUp ==
  queue' = IF oneshot = 1 THEN queue ELSE Post(queue, <<"MSG_NET_UP">>)

Join ==
  /\ EnvOnly
  /\ netif = "down"
  /\ netif' = "joined"
  /\ UNCHANGED <<queue, mbox, oneshot>>

GotAddr ==
  /\ EnvOnly
  /\ netif = "joined"
  /\ netif' = "ip"
  /\ ReportNetUp
  /\ UNCHANGED <<mbox, oneshot>>

\* A lease lost or renewed with another address is one more NET_UP.
AddrChange ==
  /\ EnvOnly
  /\ "addrchange" \in NetEvents
  /\ netif = "ip"
  /\ ReportNetUp
  /\ UNCHANGED <<mbox, netVars>>

\* UserWlanStatusChangedEvent(NETIF_WIFI_DISCONNECTED); the system task takes
\* the interface down later.
Disconnect ==
  /\ EnvOnly
  /\ "disconnect" \in NetEvents
  /\ netif \in {"joined", "ip"}
  /\ netif' = "lost"
  /\ queue' = Post(queue, <<"MSG_NET_DOWN">>)
  /\ UNCHANGED <<mbox, oneshot>>

IfDown ==
  /\ EnvOnly
  /\ netif = "lost"
  /\ netif' = "down"
  /\ UNCHANGED <<queue, mbox, oneshot>>

OneshotDone ==
  /\ EnvOnly
  /\ oneshot = 1
  /\ oneshot' = 0
  /\ UNCHANGED <<queue, mbox, netif>>

Serving == rpc \in {"handle", "copy", "len", "addr", "post"}

\* A request of host p is somewhere between its arrival and its answer.
Waits(p) ==
  \/ \E s \in Sockets : \E i \in DOMAIN mbox[s] : mbox[s][i].from = p
  \/ Serving /\ rx.from = p
  \/ AnswerPending /\ ans.from = p

Deliver ==
  /\ EnvOnly
  /\ netif = "ip"
  /\ \E s \in BoundSockets, d \in Datagrams :
       /\ Pipelined \/ ~Waits(d.from)
       /\ Len(mbox[s]) < MboxSize
       /\ mbox' = [mbox EXCEPT ![s] = Append(@, d)]
  /\ UNCHANGED <<queue, netVars>>

EnvStep ==
  \/ Join \/ GotAddr \/ AddrChange \/ Disconnect \/ IfDown
  \/ OneshotDone \/ Deliver

\* A trap ends everything.
Halted == fault = 1 /\ UNCHANGED vars
-----------------------------------------------------------------------------
\* CreateWifiTask and CreateUserTask have run; nothing has happened yet.
Init ==
  /\ queue = <<>>
  /\ wpc = "idle"
  /\ oneshotflag = 0
  /\ call = NoCall
  /\ user_sock_u = NULL
  /\ rpc = "poll"
  /\ rsock = NoSocket
  /\ rx \in Datagrams    \* uninitialised, never read before it is written
  /\ ack = [data |-> NoData, len |-> 0]
  /\ KS!KeyInit
  /\ tpc = "idle"
  /\ div_blink = 0
  /\ gsBlinkStatus = 0
  /\ icon = 0
  /\ sockState = [s \in Sockets |-> "closed"]
  /\ mbox = [s \in Sockets |-> <<>>]
  /\ netif = "down"
  /\ oneshot = 0
  /\ fault = 0
  /\ ans = rx
  /\ overlap = 0

Next == WifiStep \/ RcvStep \/ TimerStep \/ EnvStep \/ Halted

Spec == Init /\ [][Next]_vars

\* A ready task is delayed only by the tasks above it, which all block.  The
\* receive task outranks the timer, so scans between its polls cannot keep it
\* from running: strong fairness.
FairSpec == Spec /\ WF_vars(WifiStep) /\ SF_vars(RcvStep) /\ WF_vars(TimerStep)
-----------------------------------------------------------------------------
QueueTypeOK == queue \in Seq(Messages) /\ Len(queue) <= WIFI_QUEUE_SIZE

CallType == [sock : Sockets \cup {NoSocket}, to : Peers \cup {Nobody},
             len : 0..(U32 - 1)]

WifiTypeOK == wpc \in WifiStates /\ oneshotflag \in {0, 1} /\ call \in CallType

RcvTypeOK ==
  /\ rpc \in RcvStates
  /\ rsock \in Sockets \cup {NoSocket}
  /\ rx \in Datagrams
  /\ ack \in [data : Datagrams \cup {NoData}, len : 0..(U16 - 1)]
  /\ ans \in Datagrams
  /\ overlap \in {0, 1}

TimerTypeOK ==
  /\ KS!KeyInv
  /\ tpc \in {"idle", "check", "blink"}
  /\ div_blink \in 0..BLINK_PERIOD

LcdTypeOK == gsBlinkStatus \in {0, 1} /\ icon \in {0, 1}

LwipTypeOK ==
  /\ sockState \in [Sockets -> {"closed", "open", "bound"}]
  /\ mbox \in [Sockets -> Seq(Datagrams)]

NetTypeOK ==
  /\ netif \in {"down", "joined", "ip", "lost"}
  /\ oneshot \in {0, 1}
  /\ fault \in {0, 1}

TypeOK ==
  /\ QueueTypeOK
  /\ WifiTypeOK
  /\ user_sock_u \in Sock_U \cup {NULL}
  /\ RcvTypeOK
  /\ TimerTypeOK
  /\ LcdTypeOK
  /\ LwipTypeOK
  /\ NetTypeOK

\* Outside CloseUdpSock the record is never used before SocketUdp allocated it:
\* not by the receive task, not by a reply in the queue, not inside a call.
RecordBeforeUse ==
  \/ user_sock_u # NULL
  \/ /\ rpc = "poll"
     /\ wpc \in {"idle", "delay"}
     /\ \A i \in DOMAIN queue : queue[i] # "MSG_SOCKET_SND"

\* conn_status tells the truth: outside the window in which one of the tasks is
\* replacing or closing the socket, a record marked connected with a socket
\* number names a socket that is open and owns UDP_LOCAL_PORT.
ConnMeansBound ==
  /\ user_sock_u # NULL
  /\ user_sock_u.conn_status = 1
  /\ user_sock_u.socket_num # NoSocket
  /\ wpc \notin {"bind", "errclose"}
  /\ rpc # "errnum"
  => user_sock_u.socket_num \in BoundSockets

\* The parts of the inductive invariant of the proofs: the shared socket number
\* and the socket of the pending call agree unless the receive task has cleared
\* the number, and the receive task waits on a real socket.
CallAgrees ==
  /\ wpc \in {"bind", "errclose", "close"} =>
       user_sock_u # NULL /\ user_sock_u.socket_num \in {NoSocket, call.sock}
  /\ wpc = "bind" => call.sock \in Sockets
  /\ rpc = "wait" => rsock \in Sockets

\* The bytes and the lengths that answer d; the length of the answer to a datagram
\* that is no command is left over from an earlier one.
AnswerTo(d) == IF d.kind \in {"write", "read"} THEN d ELSE NoData
AnswerLens(d) == CASE d.kind = "write" -> {WriteAckLen}
                   [] d.kind = "read"  -> {ReadAckLen}
                   [] OTHER            -> 0..(U16 - 1)

\* A host gets the answer to its own request: while sendto runs, the address, the
\* length and the bytes lwIP is about to read belong to the datagram whose answer
\* was copied into the record last, although three tasks share the record and
\* UDPAckLen outlives the answer it was set for.  There is one exception: an
\* answer copied while another still waited in the queue or in sendto.  How many
\* hosts send, and whether they wait, does not matter, and the first answer that
\* is copied while none is pending is right again.
ReplyMatches ==
  wpc = "send" /\ overlap = 0 =>
    /\ call.to = ans.from
    /\ user_sock_u.sock_tx = AnswerTo(ans)
    /\ call.len \in AnswerLens(ans)

\* The first part of what ReplyMatches rests on: an answer that was not copied over
\* another one is in one place only, in the making, in the queue or in sendto.
Once(m) == \A i, j \in DOMAIN queue : queue[i] = m /\ queue[j] = m => i = j

Filling == rpc \in {"len", "addr", "post"}

OneAnswer ==
  overlap = 0 =>
    /\ Once("MSG_SOCKET_SND")
    /\ InQueue("MSG_SOCKET_SND") => wpc # "send"
    /\ Filling => ~AnswerPending

\* The second: wherever it is, the buffers filled so far belong to it.
AnswerAgrees ==
  /\ rpc \notin {"copy", "len", "addr", "post"} => ack.data = NoData
  /\ rpc \in {"copy", "len", "addr", "post"} =>
       ack.data = AnswerTo(rx) /\ ack.len \in AnswerLens(rx)
  /\ Filling => ans = rx /\ user_sock_u.sock_tx = ack.data
  /\ rpc = "post" => user_sock_u.remote = rx.from
  /\ overlap = 0 =>
       /\ rpc \in {"addr", "post"} => user_sock_u.tx_len = ack.len
       /\ AnswerPending =>
            /\ user_sock_u.sock_tx = AnswerTo(ans)
            /\ user_sock_u.tx_len \in AnswerLens(ans)
            /\ user_sock_u.remote = ans.from
       /\ wpc = "send" =>
            call.to = ans.from /\ call.len = user_sock_u.tx_len /\ call.len > 0

\* With a stable network and no failing call the socket is set up by one party at
\* a time, so that no other message is in the way of an answer.
Stable == MayFail = {} /\ NetEvents = {}

SettingUp == wpc \in {"delay", "socket", "bind", "errclose"}
Connected == user_sock_u # NULL /\ (user_sock_u.conn_status = 1 \/ rpc # "poll")

SetupOnce ==
  Stable =>
    /\ netif # "lost" /\ wpc # "close" /\ ~InQueue("MSG_NET_DOWN")
    /\ Once("MSG_NET_UP") /\ Once("MSG_SOCKET_ERR")
    /\ netif # "ip" => ~InQueue("MSG_NET_UP")
    /\ netif # "ip" \/ InQueue("MSG_NET_UP") => ~InQueue("MSG_SOCKET_ERR")
    /\ netif # "ip" \/ InQueue("MSG_NET_UP") \/ InQueue("MSG_SOCKET_ERR") => ~SettingUp
    /\ netif # "ip" \/ InQueue("MSG_NET_UP") \/ InQueue("MSG_SOCKET_ERR") \/ SettingUp
         => ~Connected
    /\ rpc = "errpost" => user_sock_u.conn_status = 0

\* An answered request reaches sendto: it is not lost in the queue.
RequestAnswered ==
  \A d \in Datagrams : d.kind \in {"write", "read"} =>
    (rpc = "handle" /\ rx = d ~> wpc = "send" /\ user_sock_u.sock_tx = d)

\* A failed recvfrom (an empty datagram) only interrupts the service: the
\* receive task ends up waiting on a socket again.
ServiceRecovers == rpc = "err" ~> rpc = "wait"

\* Every datagram put into the mailbox of the meter's port is taken out of it.
DatagramTaken ==
  \A s \in Sockets : mbox[s] # <<>> ~> mbox[s] = <<>>

\* CloseUdpSock closes the UDP service: when the WiFi task has finished with
\* MSG_NET_DOWN no socket holds the port.
PortFreeAfterNetDown ==
  [][(\/ wpc = "close" /\ wpc' = "idle"
      \/ wpc = "idle" /\ wpc' = "idle" /\ queue # <<>> /\ queue' = Tail(queue)
         /\ Head(queue) = "MSG_NET_DOWN")
     => BoundSockets' = {}]_vars
-----------------------------------------------------------------------------
(***************************************************************************)
(* UdpLink implements UdpService: a request is in service from the copy of   *)
(* its answer into the record until the WiFi task takes MSG_SOCKET_SND, and  *)
(* its answer is what the pending sendto was given.                         *)
(***************************************************************************)
InService == IF Filling \/ InQueue("MSG_SOCKET_SND") THEN ans ELSE NULL

InSendto ==
  IF wpc = "send"
  THEN [to |-> call.to, data |-> user_sock_u.sock_tx, len |-> call.len]
  ELSE NULL

Service == INSTANCE UdpService WITH
  Requests <- Datagrams, None <- NULL, Lossy <- (MayFail # {} \/ NetEvents # {}),
  asked <- InService, reply <- InSendto, mixed <- (overlap = 1)

\* The tasks, the queue and the shared record implement the service: no request
\* is answered twice or with the answer of another, no answer is sent without a
\* request, and none changes between the call of sendto and its return, except
\* from a request that overtakes the one in service until one that does not.
ServiceRefined == Service!Spec

\* In addition, with a stable network every command is answered.
PromptServiceRefined == Service!PromptSpec
=============================================================================
